-------------------------- MODULE HubServicesProofs --------------------------
(***************************************************************************)
(* Proofs about the services of the Hub (HubServices).  Each service keeps *)
(* its own variables, so that a step of the Hub is, for one of them, one   *)
(* of its own steps or none at all (the lemmas named ...Turns); what a     *)
(* service promises follows from the inductive invariant at the end of its *)
(* module.                                                                 *)
(***************************************************************************)
EXTENDS HubServices, TLAPS

------------------------------------------------------------------------------
(* Maintenance of Music Assistant and of the Apollo devices.               *)

LEMMA KindFacts ==
    /\ Devices \subseteq Updates!Kinds /\ "music" \in Updates!Kinds /\ "music" \notin Devices
    /\ \A k \in Updates!Kinds : k # "music" => k \in Devices
    /\ \A k \in Updates!Kinds : Updates!Product(k) \in {"music", "apollo"}
    /\ Updates!Versions \subseteq Nat /\ 0 \in Updates!Versions
BY NamesAreDistinct, BoundsAssumption DEF Updates!Kinds, Updates!Product, Updates!Versions

\* The types, one by one.
LEMMA UpdatesTypes ==
    ASSUME Updates!TypeOK
    PROVE  /\ saved \in Updates!Saved
           /\ saved.stage \in [Devices -> {"none", "issued", "unconfirmed", "succeeded"}]
           /\ saved.version \in [Devices -> Updates!Versions]
               /\ saved.attempts \in [Updates!Kinds -> Updates!Versions]
           /\ catalog \in Updates!Releases /\ released \in Updates!Releases
           /\ \A p \in {"music", "apollo"} : catalog[p] \in Nat /\ released[p] \in Nat
           /\ firmware \in [Devices -> Updates!Versions] /\ flash \in [Devices -> Updates!Versions]
           /\ sent \in [Devices -> Nat] /\ tried \in [Updates!Kinds \X Updates!Versions -> Nat]
           /\ \A k \in Updates!Kinds : saved.attempts[k] \in Nat
           /\ \A d \in Devices : saved.version[d] \in Nat /\ sent[d] \in Nat /\ flash[d] \in Nat
               /\ firmware[d] \in Nat
BY KindFacts DEF Updates!TypeOK, Updates!Saved, Updates!Releases

\* An installation at work has all its fields.
LEMMA InstallFacts ==
    ASSUME Updates!TypeOK, install.pc # "idle"
    PROVE  /\ install \in Updates!Installs
           /\ install.pc \in {"asking", "checking", "claiming", "sending", "answer"}
           /\ install.kind \in Updates!Kinds /\ install.version \in Updates!Versions /\ install.version \in Nat
           /\ install.automatic \in BOOLEAN
           /\ install.saved \in Updates!Saved
           /\ install.saved.stage \in [Devices -> {"none", "issued", "unconfirmed", "succeeded"}]
           /\ install.saved.version \in [Devices -> Updates!Versions]
           /\ install.saved.attempts \in [Updates!Kinds -> Updates!Versions]
<1>1. install \in Updates!Installs
  BY DEF Updates!TypeOK, Updates!Idle
<1>2. /\ install.pc \in {"asking", "checking", "claiming", "sending", "answer"}
      /\ install.kind \in Updates!Kinds /\ install.version \in Updates!Versions
      /\ install.automatic \in BOOLEAN /\ install.saved \in Updates!Saved
  BY <1>1 DEF Updates!Installs
<1> QED
  BY <1>1, <1>2, KindFacts DEF Updates!Saved

\* An installation that is not there holds nothing.
LEMMA IdleFacts ==
    /\ install = Updates!Idle => install.pc = "idle"
    /\ install' = Updates!Idle => install'.pc = "idle" /\ Updates!CopyIsCurrent' /\ Updates!NothingUnderWay'
BY DEF Updates!Idle, Updates!CopyIsCurrent, Updates!NothingUnderWay, Updates!Holding

\* What the deliveries are about, and what the attempts are.
LEMMA DeliveriesUnchanged ==
    ASSUME Updates!DeliveriesAreSaved, UNCHANGED <<sent, flash, firmware>>,
           \A d \in Devices : saved'.version[d] = saved.version[d]
                              /\ (Updates!Uncertain(saved, d) => Updates!Uncertain(saved', d))
    PROVE  Updates!DeliveriesAreSaved'
BY DEF Updates!DeliveriesAreSaved, Updates!Uncertain

LEMMA AttemptsUnchanged ==
    ASSUME Updates!TypeOK, Updates!AttemptsAreKnown, UNCHANGED tried, saved'.attempts = saved.attempts,
           \A p \in {"music", "apollo"} :
              /\ released[p] <= released'[p] /\ released'[p] \in Nat /\ catalog'[p] \in Nat
              /\ catalog'[p] \in {0, catalog[p], released[p]}
    PROVE  Updates!AttemptsAreKnown'
<1>1. \A p \in {"music", "apollo"} : catalog'[p] <= released'[p]
  BY UpdatesTypes DEF Updates!AttemptsAreKnown
<1>2. ASSUME NEW k \in Updates!Kinds
      PROVE  /\ saved'.attempts[k] <= released'[Updates!Product(k)]
             /\ catalog'[Updates!Product(k)] # 0 => saved'.attempts[k] <= catalog'[Updates!Product(k)]
  <2>1. Updates!Product(k) \in {"music", "apollo"} /\ saved.attempts[k] \in Nat
    BY KindFacts, UpdatesTypes
  <2> DEFINE p == Updates!Product(k)
  <2> HIDE DEF p
  <2>2. /\ saved.attempts[k] <= released[p] /\ (catalog[p] # 0 => saved.attempts[k] <= catalog[p])
    BY DEF Updates!AttemptsAreKnown, p
  <2>3. /\ released[p] <= released'[p] /\ released'[p] \in Nat /\ released[p] \in Nat
        /\ catalog'[p] \in {0, catalog[p], released[p]}
    BY <2>1, UpdatesTypes DEF p
  <2> QED
    BY <2>1, <2>2, <2>3 DEF p
<1> QED
  BY <1>1, <1>2 DEF Updates!AttemptsAreKnown

\* install.saved is only compared with the saved state.
LEMMA CopyUnchanged ==
    ASSUME Updates!TypeOK, Updates!CopyIsCurrent, UNCHANGED install,
           saved'.attempts = saved.attempts, saved'.version = saved.version,
           \A d \in Devices : sent'[d] \in {0, sent[d]}
    PROVE  Updates!CopyIsCurrent'
BY DEF Updates!CopyIsCurrent, Updates!Holding, Updates!Uncertain

LEMMA WayUnchanged ==
    ASSUME Updates!TypeOK, Updates!AttemptsAreKnown, Updates!NothingUnderWay, UNCHANGED install,
           saved'.attempts = saved.attempts, saved'.version = saved.version,
           \A p \in {"music", "apollo"} :
              /\ released[p] <= released'[p] /\ released'[p] \in Nat
              /\ catalog'[p] \in {0, catalog[p], released[p]},
           install.pc \in {"claiming", "sending"} /\ install.kind # "music" =>
              /\ sent'[install.kind] = sent[install.kind] /\ firmware'[install.kind] = firmware[install.kind]
              /\ Updates!Uncertain(saved, install.kind) => Updates!Uncertain(saved', install.kind)
    PROVE  Updates!NothingUnderWay'
<1>1. CASE install.pc \notin {"claiming", "sending"}
  BY <1>1 DEF Updates!NothingUnderWay
<1>2. CASE install.pc \in {"claiming", "sending"}
  <2> DEFINE k == install.kind
             p == Updates!Product(k)
  <2>1. k \in Updates!Kinds /\ p \in {"music", "apollo"} /\ install.version \in Nat
    BY <1>2, KindFacts, InstallFacts
  <2>2. released[p] \in Nat /\ catalog[p] \in Nat
    BY <2>1, UpdatesTypes
  <2> HIDE DEF p
  <2>3. install.pc = "claiming" =>
          /\ install.version <= released[p] /\ (catalog[p] # 0 => install.version <= catalog[p])
    BY DEF Updates!NothingUnderWay, p
  <2>4. install.pc = "claiming" =>
          /\ install.version <= released'[p] /\ (catalog'[p] # 0 => install.version <= catalog'[p])
    BY <2>1, <2>2, <2>3
  <2> QED
    BY <1>2, <2>1, <2>4 DEF Updates!NothingUnderWay, p
<1> QED
  BY <1>1, <1>2

------------------------------------------------------------------------------
\* Consider goes on with the newest release that it may install, or ends.
LEMMA Considered ==
    ASSUME Updates!TypeOK, install.pc \in {"asking", "checking"}, NEW c, Updates!Consider(c)
    PROVE  /\ tick' \in {tick, "off"}
           /\ \/ install' = Updates!Idle
              \/ /\ install' \in Updates!Installs /\ install'.pc = "claiming" /\ install'.saved = saved
                 /\ install'.kind = install.kind /\ install'.version = install.version
                 /\ install'.automatic = install.automatic
                 /\ install.automatic => saved.attempts[install.kind] # install.version
                 /\ c[Updates!Product(install.kind)] = install.version
                 /\ install.kind # "music" =>
                      firmware[install.kind] < install.version /\ ~Updates!Uncertain(saved, install.kind)
<1>1. CASE Updates!Ends
  BY <1>1 DEF Updates!Ends
<1>2. CASE ~Updates!Ends
  <2> DEFINE t == [install EXCEPT !.pc = "claiming", !.saved = saved]
  <2>1. install' = t /\ tick' = tick
    BY <1>2 DEF Updates!Consider
  <2>2. /\ install.automatic => saved.attempts[install.kind] # install.version
        /\ c[Updates!Product(install.kind)] = install.version
        /\ install.kind # "music" => Updates!Candidate(install.kind, install.version)
            /\ ~Updates!Uncertain(saved, install.kind)
    BY <1>2 DEF Updates!Consider
  <2>3. install \in Updates!Installs /\ saved \in Updates!Saved
    BY InstallFacts, UpdatesTypes
  <2>4. /\ t \in Updates!Installs /\ t.pc = "claiming" /\ t.saved = saved
        /\ t.kind = install.kind /\ t.version = install.version /\ t.automatic = install.automatic
    BY <2>3 DEF Updates!Installs
  <2> QED
    BY <2>1, <2>2, <2>4 DEF Updates!Candidate
<1> QED
  BY <1>1, <1>2

\* What it goes on with is as NothingUnderWay says.
LEMMA ConsiderKeeps ==
    ASSUME Updates!UpdatesInv, install.pc \in {"asking", "checking"},
           NEW c \in {catalog} \cup Updates!Catalogs, catalog' = c, Updates!Consider(c),
           UNCHANGED <<saved, released, firmware, sent>>
    PROVE  Updates!CopyIsCurrent' /\ Updates!NothingUnderWay' /\ install' \in Updates!Installs \cup {Updates!Idle}
<1> USE DEF Updates!UpdatesInv
<1>1. CASE install' = Updates!Idle
  BY <1>1, IdleFacts
<1>2. CASE install' # Updates!Idle
  <2>1. /\ install' \in Updates!Installs /\ install'.pc = "claiming" /\ install'.saved = saved
        /\ install'.kind = install.kind /\ install'.version = install.version
        /\ install'.automatic = install.automatic
        /\ install.automatic => saved.attempts[install.kind] # install.version
        /\ c[Updates!Product(install.kind)] = install.version
        /\ install.kind # "music" =>
             firmware[install.kind] < install.version /\ ~Updates!Uncertain(saved, install.kind)
    BY <1>2, Considered
  <2>2. Updates!CopyIsCurrent'
    BY <2>1 DEF Updates!CopyIsCurrent, Updates!DeliveriesAreSaved, Updates!Uncertain
  <2> DEFINE k == install.kind
             p == Updates!Product(k)
  <2>3. k \in Updates!Kinds /\ p \in {"music", "apollo"} /\ (k # "music" => k \in Devices)
    BY KindFacts, InstallFacts
  <2>4. released[p] \in Nat /\ catalog[p] \in Nat /\ saved.attempts[k] \in Nat
    BY <2>3, UpdatesTypes
  <2>5. c[p] \in {0, catalog[p], released[p]}
    BY <2>3 DEF Updates!Catalogs
  <2>6. CASE c[p] # 0
    <3>1. saved.attempts[k] <= c[p] /\ c[p] <= released[p]
      BY <2>3, <2>4, <2>5, <2>6 DEF Updates!AttemptsAreKnown
    <3>2. k # "music" => sent[k] = 0
      BY <2>1, <2>3 DEF Updates!DeliveriesAreSaved
    <3>3. install.version > 0 /\ install.version \in Nat /\ catalog'[p] = install.version
      BY <2>1, InstallFacts DEF Updates!NothingUnderWay
    <3>4. saved.attempts[k] <= install.version /\ install.version <= released[p]
      BY <2>1, <3>1
    <3>5. install'.kind = k /\ Updates!Product(install'.kind) = p /\ released' = released
      BY <2>1
    <3> HIDE DEF k, p
    <3>6. /\ k # "music" => sent'[k] = 0 /\ firmware'[k] < install.version
          /\ install.automatic => saved.attempts[k] # install.version
      BY <2>1, <3>2 DEF k
    <3> QED
      BY <2>1, <2>2, <2>4, <3>3, <3>4, <3>5, <3>6 DEF Updates!NothingUnderWay
  <2>7. CASE c[p] = 0
    <3>1. install.version > 0 /\ install.version = 0
      BY <2>1, <2>7 DEF Updates!NothingUnderWay
    <3> QED
      BY <3>1
  <2> QED
    BY <2>6, <2>7
<1> QED
  BY <1>1, <1>2

\* The house is silent, or is not (assertIdle).
LEMMA AskedKeeps ==
    ASSUME Updates!UpdatesInv, NEW idle \in BOOLEAN, NEW fresh \in BOOLEAN, Updates!Asked(idle, fresh)
    PROVE  Updates!UpdatesInv'
<1> USE DEF Updates!UpdatesInv
<1>1. Updates!TypeOK'
  <2>1. install' = Updates!Idle \/ install' \in Updates!Installs
    <3>1. CASE idle /\ ~paused /\ fresh
      BY <3>1, ConsiderKeeps DEF Updates!Asked, Updates!store, Updates!outside, Updates!history
    <3>2. CASE idle /\ ~paused /\ ~fresh
      BY <3>2, InstallFacts DEF Updates!Asked, Updates!Installs
    <3> QED
      BY <3>1, <3>2 DEF Updates!Asked, Updates!Ends
  <2>2. tick' \in {tick, "off"}
    BY Considered DEF Updates!Asked, Updates!Ends
  <2> QED
    BY <2>1, <2>2 DEF Updates!Asked, Updates!TypeOK, Updates!store, Updates!outside, Updates!history
<1>2. Updates!DeliveriesAreSaved'
  BY KindFacts, UpdatesTypes, InstallFacts DEF Updates!Asked, Updates!Ends, Updates!store,
     Updates!outside, Updates!history, Updates!DeliveriesAreSaved, Updates!Uncertain
<1>3. Updates!AttemptsAreKnown'
  BY KindFacts, UpdatesTypes, InstallFacts DEF Updates!Asked, Updates!Ends, Updates!store,
     Updates!outside, Updates!history, Updates!AttemptsAreKnown
<1>4. Updates!CopyIsCurrent'
  <2>1. CASE idle /\ ~paused /\ fresh
    BY <2>1, ConsiderKeeps DEF Updates!Asked, Updates!store, Updates!outside, Updates!history
  <2>2. CASE idle /\ ~paused /\ ~fresh
    BY <2>2, InstallFacts DEF Updates!Asked, Updates!Installs, Updates!CopyIsCurrent, Updates!Holding
  <2> QED
    BY <2>1, <2>2, IdleFacts DEF Updates!Asked, Updates!Ends
<1>5. Updates!NothingUnderWay'
  <2>1. CASE idle /\ ~paused /\ fresh
    BY <2>1, ConsiderKeeps DEF Updates!Asked, Updates!store, Updates!outside, Updates!history
  <2>2. CASE idle /\ ~paused /\ ~fresh
    <3>1. install'.pc = "checking" /\ install'.version = install.version
      BY <2>2, InstallFacts DEF Updates!Asked, Updates!Installs
    <3> QED
      BY <3>1 DEF Updates!Asked, Updates!NothingUnderWay
  <2> QED
    BY <2>1, <2>2, IdleFacts DEF Updates!Asked, Updates!Ends
<1> QED
  BY <1>1, <1>2, <1>3, <1>4, <1>5

\* The releases were looked up.
LEMMA CheckedKeeps ==
    ASSUME Updates!UpdatesInv, NEW c \in Updates!Catalogs, Updates!Checked(c)
    PROVE  Updates!UpdatesInv'
<1> USE DEF Updates!UpdatesInv
<1>1. Updates!TypeOK'
  <2>1. install' \in Updates!Installs \cup {Updates!Idle}
    BY ConsiderKeeps DEF Updates!Checked, Updates!store, Updates!outside, Updates!history
  <2>2. tick' \in {tick, "off"}
    BY Considered DEF Updates!Checked
  <2>3. catalog' \in Updates!Releases
    BY UpdatesTypes, KindFacts DEF Updates!Checked, Updates!Releases, Updates!Catalogs
  <2> QED
    BY <2>1, <2>2, <2>3 DEF Updates!Checked, Updates!TypeOK, Updates!store, Updates!outside, Updates!history
<1>2. Updates!DeliveriesAreSaved'
  BY KindFacts, UpdatesTypes, InstallFacts DEF Updates!Checked, Updates!store, Updates!outside,
     Updates!history, Updates!DeliveriesAreSaved, Updates!Uncertain
<1>3. Updates!AttemptsAreKnown'
  <2>1. \A p \in {"music", "apollo"} : catalog'[p] \in {0, catalog[p], released[p]}
    BY DEF Updates!Checked, Updates!Catalogs
  <2> QED
    BY <2>1, UpdatesTypes, AttemptsUnchanged DEF Updates!Checked, Updates!store, Updates!outside, Updates!history
<1>4. Updates!CopyIsCurrent'
  BY ConsiderKeeps DEF Updates!Checked, Updates!store, Updates!outside, Updates!history
<1>5. Updates!NothingUnderWay'
  BY ConsiderKeeps DEF Updates!Checked, Updates!store, Updates!outside, Updates!history
<1> QED
  BY <1>1, <1>2, <1>3, <1>4, <1>5

\* What a claim saves.
LEMMA ClaimedFacts ==
    ASSUME Updates!TypeOK, install.pc = "claiming"
    PROVE  /\ Updates!Claimed \in Updates!Saved
           /\ Updates!Claimed.attempts = [install.saved.attempts EXCEPT ![install.kind] = install.version]
           /\ install.kind = "music" =>
                Updates!Claimed.stage = install.saved.stage /\ Updates!Claimed.version = install.saved.version
           /\ install.kind # "music" =>
                /\ Updates!Claimed.stage = [install.saved.stage EXCEPT ![install.kind] = "issued"]
                /\ Updates!Claimed.version = [install.saved.version EXCEPT ![install.kind] = install.version]
<1> DEFINE s == install.saved
           k == install.kind
           v == install.version
           a == [s EXCEPT !.attempts[k] = v]
<1>1. /\ s \in Updates!Saved /\ k \in Updates!Kinds /\ v \in Updates!Versions
      /\ k # "music" => k \in Devices
      /\ s.attempts \in [Updates!Kinds -> Updates!Versions]
      /\ s.version \in [Devices -> Updates!Versions]
      /\ s.stage \in [Devices -> {"none", "issued", "unconfirmed", "succeeded"}]
  BY InstallFacts, KindFacts
<1>2. /\ a.attempts = [s.attempts EXCEPT ![k] = v] /\ a.stage = s.stage /\ a.version = s.version
      /\ a \in Updates!Saved
  <2> HIDE DEF s, k, v
  <2> QED
    BY <1>1 DEF Updates!Saved
<1>3. CASE k = "music"
  BY <1>2, <1>3 DEF Updates!Claimed
<1>4. CASE k # "music"
  <2> DEFINE b == [a EXCEPT !.stage[k] = "issued", !.version[k] = v]
  <2>1. /\ b.attempts = a.attempts /\ b.stage = [a.stage EXCEPT ![k] = "issued"]
        /\ b.version = [a.version EXCEPT ![k] = v] /\ b \in Updates!Saved
    <3> HIDE DEF a, k, v
    <3> QED
      BY <1>1, <1>2, <1>4 DEF Updates!Saved
  <2>2. Updates!Claimed = b
    BY <1>4 DEF Updates!Claimed
  <2> QED
    BY <1>2, <1>4, <2>1, <2>2
<1> QED
  BY <1>3, <1>4

\* The claim is saved (saveState), unless the house is no longer silent.
LEMMA ClaimKeeps ==
    ASSUME Updates!UpdatesInv, NEW idle \in BOOLEAN, Updates!Claim(idle)
    PROVE  Updates!UpdatesInv'
<1> USE DEF Updates!UpdatesInv
<1>1. CASE ~idle \/ paused
  <2>1. install' = Updates!Idle /\ tick' \in {tick, "off"}
        /\ UNCHANGED <<saved, policy, aged, tried, catalog, hostRunning, recovering, released, firmware, flash,
            host, sent>>
    BY <1>1 DEF Updates!Claim, Updates!Ends, Updates!outside
  <2>2. Updates!TypeOK'
    BY <2>1 DEF Updates!TypeOK
  <2>3. Updates!DeliveriesAreSaved' /\ Updates!AttemptsAreKnown'
    BY <2>1 DEF Updates!DeliveriesAreSaved, Updates!AttemptsAreKnown, Updates!Uncertain
  <2> QED
    BY <2>1, <2>2, <2>3, IdleFacts
<1>2. CASE idle /\ ~paused
  <2> DEFINE k == install.kind
             v == install.version
             p == Updates!Product(k)
             c == Updates!Claimed
             t == [install EXCEPT !.pc = "sending", !.saved = c]
  <2>1. /\ install.pc = "claiming" /\ saved' = c /\ install' = t
        /\ tried' = [tried EXCEPT ![<<k, v>>] = @ + IF install.automatic THEN 1 ELSE 0]
        /\ aged' = [d \in Devices |-> aged[d] /\ d # k]
        /\ UNCHANGED <<tick, policy, catalog, hostRunning, recovering, released, firmware, flash, host, sent>>
    BY <1>2 DEF Updates!Claim, Updates!outside
  <2>2. /\ k \in Updates!Kinds /\ v \in Updates!Versions /\ v \in Nat /\ p \in {"music", "apollo"}
        /\ install \in Updates!Installs /\ (k = "music" <=> k \notin Devices)
    BY <2>1, KindFacts, InstallFacts
  <2>3. /\ c \in Updates!Saved
        /\ c.attempts = [saved.attempts EXCEPT ![k] = v]
        /\ k = "music" => c.stage = install.saved.stage /\ c.version = saved.version
        /\ k # "music" =>
             /\ c.stage = [install.saved.stage EXCEPT ![k] = "issued"]
             /\ c.version = [saved.version EXCEPT ![k] = v]
    BY <2>1, ClaimedFacts DEF Updates!CopyIsCurrent, Updates!Holding
  <2>4. /\ install' \in Updates!Installs /\ install'.pc = "sending" /\ install'.kind = k /\ install'.version = v
        /\ install'.automatic = install.automatic /\ install'.saved = c
    <3> HIDE DEF c
    <3> QED
      BY <2>1, <2>2, <2>3 DEF Updates!Installs
  <2>5. \A d \in Devices : ~Updates!Uncertain(install.saved, d) => sent[d] = 0
    BY <2>1 DEF Updates!CopyIsCurrent, Updates!Holding
  <2>6. /\ install.saved.stage \in [Devices -> {"none", "issued", "unconfirmed", "succeeded"}]
        /\ saved.version \in [Devices -> Updates!Versions] /\ saved.attempts \in [Updates!Kinds -> Updates!Versions]
    BY <2>1, InstallFacts, UpdatesTypes
  <2>7. /\ saved.attempts[k] <= v /\ v <= released[p] /\ v > 0
        /\ catalog[p] # 0 => v <= catalog[p]
        /\ install.automatic => saved.attempts[k] # v
        /\ k # "music" => sent[k] = 0 /\ firmware[k] < v
    BY <2>1 DEF Updates!NothingUnderWay
  <2>8. \A d \in Devices : ~Updates!Uncertain(c, d) => sent[d] = 0
    <3> HIDE DEF c, k
    <3> QED
      BY <2>3, <2>5, <2>6, <2>7 DEF Updates!Uncertain
  <2>9. tried' \in [Updates!Kinds \X Updates!Versions -> Nat]
    BY <2>1, <2>2, UpdatesTypes
  <2>10. Updates!TypeOK'
    <3>1. aged' \in [Devices -> BOOLEAN]
      BY <2>1 DEF Updates!TypeOK
    <3> QED
      BY <2>1, <2>3, <2>4, <2>9, <3>1 DEF Updates!TypeOK
  <2>11. Updates!DeliveriesAreSaved'
    <3> SUFFICES ASSUME NEW d \in Devices
                 PROVE  /\ sent[d] <= 1 /\ (~Updates!Uncertain(c, d) => sent[d] = 0)
                        /\ flash[d] # 0 => sent[d] = 1 /\ flash[d] = c.version[d] /\ firmware[d] < flash[d]
      BY <2>1 DEF Updates!DeliveriesAreSaved, Updates!Uncertain
    <3>1. /\ sent[d] <= 1
          /\ flash[d] # 0 => sent[d] = 1 /\ flash[d] = saved.version[d] /\ firmware[d] < flash[d]
      BY DEF Updates!DeliveriesAreSaved
    <3>2. d # k => c.version[d] = saved.version[d]
      BY <2>2, <2>3, <2>6
    <3> QED
      BY <2>2, <2>7, <2>8, <3>1, <3>2
  <2>12. Updates!AttemptsAreKnown'
    <3>1. \A q \in {"music", "apollo"} : catalog'[q] <= released'[q]
      BY <2>1 DEF Updates!AttemptsAreKnown
    <3>2. ASSUME NEW j \in Updates!Kinds
          PROVE  /\ c.attempts[j] <= released[Updates!Product(j)]
                 /\ catalog[Updates!Product(j)] # 0 => c.attempts[j] <= catalog[Updates!Product(j)]
      BY <2>2, <2>3, <2>6, <2>7 DEF Updates!AttemptsAreKnown
    <3>3. ASSUME NEW j \in Updates!Kinds, NEW w \in Updates!Versions
          PROVE  tried'[<<j, w>>] <= 1 /\ (tried'[<<j, w>>] = 1 => w <= c.attempts[j])
      <4>1. /\ tried[<<j, w>>] \in Nat /\ tried[<<j, w>>] <= 1 /\ (tried[<<j, w>>] = 1 => w <= saved.attempts[j])
            /\ saved.attempts[j] \in Nat /\ w \in Nat
        BY UpdatesTypes, KindFacts DEF Updates!AttemptsAreKnown
      <4>2. CASE <<j, w>> # <<k, v>>
        <5>1. tried'[<<j, w>>] = tried[<<j, w>>]
          BY <2>1, <4>2, UpdatesTypes
        <5>2. c.attempts[j] = IF j = k THEN v ELSE saved.attempts[j]
          BY <2>2, <2>3, <2>6
        <5> QED
          BY <2>2, <2>7, <4>1, <5>1, <5>2
      <4>3. CASE j = k /\ w = v
        <5>1. tried'[<<j, w>>] = tried[<<j, w>>] + IF install.automatic THEN 1 ELSE 0
          BY <2>1, <4>3, UpdatesTypes
        <5>2. c.attempts[j] = v
          BY <2>2, <2>3, <2>6, <4>3
        <5>3. install.automatic => tried[<<j, w>>] = 0
          BY <2>2, <2>7, <4>1, <4>3
        <5> QED
          BY <2>2, <4>1, <4>3, <5>1, <5>2, <5>3
      <4> QED
        BY <4>2, <4>3
    <3> QED
      BY <2>1, <3>1, <3>2, <3>3 DEF Updates!AttemptsAreKnown
  <2>13. Updates!CopyIsCurrent'
    BY <2>1, <2>4, <2>8 DEF Updates!CopyIsCurrent, Updates!Uncertain
  <2>14. Updates!NothingUnderWay'
    <3>1. k # "music" => Updates!Uncertain(c, k) /\ c.version[k] = v
      <4> HIDE DEF c
      <4> QED
        BY <2>2, <2>3, <2>6 DEF Updates!Uncertain
    <3>2. saved' = c /\ sent' = sent /\ firmware' = firmware
      BY <2>1
    <3> HIDE DEF c
    <3> QED
      BY <2>4, <2>7, <3>1, <3>2 DEF Updates!NothingUnderWay, Updates!Uncertain
  <2> QED
    BY <2>10, <2>11, <2>12, <2>13, <2>14
<1> QED
  BY <1>1, <1>2

\* The request goes out.
LEMMA SendKeeps ==
    ASSUME Updates!UpdatesInv, NEW takes \in BOOLEAN, Updates!Send(takes)
    PROVE  Updates!UpdatesInv'
<1> USE DEF Updates!UpdatesInv
<1>1. Updates!TypeOK'
  BY KindFacts, UpdatesTypes, InstallFacts DEF Updates!Send, Updates!store, Updates!outside,
     Updates!history, Updates!TypeOK, Updates!Saved, Updates!Installs, Updates!Releases,
     Updates!Idle
<1>2. Updates!DeliveriesAreSaved'
  <2> DEFINE k == install.kind
  <2>1. CASE k = "music"
    BY <2>1 DEF Updates!Send, Updates!DeliveriesAreSaved, Updates!Uncertain, Updates!store
  <2>2. CASE k # "music"
    <3>1. /\ k \in Devices /\ sent[k] = 0 /\ firmware[k] < install.version
          /\ Updates!Uncertain(saved, k) /\ saved.version[k] = install.version
      BY <2>2, KindFacts, InstallFacts DEF Updates!Send, Updates!NothingUnderWay
    <3>2. /\ sent' = [sent EXCEPT ![k] = @ + 1] /\ UNCHANGED <<saved, firmware>>
          /\ flash' = [flash EXCEPT ![k] = IF takes THEN install.version ELSE @]
      BY <2>2 DEF Updates!Send, Updates!store
    <3> HIDE DEF k
    <3> SUFFICES ASSUME NEW d \in Devices
                 PROVE  /\ sent'[d] <= 1 /\ (~Updates!Uncertain(saved, d) => sent'[d] = 0)
                        /\ flash'[d] # 0 => sent'[d] = 1 /\ flash'[d] = saved.version[d] /\ firmware[d] < flash'[d]
      BY <3>2 DEF Updates!DeliveriesAreSaved, Updates!Uncertain
    <3>3. /\ sent[d] <= 1 /\ (~Updates!Uncertain(saved, d) => sent[d] = 0)
          /\ flash[d] # 0 => sent[d] = 1 /\ flash[d] = saved.version[d] /\ firmware[d] < flash[d]
      BY DEF Updates!DeliveriesAreSaved
    <3>4. CASE d # k
      BY <3>2, <3>3, <3>4, UpdatesTypes
    <3>5. CASE d = k
      <4>1. sent'[d] = 1 /\ flash'[d] \in {0, install.version}
        BY <3>1, <3>2, <3>3, <3>5, UpdatesTypes
      <4> QED
        BY <3>1, <3>5, <4>1
    <3> QED
      BY <3>4, <3>5
  <2> QED
    BY <2>1, <2>2
<1>3. Updates!AttemptsAreKnown'
  BY KindFacts, UpdatesTypes, InstallFacts DEF Updates!Send, Updates!store, Updates!outside,
     Updates!history, Updates!AttemptsAreKnown
<1>4. Updates!CopyIsCurrent'
  <2>1. install'.saved = install.saved /\ install.pc = "sending"
    BY InstallFacts DEF Updates!Send, Updates!Installs
  <2>2. install.kind # "music" => Updates!Uncertain(install.saved, install.kind)
    BY <2>1 DEF Updates!NothingUnderWay
  <2>3. \A d \in Devices : ~Updates!Uncertain(install.saved, d) => sent'[d] = sent[d]
    BY <2>2, UpdatesTypes DEF Updates!Send
  <2> QED
    BY <2>1, <2>3 DEF Updates!Send, Updates!CopyIsCurrent, Updates!Holding, Updates!store, Updates!Uncertain
<1>5. Updates!NothingUnderWay'
  <2>1. install'.pc = "answer" /\ install'.version = install.version
    BY InstallFacts DEF Updates!Send, Updates!Installs
  <2> QED
    BY <2>1 DEF Updates!Send, Updates!NothingUnderWay
<1> QED
  BY <1>1, <1>2, <1>3, <1>4, <1>5

\* The answer came, or did not.
LEMMA AnsweredKeeps ==
    ASSUME Updates!UpdatesInv, NEW ok \in BOOLEAN, Updates!Answered(ok)
    PROVE  Updates!UpdatesInv'
<1> USE DEF Updates!UpdatesInv
<1>1. Updates!TypeOK'
  <2>1. saved' \in Updates!Saved
    <3> DEFINE s == install.saved
               k == install.kind
    <3>1. s \in Updates!Saved
      BY InstallFacts DEF Updates!Answered
    <3>2. [s EXCEPT !.stage[k] = "unconfirmed"] \in Updates!Saved
      <4> HIDE DEF s, k
      <4> QED
        BY <3>1 DEF Updates!Saved
    <3> QED
      BY <3>2, UpdatesTypes DEF Updates!Answered
  <2> QED
    BY <2>1 DEF Updates!Answered, Updates!Ends, Updates!TypeOK, Updates!Idle, Updates!outside, Updates!history
<1>2. Updates!DeliveriesAreSaved'
  <2>1. CASE saved' = saved
    BY <2>1 DEF Updates!Answered, Updates!DeliveriesAreSaved, Updates!Uncertain, Updates!outside, Updates!history
  <2>2. CASE saved' # saved
    <3> DEFINE s == install.saved
               k == install.kind
    <3>1. saved' = [s EXCEPT !.stage[k] = "unconfirmed"] /\ install.pc = "answer" /\ k # "music"
      BY <2>2 DEF Updates!Answered
    <3>2. s \in Updates!Saved /\ s.stage \in [Devices -> {"none", "issued", "unconfirmed", "succeeded"}]
          /\ k \in Devices
      BY <3>1, KindFacts, InstallFacts
    <3>3. s.version = saved.version /\ \A d \in Devices : ~Updates!Uncertain(s, d) => sent[d] = 0
      BY <3>1 DEF Updates!CopyIsCurrent, Updates!Holding
    <3> HIDE DEF s, k
    <3>4. saved'.version = s.version /\ saved'.stage = [s.stage EXCEPT ![k] = "unconfirmed"]
      BY <3>1, <3>2 DEF Updates!Saved
    <3>5. \A d \in Devices : ~Updates!Uncertain(saved', d) => sent[d] = 0
      BY <3>2, <3>3, <3>4 DEF Updates!Uncertain
    <3>6. UNCHANGED <<sent, flash, firmware>>
      BY DEF Updates!Answered, Updates!outside, Updates!history
    <3> QED
      BY <3>3, <3>4, <3>5, <3>6 DEF Updates!DeliveriesAreSaved, Updates!Uncertain
  <2> QED
    BY <2>1, <2>2
<1>3. Updates!AttemptsAreKnown'
  <2>1. saved'.attempts = saved.attempts
    <3>1. install.saved.attempts = saved.attempts /\ install.saved \in Updates!Saved
      BY InstallFacts DEF Updates!Answered, Updates!CopyIsCurrent, Updates!Holding
    <3> QED
      BY <3>1 DEF Updates!Answered, Updates!Saved
  <2> QED
    BY <2>1, UpdatesTypes, AttemptsUnchanged DEF Updates!Answered, Updates!outside, Updates!history
<1>4. Updates!CopyIsCurrent'
  BY IdleFacts DEF Updates!Answered, Updates!Ends
<1>5. Updates!NothingUnderWay'
  BY IdleFacts DEF Updates!Answered, Updates!Ends
<1> QED
  BY <1>1, <1>2, <1>3, <1>4, <1>5

\* What a tick makes of the jobs it finds (reconcile).
LEMMA Reconciles ==
    ASSUME Updates!TypeOK, NEW on \in SUBSET Devices, Updates!Tick(on)
    PROVE  /\ saved' \in Updates!Saved /\ saved'.attempts = saved.attempts /\ saved'.version = saved.version
           /\ \A d \in Devices :
                /\ saved'.stage[d] = Updates!Reconciled(d, on)
                /\ sent'[d] = IF Updates!Reconciled(d, on) = "succeeded" THEN 0 ELSE sent[d]
<1> DEFINE s == [d \in Devices |-> Updates!Reconciled(d, on)]
<1>1. saved' = [saved EXCEPT !.stage = s]
  BY DEF Updates!Tick
<1>2. s \in [Devices -> {"none", "issued", "unconfirmed", "succeeded"}]
  BY UpdatesTypes DEF Updates!Reconciled
<1>3. \A d \in Devices : s[d] = Updates!Reconciled(d, on)
  OBVIOUS
<1> HIDE DEF s
<1>4. /\ saved' \in Updates!Saved /\ saved'.attempts = saved.attempts /\ saved'.version = saved.version
      /\ saved'.stage = s
  BY <1>1, <1>2, UpdatesTypes DEF Updates!Saved
<1>5. sent' = [d \in Devices |-> IF saved'.stage[d] = "succeeded" THEN 0 ELSE sent[d]]
  BY DEF Updates!Tick
<1> QED
  BY <1>3, <1>4, <1>5

\* A job is settled only when nothing is under way.
LEMMA SettlesInTime ==
    ASSUME Updates!TypeOK, Updates!DeliveriesAreSaved, NEW on \in SUBSET Devices, NEW d \in Devices
    PROVE  /\ Updates!Reconciled(d, on) = "succeeded" => flash[d] = 0
           /\ Updates!Reconciled(d, on) \notin {"issued", "unconfirmed", "succeeded"} => sent[d] = 0
<1>1. /\ ~Updates!Uncertain(saved, d) => sent[d] = 0
      /\ flash[d] # 0 => sent[d] = 1 /\ flash[d] = saved.version[d] /\ firmware[d] < flash[d]
  BY DEF Updates!DeliveriesAreSaved
<1>2. sent[d] \in Nat /\ firmware[d] \in Nat /\ flash[d] \in Nat
  BY UpdatesTypes
<1>3. Updates!Uncertain(saved, d) => saved.stage[d] \in {"issued", "unconfirmed"}
  BY DEF Updates!Uncertain
<1> QED
  BY <1>1, <1>2, <1>3 DEF Updates!Reconciled

\* The tick looks at what the devices run.
LEMMA TickKeeps ==
    ASSUME Updates!UpdatesInv, NEW on \in SUBSET Devices, Updates!Tick(on)
    PROVE  Updates!UpdatesInv'
<1> USE DEF Updates!UpdatesInv
<1>1. Updates!TypeOK'
  <2>1. sent' \in [Devices -> Nat]
    BY UpdatesTypes DEF Updates!Tick
  <2>2. tick' \in {"off", "job", "idle"}
    BY DEF Updates!Tick, Updates!Polled
  <2> QED
    BY <2>1, <2>2, Reconciles DEF Updates!Tick, Updates!TypeOK, Updates!outside
<1>2. Updates!DeliveriesAreSaved'
  <2> SUFFICES ASSUME NEW d \in Devices
               PROVE  /\ sent'[d] <= 1 /\ (~Updates!Uncertain(saved', d) => sent'[d] = 0)
                      /\ flash[d] # 0 => sent'[d] = 1 /\ flash[d] = saved.version[d] /\ firmware[d] < flash[d]
    BY Reconciles DEF Updates!Tick, Updates!outside, Updates!DeliveriesAreSaved, Updates!Uncertain
  <2>1. /\ saved'.stage[d] = Updates!Reconciled(d, on)
        /\ sent'[d] = IF Updates!Reconciled(d, on) = "succeeded" THEN 0 ELSE sent[d]
    BY Reconciles
  <2>2. /\ sent[d] <= 1
        /\ flash[d] # 0 => sent[d] = 1 /\ flash[d] = saved.version[d] /\ firmware[d] < flash[d]
    BY DEF Updates!DeliveriesAreSaved
  <2> QED
    BY <2>1, <2>2, SettlesInTime DEF Updates!Uncertain
<1>3. Updates!AttemptsAreKnown'
  BY Reconciles, UpdatesTypes, AttemptsUnchanged DEF Updates!Tick, Updates!outside
<1>4. Updates!CopyIsCurrent'
  <2>1. \A d \in Devices : sent'[d] \in {0, sent[d]}
    BY Reconciles
  <2> QED
    BY <2>1, Reconciles, CopyUnchanged DEF Updates!Tick
<1>5. Updates!NothingUnderWay'
  <2>1. ASSUME install.pc \in {"claiming", "sending"}, install.kind # "music"
        PROVE  /\ sent'[install.kind] = sent[install.kind]
               /\ install.pc = "sending" => Updates!Uncertain(saved', install.kind)
    <3> DEFINE k == install.kind
    <3>1. k \in Devices
      BY <2>1, KindFacts, InstallFacts
    <3>2. /\ sent[k] = 0 /\ firmware[k] < install.version
          /\ install.pc = "sending" => Updates!Uncertain(saved, k) /\ saved.version[k] = install.version
      BY <2>1 DEF Updates!NothingUnderWay
    <3>3. /\ saved'.stage[k] = Updates!Reconciled(k, on)
          /\ sent'[k] = IF Updates!Reconciled(k, on) = "succeeded" THEN 0 ELSE sent[k]
      BY <3>1, Reconciles
    <3>4. install.version \in Nat /\ firmware[k] \in Nat
      BY <2>1, <3>1, InstallFacts, UpdatesTypes
    <3>5. install.pc = "sending" => Updates!Reconciled(k, on) \in {"issued", "unconfirmed"}
      <4> HIDE DEF k
      <4> QED
        BY <3>2, <3>4 DEF Updates!Reconciled, Updates!Uncertain
    <3> QED
      BY <3>2, <3>3, <3>5 DEF Updates!Uncertain
  <2>2. /\ UNCHANGED <<install, released, catalog, firmware>>
        /\ saved'.attempts = saved.attempts /\ saved'.version = saved.version
    BY Reconciles DEF Updates!Tick, Updates!outside
  <2> QED
    BY <2>1, <2>2 DEF Updates!NothingUnderWay
<1> QED
  BY <1>1, <1>2, <1>3, <1>4, <1>5

\* An administrator changes the policy.
LEMMA ConfigureKeeps ==
    ASSUME Updates!UpdatesInv, NEW p \in SUBSET (Updates!Kinds \cup {"recover"}), Updates!Configure(p)
    PROVE  Updates!UpdatesInv'
<1> USE DEF Updates!UpdatesInv
<1>1. Updates!TypeOK'
  BY KindFacts, UpdatesTypes, InstallFacts DEF Updates!Configure, Updates!store, Updates!outside,
     Updates!history, Updates!TypeOK, Updates!Saved, Updates!Installs, Updates!Releases,
     Updates!Idle
<1>2. Updates!DeliveriesAreSaved'
  BY DeliveriesUnchanged DEF Updates!Configure, Updates!store, Updates!outside, Updates!history
<1>3. Updates!AttemptsAreKnown'
  BY UpdatesTypes, AttemptsUnchanged DEF Updates!Configure, Updates!store, Updates!outside, Updates!history
<1>4. Updates!CopyIsCurrent'
  BY CopyUnchanged DEF Updates!Configure, Updates!store, Updates!outside, Updates!history
<1>5. Updates!NothingUnderWay'
  BY UpdatesTypes, WayUnchanged DEF Updates!Configure, Updates!store, Updates!outside, Updates!history
<1> QED
  BY <1>1, <1>2, <1>3, <1>4, <1>5

\* An administrator asks for an installation.
LEMMA InstallKeeps ==
    ASSUME Updates!UpdatesInv, NEW k \in Updates!Kinds, NEW v \in Updates!Versions, Updates!Install(k, v)
    PROVE  Updates!UpdatesInv'
<1> USE DEF Updates!UpdatesInv
<1>1. Updates!TypeOK'
  BY KindFacts, UpdatesTypes, InstallFacts DEF Updates!Install, Updates!Begin, Updates!store,
     Updates!outside, Updates!history, Updates!TypeOK, Updates!Saved, Updates!Installs,
     Updates!Releases, Updates!Idle
<1>2. Updates!DeliveriesAreSaved'
  BY DeliveriesUnchanged DEF Updates!Install, Updates!store, Updates!outside, Updates!history
<1>3. Updates!AttemptsAreKnown'
  BY UpdatesTypes, AttemptsUnchanged DEF Updates!Install, Updates!store, Updates!outside, Updates!history
<1>4. Updates!CopyIsCurrent'
  <2>1. install'.pc = "asking" /\ install'.version > 0
    BY DEF Updates!Install, Updates!Begin
  <2> QED
    BY <2>1 DEF Updates!CopyIsCurrent, Updates!NothingUnderWay, Updates!Holding
<1>5. Updates!NothingUnderWay'
  <2>1. install'.pc = "asking" /\ install'.version > 0
    BY DEF Updates!Install, Updates!Begin
  <2> QED
    BY <2>1 DEF Updates!CopyIsCurrent, Updates!NothingUnderWay, Updates!Holding
<1> QED
  BY <1>1, <1>2, <1>3, <1>4, <1>5

\* An automatic installation begins with a release that is known.
LEMMA Begins ==
    ASSUME Updates!UpdatesInv, NEW c \in {catalog} \cup Updates!Catalogs, Updates!TickInstall(c)
    PROVE  /\ tick' \in {"off", "install"}
           /\ \/ install' = install
              \/ install' \in Updates!Installs /\ install'.pc = "asking" /\ install'.version > 0
<1> USE DEF Updates!UpdatesInv
<1>1. \A p \in {"music", "apollo"} : c[p] \in Updates!Versions
  BY UpdatesTypes, KindFacts DEF Updates!Catalogs, Updates!Releases
<1>2. CASE install' = install
  BY <1>2 DEF Updates!TickInstall, Updates!Begin
<1>3. CASE install' # install
  <2>1. PICK k \in Updates!Kinds : Updates!Automatic(k, c) /\ tick' = "install"
        /\ Updates!Begin(k, c[Updates!Product(k)], TRUE)
    BY <1>3 DEF Updates!TickInstall
  <2>2. c[Updates!Product(k)] \in Updates!Versions /\ c[Updates!Product(k)] > 0
    BY <1>1, <2>1, KindFacts DEF Updates!Automatic
  <2>3. install' = [pc |-> "asking", kind |-> k, version |-> c[Updates!Product(k)], automatic |-> TRUE,
        saved |-> saved]
    BY <2>1 DEF Updates!Begin
  <2> QED
    BY <2>1, <2>2, <2>3, UpdatesTypes DEF Updates!Installs
<1> QED
  BY <1>2, <1>3

\* The tick asks for silence, and installs what the policy names.
LEMMA TickIdleKeeps ==
    ASSUME Updates!UpdatesInv, NEW idle \in BOOLEAN, NEW fresh \in BOOLEAN, Updates!TickIdle(idle, fresh)
    PROVE  Updates!UpdatesInv'
<1> USE DEF Updates!UpdatesInv
<1>1. Updates!TypeOK'
  <2>1. tick' \in {"off", "check", "install"} /\ install' \in Updates!Installs \cup {Updates!Idle}
    BY Begins DEF Updates!TickIdle, Updates!TypeOK
  <2>2. catalog' \in Updates!Releases
    BY UpdatesTypes, KindFacts DEF Updates!TickIdle, Updates!Releases, Updates!Catalogs
  <2> QED
    BY <2>1, <2>2 DEF Updates!TickIdle, Updates!TypeOK, Updates!store, Updates!outside, Updates!history
<1>2. Updates!DeliveriesAreSaved'
  BY DeliveriesUnchanged DEF Updates!TickIdle, Updates!store, Updates!outside, Updates!history
<1>3. Updates!AttemptsAreKnown'
  <2>1. \A p \in {"music", "apollo"} : catalog'[p] \in {0, catalog[p], released[p]} /\ catalog'[p] \in Nat
    BY UpdatesTypes DEF Updates!TickIdle, Updates!Catalogs
  <2> QED
    BY <2>1, UpdatesTypes, AttemptsUnchanged DEF Updates!TickIdle, Updates!store, Updates!outside, Updates!history
<1>4. Updates!CopyIsCurrent'
  <2>1. CASE install' = install
    <3>1. \A p \in {"music", "apollo"} : catalog'[p] \in {0, catalog[p], released[p]}
      BY DEF Updates!TickIdle, Updates!Catalogs
    <3> QED
      BY <2>1, <3>1, UpdatesTypes, CopyUnchanged DEF Updates!TickIdle, Updates!store, Updates!outside, Updates!history
  <2>2. CASE install' # install
    <3>1. install'.pc = "asking" /\ install'.version > 0
      BY <2>2, Begins DEF Updates!TickIdle
    <3> QED
      BY <3>1 DEF Updates!CopyIsCurrent, Updates!NothingUnderWay, Updates!Holding
  <2> QED
    BY <2>1, <2>2
<1>5. Updates!NothingUnderWay'
  <2>1. CASE install' = install
    <3>1. \A p \in {"music", "apollo"} : catalog'[p] \in {0, catalog[p], released[p]}
      BY DEF Updates!TickIdle, Updates!Catalogs
    <3> QED
      BY <2>1, <3>1, UpdatesTypes, WayUnchanged DEF Updates!TickIdle, Updates!store, Updates!outside, Updates!history
  <2>2. CASE install' # install
    <3>1. install'.pc = "asking" /\ install'.version > 0
      BY <2>2, Begins DEF Updates!TickIdle
    <3> QED
      BY <3>1 DEF Updates!CopyIsCurrent, Updates!NothingUnderWay, Updates!Holding
  <2> QED
    BY <2>1, <2>2
<1> QED
  BY <1>1, <1>2, <1>3, <1>4, <1>5

\* The tick looked the releases up.
LEMMA TickCheckKeeps ==
    ASSUME Updates!UpdatesInv, NEW c \in Updates!Catalogs, Updates!TickCheck(c)
    PROVE  Updates!UpdatesInv'
<1> USE DEF Updates!UpdatesInv
<1>1. Updates!TypeOK'
  <2>1. tick' \in {"off", "check", "install"} /\ install' \in Updates!Installs \cup {Updates!Idle}
    BY Begins DEF Updates!TickCheck, Updates!TypeOK
  <2>2. catalog' \in Updates!Releases
    BY UpdatesTypes, KindFacts DEF Updates!TickCheck, Updates!Releases, Updates!Catalogs
  <2> QED
    BY <2>1, <2>2 DEF Updates!TickCheck, Updates!TypeOK, Updates!store, Updates!outside, Updates!history
<1>2. Updates!DeliveriesAreSaved'
  BY DeliveriesUnchanged DEF Updates!TickCheck, Updates!store, Updates!outside, Updates!history
<1>3. Updates!AttemptsAreKnown'
  <2>1. \A p \in {"music", "apollo"} : catalog'[p] \in {0, catalog[p], released[p]} /\ catalog'[p] \in Nat
    BY UpdatesTypes DEF Updates!TickCheck, Updates!Catalogs
  <2> QED
    BY <2>1, UpdatesTypes, AttemptsUnchanged DEF Updates!TickCheck, Updates!store, Updates!outside, Updates!history
<1>4. Updates!CopyIsCurrent'
  <2>1. CASE install' = install
    <3>1. \A p \in {"music", "apollo"} : catalog'[p] \in {0, catalog[p], released[p]}
      BY DEF Updates!TickCheck, Updates!Catalogs
    <3> QED
      BY <2>1, <3>1, UpdatesTypes, CopyUnchanged DEF Updates!TickCheck, Updates!store, Updates!outside,
          Updates!history
  <2>2. CASE install' # install
    <3>1. install'.pc = "asking" /\ install'.version > 0
      BY <2>2, Begins DEF Updates!TickCheck
    <3> QED
      BY <3>1 DEF Updates!CopyIsCurrent, Updates!NothingUnderWay, Updates!Holding
  <2> QED
    BY <2>1, <2>2
<1>5. Updates!NothingUnderWay'
  <2>1. CASE install' = install
    <3>1. \A p \in {"music", "apollo"} : catalog'[p] \in {0, catalog[p], released[p]}
      BY DEF Updates!TickCheck, Updates!Catalogs
    <3> QED
      BY <2>1, <3>1, UpdatesTypes, WayUnchanged DEF Updates!TickCheck, Updates!store, Updates!outside, Updates!history
  <2>2. CASE install' # install
    <3>1. install'.pc = "asking" /\ install'.version > 0
      BY <2>2, Begins DEF Updates!TickCheck
    <3> QED
      BY <3>1 DEF Updates!CopyIsCurrent, Updates!NothingUnderWay, Updates!Holding
  <2> QED
    BY <2>1, <2>2
<1> QED
  BY <1>1, <1>2, <1>3, <1>4, <1>5

\* The tick has the Host Agent's job.
LEMMA TickJobKeeps ==
    ASSUME Updates!UpdatesInv, NEW ok \in BOOLEAN, Updates!TickJob(ok)
    PROVE  Updates!UpdatesInv'
<1> USE DEF Updates!UpdatesInv
<1>1. Updates!TypeOK'
  BY KindFacts, UpdatesTypes, InstallFacts DEF Updates!TickJob, Updates!Polled, Updates!store,
     Updates!outside, Updates!history, Updates!TypeOK, Updates!Saved, Updates!Installs,
     Updates!Releases, Updates!Idle
<1>2. Updates!DeliveriesAreSaved'
  BY DeliveriesUnchanged DEF Updates!TickJob, Updates!store, Updates!outside, Updates!history
<1>3. Updates!AttemptsAreKnown'
  BY UpdatesTypes, AttemptsUnchanged DEF Updates!TickJob, Updates!store, Updates!outside, Updates!history
<1>4. Updates!CopyIsCurrent'
  BY CopyUnchanged DEF Updates!TickJob, Updates!store, Updates!outside, Updates!history
<1>5. Updates!NothingUnderWay'
  BY UpdatesTypes, WayUnchanged DEF Updates!TickJob, Updates!store, Updates!outside, Updates!history
<1> QED
  BY <1>1, <1>2, <1>3, <1>4, <1>5

\* The tick asks the Host Agent for a restart.
LEMMA TickUnknownKeeps ==
    ASSUME Updates!UpdatesInv, NEW allowed \in BOOLEAN, Updates!TickUnknown(allowed)
    PROVE  Updates!UpdatesInv'
<1> USE DEF Updates!UpdatesInv
<1>1. Updates!TypeOK'
  <2>1. saved' \in Updates!Saved
    <3>1. [saved EXCEPT !.recovered = TRUE] \in Updates!Saved
      BY UpdatesTypes DEF Updates!Saved
    <3> QED
      BY <3>1, UpdatesTypes DEF Updates!TickUnknown
  <2> QED
    BY <2>1 DEF Updates!TickUnknown, Updates!TypeOK, Updates!outside, Updates!history
<1>2. Updates!DeliveriesAreSaved'
  <2>1. saved'.attempts = saved.attempts /\ saved'.version = saved.version /\ saved'.stage = saved.stage
    BY UpdatesTypes DEF Updates!TickUnknown, Updates!Saved
  <2> QED
    BY <2>1, UpdatesTypes, DeliveriesUnchanged DEF Updates!TickUnknown, Updates!Uncertain, Updates!outside,
        Updates!history
<1>3. Updates!AttemptsAreKnown'
  <2>1. saved'.attempts = saved.attempts /\ saved'.version = saved.version /\ saved'.stage = saved.stage
    BY UpdatesTypes DEF Updates!TickUnknown, Updates!Saved
  <2> QED
    BY <2>1, UpdatesTypes, AttemptsUnchanged DEF Updates!TickUnknown, Updates!Uncertain, Updates!outside,
        Updates!history
<1>4. Updates!CopyIsCurrent'
  <2>1. saved'.attempts = saved.attempts /\ saved'.version = saved.version /\ saved'.stage = saved.stage
    BY UpdatesTypes DEF Updates!TickUnknown, Updates!Saved
  <2> QED
    BY <2>1, UpdatesTypes, CopyUnchanged DEF Updates!TickUnknown, Updates!Uncertain, Updates!outside, Updates!history
<1>5. Updates!NothingUnderWay'
  <2>1. saved'.attempts = saved.attempts /\ saved'.version = saved.version /\ saved'.stage = saved.stage
    BY UpdatesTypes DEF Updates!TickUnknown, Updates!Saved
  <2> QED
    BY <2>1, UpdatesTypes, WayUnchanged DEF Updates!TickUnknown, Updates!Uncertain, Updates!outside, Updates!history
<1> QED
  BY <1>1, <1>2, <1>3, <1>4, <1>5

\* The Host Agent was asked.
LEMMA TickRecoverKeeps ==
    ASSUME Updates!UpdatesInv, NEW takes \in BOOLEAN, NEW ok \in BOOLEAN, Updates!TickRecover(takes, ok)
    PROVE  Updates!UpdatesInv'
<1> USE DEF Updates!UpdatesInv
<1>1. Updates!TypeOK'
  BY KindFacts, UpdatesTypes, InstallFacts DEF Updates!TickRecover, Updates!store, Updates!outside,
     Updates!history, Updates!TypeOK, Updates!Saved, Updates!Installs, Updates!Releases,
     Updates!Idle
<1>2. Updates!DeliveriesAreSaved'
  BY DeliveriesUnchanged DEF Updates!TickRecover, Updates!store, Updates!outside, Updates!history
<1>3. Updates!AttemptsAreKnown'
  BY UpdatesTypes, AttemptsUnchanged DEF Updates!TickRecover, Updates!store, Updates!outside, Updates!history
<1>4. Updates!CopyIsCurrent'
  BY CopyUnchanged DEF Updates!TickRecover, Updates!store, Updates!outside, Updates!history
<1>5. Updates!NothingUnderWay'
  BY UpdatesTypes, WayUnchanged DEF Updates!TickRecover, Updates!store, Updates!outside, Updates!history
<1> QED
  BY <1>1, <1>2, <1>3, <1>4, <1>5

\* A release is published.
LEMMA ReleaseKeeps ==
    ASSUME Updates!UpdatesInv, NEW p \in {"music", "apollo"}, Updates!Release(p)
    PROVE  Updates!UpdatesInv'
<1> USE DEF Updates!UpdatesInv
<1>1. Updates!TypeOK'
  <2>1. released' \in Updates!Releases
    BY UpdatesTypes, BoundsAssumption DEF Updates!Release, Updates!Releases, Updates!Versions
  <2> QED
    BY <2>1 DEF Updates!Release, Updates!TypeOK, Updates!store, Updates!outside, Updates!history
<1>2. Updates!DeliveriesAreSaved'
  BY DeliveriesUnchanged DEF Updates!Release, Updates!store, Updates!outside, Updates!history
<1>3. Updates!AttemptsAreKnown'
  <2>1. \A q \in {"music", "apollo"} : released[q] <= released'[q] /\ released'[q] \in Updates!Versions
    BY UpdatesTypes, BoundsAssumption DEF Updates!Release, Updates!Releases, Updates!Versions
  <2> QED
    BY <2>1, AttemptsUnchanged, UpdatesTypes, KindFacts DEF Updates!Release, Updates!store, Updates!outside,
        Updates!history
<1>4. Updates!CopyIsCurrent'
  BY CopyUnchanged DEF Updates!Release, Updates!store, Updates!outside, Updates!history
<1>5. Updates!NothingUnderWay'
  <2>1. \A q \in {"music", "apollo"} : released[q] <= released'[q] /\ released'[q] \in Updates!Versions
    BY UpdatesTypes, BoundsAssumption DEF Updates!Release, Updates!Releases, Updates!Versions
  <2> QED
    BY <2>1, WayUnchanged, UpdatesTypes, KindFacts DEF Updates!Release, Updates!store, Updates!outside,
        Updates!history
<1> QED
  BY <1>1, <1>2, <1>3, <1>4, <1>5

\* A device installs what it was told to, or does not.
LEMMA FlashKeeps ==
    ASSUME Updates!UpdatesInv, NEW d \in Devices, NEW works \in BOOLEAN, Updates!Flash(d, works)
    PROVE  Updates!UpdatesInv'
<1> USE DEF Updates!UpdatesInv
<1>1. Updates!TypeOK'
  BY KindFacts, UpdatesTypes, InstallFacts DEF Updates!Flash, Updates!store, Updates!outside,
     Updates!history, Updates!TypeOK, Updates!Saved, Updates!Installs, Updates!Releases,
     Updates!Idle
<1>2. Updates!DeliveriesAreSaved'
  <2> SUFFICES ASSUME NEW e \in Devices
               PROVE  /\ sent[e] <= 1 /\ (~Updates!Uncertain(saved, e) => sent[e] = 0)
                      /\ flash'[e] # 0 => sent[e] = 1 /\ flash'[e] = saved.version[e] /\ firmware'[e] < flash'[e]
    BY DEF Updates!Flash, Updates!store, Updates!history, Updates!DeliveriesAreSaved, Updates!Uncertain
  <2>1. /\ sent[e] <= 1 /\ (~Updates!Uncertain(saved, e) => sent[e] = 0)
        /\ flash[e] # 0 => sent[e] = 1 /\ flash[e] = saved.version[e] /\ firmware[e] < flash[e]
    BY DEF Updates!DeliveriesAreSaved
  <2>2. e # d => flash'[e] = flash[e] /\ firmware'[e] = firmware[e]
    BY UpdatesTypes DEF Updates!Flash
  <2>3. flash'[d] = 0
    BY UpdatesTypes DEF Updates!Flash
  <2> QED
    BY <2>1, <2>2, <2>3
<1>3. Updates!AttemptsAreKnown'
  BY UpdatesTypes, AttemptsUnchanged DEF Updates!Flash, Updates!store, Updates!outside, Updates!history
<1>4. Updates!CopyIsCurrent'
  BY CopyUnchanged DEF Updates!Flash, Updates!store, Updates!outside, Updates!history
<1>5. Updates!NothingUnderWay'
  <2>1. ASSUME install.pc \in {"claiming", "sending"}, install.kind # "music"
        PROVE  firmware'[install.kind] = firmware[install.kind]
    <3>1. install.kind \in Devices /\ sent[install.kind] = 0
      BY <2>1, KindFacts, InstallFacts DEF Updates!NothingUnderWay
    <3>2. flash[install.kind] = 0 /\ flash[d] # 0
      BY <3>1 DEF Updates!DeliveriesAreSaved, Updates!Flash
    <3> QED
      BY <3>1, <3>2, UpdatesTypes DEF Updates!Flash
  <2> QED
    BY <2>1, UpdatesTypes, WayUnchanged DEF Updates!Flash, Updates!store, Updates!history
<1> QED
  BY <1>1, <1>2, <1>3, <1>4, <1>5

\* The Host Agent's work ends.
LEMMA HostEndsKeeps ==
    ASSUME Updates!UpdatesInv, Updates!HostEnds
    PROVE  Updates!UpdatesInv'
<1> USE DEF Updates!UpdatesInv
<1>1. Updates!TypeOK'
  BY KindFacts, UpdatesTypes, InstallFacts DEF Updates!HostEnds, Updates!store, Updates!outside,
     Updates!history, Updates!TypeOK, Updates!Saved, Updates!Installs, Updates!Releases,
     Updates!Idle
<1>2. Updates!DeliveriesAreSaved'
  BY DeliveriesUnchanged DEF Updates!HostEnds, Updates!store, Updates!outside, Updates!history
<1>3. Updates!AttemptsAreKnown'
  BY UpdatesTypes, AttemptsUnchanged DEF Updates!HostEnds, Updates!store, Updates!outside, Updates!history
<1>4. Updates!CopyIsCurrent'
  BY CopyUnchanged DEF Updates!HostEnds, Updates!store, Updates!outside, Updates!history
<1>5. Updates!NothingUnderWay'
  BY UpdatesTypes, WayUnchanged DEF Updates!HostEnds, Updates!store, Updates!outside, Updates!history
<1> QED
  BY <1>1, <1>2, <1>3, <1>4, <1>5

\* A delivery grows old.
LEMMA AgeKeeps ==
    ASSUME Updates!UpdatesInv, NEW d \in Devices, Updates!Age(d)
    PROVE  Updates!UpdatesInv'
<1> USE DEF Updates!UpdatesInv
<1>1. Updates!TypeOK'
  BY KindFacts, UpdatesTypes, InstallFacts DEF Updates!Age, Updates!store, Updates!outside,
     Updates!history, Updates!TypeOK, Updates!Saved, Updates!Installs, Updates!Releases,
     Updates!Idle
<1>2. Updates!DeliveriesAreSaved'
  BY DeliveriesUnchanged DEF Updates!Age, Updates!store, Updates!outside, Updates!history
<1>3. Updates!AttemptsAreKnown'
  BY UpdatesTypes, AttemptsUnchanged DEF Updates!Age, Updates!store, Updates!outside, Updates!history
<1>4. Updates!CopyIsCurrent'
  BY CopyUnchanged DEF Updates!Age, Updates!store, Updates!outside, Updates!history
<1>5. Updates!NothingUnderWay'
  BY UpdatesTypes, WayUnchanged DEF Updates!Age, Updates!store, Updates!outside, Updates!history
<1> QED
  BY <1>1, <1>2, <1>3, <1>4, <1>5

\* Half an hour has passed since the last restart was asked for.
LEMMA CoolDownKeeps ==
    ASSUME Updates!UpdatesInv, Updates!CoolDown
    PROVE  Updates!UpdatesInv'
<1> USE DEF Updates!UpdatesInv
<1>1. Updates!TypeOK'
  BY KindFacts, UpdatesTypes, InstallFacts DEF Updates!CoolDown, Updates!store, Updates!outside,
     Updates!history, Updates!TypeOK, Updates!Saved, Updates!Installs, Updates!Releases,
     Updates!Idle
<1>2. Updates!DeliveriesAreSaved'
  BY DeliveriesUnchanged DEF Updates!CoolDown, Updates!store, Updates!outside, Updates!history
<1>3. Updates!AttemptsAreKnown'
  BY UpdatesTypes, AttemptsUnchanged DEF Updates!CoolDown, Updates!store, Updates!outside, Updates!history
<1>4. Updates!CopyIsCurrent'
  BY CopyUnchanged DEF Updates!CoolDown, Updates!store, Updates!outside, Updates!history
<1>5. Updates!NothingUnderWay'
  BY UpdatesTypes, WayUnchanged DEF Updates!CoolDown, Updates!store, Updates!outside, Updates!history
<1> QED
  BY <1>1, <1>2, <1>3, <1>4, <1>5

\* The Hub stops and starts.
LEMMA RestartKeeps ==
    ASSUME Updates!UpdatesInv, Updates!Restart
    PROVE  Updates!UpdatesInv'
<1> USE DEF Updates!UpdatesInv
<1>1. Updates!TypeOK'
  BY KindFacts, UpdatesTypes, InstallFacts DEF Updates!Restart, Updates!store, Updates!outside,
     Updates!history, Updates!TypeOK, Updates!Saved, Updates!Installs, Updates!Releases,
     Updates!Idle
<1>2. Updates!DeliveriesAreSaved'
  BY DeliveriesUnchanged DEF Updates!Restart, Updates!store, Updates!outside, Updates!history
<1>3. Updates!AttemptsAreKnown'
  BY UpdatesTypes, AttemptsUnchanged DEF Updates!Restart, Updates!store, Updates!outside, Updates!history
<1>4. Updates!CopyIsCurrent'
  BY IdleFacts DEF Updates!Restart
<1>5. Updates!NothingUnderWay'
  BY IdleFacts DEF Updates!Restart
<1> QED
  BY <1>1, <1>2, <1>3, <1>4, <1>5

\* Whatever is done to the updates, is one of these.
LEMMA UpdatesKept ==
    ASSUME Updates!UpdatesInv,
           \/ Updates!Request \/ Updates!InstallStep \/ Updates!TickStep \/ Updates!Timer
           \/ Updates!Outside \/ Updates!Restart \/ UNCHANGED updates
    PROVE  Updates!UpdatesInv'
<1>1. CASE Updates!Request
  BY <1>1, ConfigureKeeps, InstallKeeps DEF Updates!Request
<1>2. CASE Updates!InstallStep
  BY <1>2, AskedKeeps, CheckedKeeps, ClaimKeeps, SendKeeps, AnsweredKeeps DEF Updates!InstallStep
<1>3. CASE Updates!TickStep
  BY <1>3, TickJobKeeps, TickIdleKeeps, TickCheckKeeps, TickUnknownKeeps, TickRecoverKeeps DEF Updates!TickStep
<1>4. CASE Updates!Timer
  BY <1>4, TickKeeps DEF Updates!Timer
<1>5. CASE Updates!Outside
  BY <1>5, ReleaseKeeps, FlashKeeps, AgeKeeps, HostEndsKeeps, CoolDownKeeps
     DEF Updates!Outside
<1>6. CASE UNCHANGED updates
  <2> USE DEF Updates!UpdatesInv
  <2>1. /\ UNCHANGED <<saved, aged, policy, catalog, install, tick, hostRunning, recovering>>
        /\ UNCHANGED <<released, firmware, flash, host, sent, tried>>
    BY <1>6 DEF updates
  <2>2. Updates!TypeOK'
    BY <2>1 DEF Updates!TypeOK
  <2>3. Updates!DeliveriesAreSaved' /\ Updates!AttemptsAreKnown'
    BY <2>1 DEF Updates!DeliveriesAreSaved, Updates!AttemptsAreKnown, Updates!Uncertain
  <2>4. Updates!CopyIsCurrent' /\ Updates!NothingUnderWay'
    BY <2>1 DEF Updates!CopyIsCurrent, Updates!NothingUnderWay, Updates!Holding, Updates!Uncertain
  <2> QED
    BY <2>2, <2>3, <2>4
<1> QED
  BY <1>1, <1>2, <1>3, <1>4, <1>5, <1>6, RestartKeeps

LEMMA UpdatesInit == Updates!Init => Updates!UpdatesInv
<1> SUFFICES ASSUME Updates!Init PROVE Updates!UpdatesInv
  OBVIOUS
<1>1. Updates!TypeOK
  BY KindFacts DEF Updates!Init, Updates!TypeOK, Updates!Saved, Updates!Releases, Updates!Idle
<1>2. Updates!DeliveriesAreSaved
  BY DEF Updates!Init, Updates!DeliveriesAreSaved, Updates!Uncertain
<1>3. Updates!AttemptsAreKnown
  BY KindFacts DEF Updates!Init, Updates!AttemptsAreKnown
<1>4. Updates!CopyIsCurrent /\ Updates!NothingUnderWay
  BY DEF Updates!Init, Updates!CopyIsCurrent, Updates!NothingUnderWay, Updates!Holding, Updates!Idle
<1> QED
  BY <1>1, <1>2, <1>3, <1>4 DEF Updates!UpdatesInv

\* What a step of the Hub is for the updates.
LEMMA UpdatesTurns ==
    ASSUME [Next]_vars
    PROVE  \/ Updates!Request \/ Updates!InstallStep \/ Updates!TickStep \/ Updates!Timer
           \/ Updates!Outside \/ Updates!Restart \/ UNCHANGED updates
<1>1. ASSUME NEW service \in {"uploads", "learning", "sports", "music", "displays", "slides", "lab"}, Only(service)
      PROVE  UNCHANGED updates
  BY <1>1 DEF Only
<1>2. CASE Requests
  BY <1>1, <1>2 DEF Requests, UploadRequest, LearningRequest, UpdatesRequest, SportsRequest, MusicRequest,
     DisplaysRequest, SlidesRequest, LabRequest, AskExport, Quiet
<1>3. CASE Timers
  BY <1>1, <1>3 DEF Timers, UploadCleanup, GradingTimer, UpdatesTimer, SportsTimer, MusicTimer, SlidesTimer, LabTimer
<1>4. CASE Steps
  BY <1>1, <1>4 DEF Steps, UploadStep, FileStep, GradingStep, TickStep, InstallStep, SportsStep, MusicStep,
     DisplaysStep, SlidesStep, LabStep, ExportAnswered, Thaw, Quiet
<1>5. CASE Elapse \/ Outside
  BY <1>1, <1>5 DEF Elapse, Outside
<1>6. CASE Restart \/ UNCHANGED vars
  BY <1>6 DEF Restart, vars
<1> QED
  BY <1>2, <1>3, <1>4, <1>5, <1>6 DEF Next

\* What may have been sent is sent again by no one but an administrator, once it is settled;
\* and no release is tried twice by itself.
THEOREM SentOnce == Spec => []UncertainWorkIsNotRepeated
<1>1. Init => Updates!UpdatesInv
  BY UpdatesInit DEF Init
<1>2. Updates!UpdatesInv /\ [Next]_vars => Updates!UpdatesInv'
  BY UpdatesTurns, UpdatesKept
<1>3. Updates!UpdatesInv => UncertainWorkIsNotRepeated
  BY DEF Updates!UpdatesInv, Updates!DeliveriesAreSaved, Updates!AttemptsAreKnown, UncertainWorkIsNotRepeated,
     Updates!UncertainWorkIsNotRepeated
<1> QED
  BY <1>1, <1>2, <1>3, PTL DEF Spec

------------------------------------------------------------------------------
(* Uploads, and the library they end in.                                   *)

\* What is known of one upload.
Accounted(u) ==
    /\ Upload!Stored(u) /\ ~session[u].registered /\ ~session[u].deleted => session[u].received \subseteq parts[u]
    /\ parts[u] # {} => Upload!Active(u)

UploadIsGood(u) ==
    /\ Upload!WaitsForItself(u) /\ Upload!WholeOnceAssembled(u)
    /\ Upload!OwnsSession(u) /\ Upload!ListedUntilDeleted(u) /\ Accounted(u)

LEMMA UploadsInvIs ==
    Upload!UploadsInv <=> Upload!TypeOK /\ \A u \in Uploads : UploadIsGood(u)
BY DEF Upload!UploadsInv, Upload!PartsAreAccounted, UploadIsGood, Accounted

\* Types.
LEMMA SessionFacts ==
    /\ Upload!Absent \notin Upload!Sessions /\ Upload!Gone \notin Upload!Sessions
    /\ Upload!Absent.is # "stored" /\ Upload!Gone.is # "stored" /\ Upload!Absent # Upload!Gone
    /\ \A s \in Upload!Sessions :
         /\ s.is = "stored" /\ s.received \in SUBSET Chunks
         /\ {s.pinned, s.digest, s.registered, s.reclaimed, s.deleted} \subseteq BOOLEAN
    /\ Upload!Fresh \in Upload!Sessions
BY DEF Upload!Absent, Upload!Gone, Upload!Sessions, Upload!Fresh

LEMMA JobFacts ==
    /\ Upload!Idle \in Upload!Jobs /\ Upload!Idle.pc = "idle"
    /\ \A j \in Upload!Jobs : j # Upload!Idle =>
         /\ j.pc \in {"body", "replay", "assemble", "register", "receipt", "replayed", "discard"}
         /\ j.meta \in Upload!Sessions
    /\ \A pc \in {"body", "replay", "assemble", "register", "receipt", "replayed", "discard"}, s \in Upload!Sessions :
         [pc |-> pc, meta |-> s] \in Upload!Jobs /\ [pc |-> pc, meta |-> s] # Upload!Idle
BY DEF Upload!Idle, Upload!Jobs

LEMMA UploadTypes ==
    ASSUME Upload!TypeOK, NEW u \in Uploads
    PROVE  /\ session[u] \in Upload!Sessions \cup {Upload!Absent, Upload!Gone}
           /\ parts[u] \in SUBSET Chunks /\ file[u] \in BOOLEAN /\ added[u] \in BOOLEAN /\ asked[u] \in BOOLEAN
           /\ record[u] \in {"none", "plain", "linked"}
           /\ requests[u] \in Seq(Upload!Requests) /\ job[u] \in Upload!Jobs
           /\ fileWork[u] \in Seq(Upload!FileWorks)
           /\ Upload!Stored(u) <=> session[u] \in Upload!Sessions
BY SessionFacts DEF Upload!TypeOK, Upload!Stored

\* The metadata with one thing changed.
LEMMA SessionEdits ==
    ASSUME NEW s \in Upload!Sessions, NEW c \in Chunks
    PROVE  /\ LET t == [s EXCEPT !.received = @ \cup {c}]
              IN  /\ t \in Upload!Sessions /\ t.received = s.received \cup {c} /\ t.digest = s.digest
                  /\ t.registered = s.registered /\ t.reclaimed = s.reclaimed /\ t.deleted = s.deleted
BY DEF Upload!Sessions

LEMMA SessionFlags ==
    ASSUME NEW s \in Upload!Sessions
    PROVE  /\ LET t == [s EXCEPT !.pinned = TRUE]
              IN  /\ t \in Upload!Sessions /\ t.received = s.received /\ t.digest = s.digest
                  /\ t.registered = s.registered /\ t.reclaimed = s.reclaimed /\ t.deleted = s.deleted
           /\ LET t == [s EXCEPT !.digest = TRUE]
              IN  /\ t \in Upload!Sessions /\ t.received = s.received /\ t.digest
                  /\ t.registered = s.registered /\ t.reclaimed = s.reclaimed /\ t.deleted = s.deleted
           /\ LET t == [s EXCEPT !.registered = TRUE]
              IN  /\ t \in Upload!Sessions /\ t.received = s.received /\ t.digest = s.digest
                  /\ t.registered /\ t.reclaimed = s.reclaimed /\ t.deleted = s.deleted
           /\ LET t == [s EXCEPT !.deleted = TRUE]
              IN  /\ t \in Upload!Sessions /\ t.received = s.received /\ t.digest = s.digest
                  /\ t.registered = s.registered /\ t.reclaimed = s.reclaimed /\ t.deleted
           /\ LET t == [s EXCEPT !.reclaimed = TRUE]
              IN  /\ t \in Upload!Sessions /\ t.received = s.received /\ t.digest = s.digest
                  /\ t.registered = s.registered /\ t.reclaimed /\ t.deleted = s.deleted
BY DEF Upload!Sessions

\* The queue of the file: what joins it and what leaves it.
LEMMA QueueFacts ==
    ASSUME NEW S, NEW q \in Seq(S)
    PROVE  /\ \A x \in S :
                /\ Append(q, x) \in Seq(S) /\ Append(q, x) # <<>> /\ (q # <<>> => Head(Append(q, x)) = Head(q))
                /\ DOMAIN Append(q, x) = 1..Len(q) + 1 /\ DOMAIN q = 1..Len(q) /\ Len(q) \in Nat
                /\ \A i \in DOMAIN Append(q, x) :
                     \/ i \in DOMAIN q /\ Append(q, x)[i] = q[i]
                     \/ i = Len(q) + 1 /\ i \notin DOMAIN q /\ Append(q, x)[i] = x
           /\ q # <<>> =>
                /\ Tail(q) \in Seq(S) /\ 1 \in DOMAIN q /\ q[1] = Head(q) /\ Head(q) \in S
                /\ \A i \in DOMAIN Tail(q) : i + 1 \in DOMAIN q /\ Tail(q)[i] = q[i + 1] /\ i + 1 # 1 /\ i \in Nat
OBVIOUS

\* Nothing changed for an upload.
Same(u) ==
    /\ session'[u] = session[u] /\ parts'[u] = parts[u] /\ file'[u] = file[u] /\ record'[u] = record[u]
    /\ requests'[u] = requests[u] /\ job'[u] = job[u] /\ fileWork'[u] = fileWork[u]
    /\ added'[u] = added[u] /\ asked'[u] = asked[u]

LEMMA SameIsGood ==
    ASSUME NEW u, UploadIsGood(u), Same(u)
    PROVE  UploadIsGood(u)'
<1> USE DEF UploadIsGood, Same
<1>1. Upload!WaitsForItself(u)'
  BY DEF Upload!WaitsForItself
<1>2. Upload!WholeOnceAssembled(u)'
  BY DEF Upload!WholeOnceAssembled, Upload!Stored
<1>3. Upload!OwnsSession(u)'
  BY DEF Upload!OwnsSession, Upload!Stored
<1>4. Upload!ListedUntilDeleted(u)'
  BY DEF Upload!ListedUntilDeleted, Upload!Stored
<1>5. Accounted(u)'
  BY DEF Accounted, Upload!Active, Upload!Stored
<1> QED
  BY <1>1, <1>2, <1>3, <1>4, <1>5

\* The queue of a file: a request at work waits in it at most once, and no
\* request waits in its place.
Waiting == {"replay", "register", "discard"}

Waits(w, pc) ==
    \A i \in DOMAIN w :
        w[i] \in Waiting => w[i] = pc /\ \A j \in DOMAIN w : w[j] = w[i] => j = i

NobodyWaits(w) == \A i \in DOMAIN w : w[i] \notin Waiting

DeletesAreAsked(w, k) == \A i \in DOMAIN w : w[i] = "delete" => k

LEMMA NobodyIsWaiting ==
    ASSUME NEW w \in Seq(Upload!FileWorks), NEW pc, Waits(w, pc), pc \notin Waiting
    PROVE  NobodyWaits(w)
BY DEF Waits, NobodyWaits

LEMMA NobodyWaitsBehind ==
    ASSUME NEW w \in Seq(Upload!FileWorks), NEW pc, Waits(w, pc), w # <<>>, Head(w) \in Waiting
    PROVE  NobodyWaits(Tail(w)) /\ pc = Head(w)
<1>1. w[1] = Head(w) /\ 1 \in DOMAIN w
  BY QueueFacts
<1>2. Head(w) = pc
  BY <1>1 DEF Waits
<1>3. ASSUME NEW i \in DOMAIN Tail(w)  PROVE Tail(w)[i] \notin Waiting
  <2>1. i + 1 \in DOMAIN w /\ Tail(w)[i] = w[i + 1] /\ i + 1 # 1
    BY <1>3, QueueFacts
  <2> QED
    BY <2>1, <1>1, <1>2 DEF Waits
<1> QED
  BY <1>2, <1>3 DEF NobodyWaits

LEMMA OneJoins ==
    ASSUME NEW w \in Seq(Upload!FileWorks), NobodyWaits(w), NEW pc \in Upload!FileWorks
    PROVE  Waits(Append(w, pc), pc)
<1>1. ASSUME NEW i \in DOMAIN Append(w, pc), Append(w, pc)[i] \in Waiting  PROVE i = Len(w) + 1
      /\ Append(w, pc)[i] = pc
  BY <1>1, QueueFacts DEF NobodyWaits
<1> QED
  BY <1>1 DEF Waits

LEMMA NobodyJoined ==
    ASSUME NEW w, NobodyWaits(w), NEW pc
    PROVE  Waits(w, pc)
BY DEF Waits, NobodyWaits

LEMMA OneLeaves ==
    ASSUME NEW w \in Seq(Upload!FileWorks), w # <<>>, NEW pc, Waits(w, pc)
    PROVE  Waits(Tail(w), pc)
<1>1. ASSUME NEW i \in DOMAIN Tail(w)  PROVE i + 1 \in DOMAIN w /\ Tail(w)[i] = w[i + 1] /\ i \in Nat
  BY <1>1, QueueFacts
<1>2. ASSUME NEW i \in DOMAIN Tail(w), Tail(w)[i] \in Waiting  PROVE Tail(w)[i] = pc
  BY <1>1, <1>2 DEF Waits
<1>3. ASSUME NEW i \in DOMAIN Tail(w), Tail(w)[i] \in Waiting, NEW j \in DOMAIN Tail(w),
      Tail(w)[j] = Tail(w)[i]  PROVE j = i
  <2>1. w[i + 1] \in Waiting /\ w[j + 1] = w[i + 1] /\ i + 1 \in DOMAIN w /\ j + 1 \in DOMAIN w /\ i \in Nat
        /\ j \in Nat
    BY <1>1, <1>3
  <2>2. j + 1 = i + 1
    BY <2>1 DEF Waits
  <2> QED
    BY <2>1, <2>2
<1> QED
  BY <1>2, <1>3 DEF Waits

LEMMA OperatorJoins ==
    ASSUME NEW w \in Seq(Upload!FileWorks), NEW pc, Waits(w, pc), NEW kind \in {"delete", "convert"}
    PROVE  Waits(Append(w, kind), pc)
<1> kind \notin Waiting /\ kind \in Upload!FileWorks
  BY DEF Waiting, Upload!FileWorks
<1>1. ASSUME NEW i \in DOMAIN Append(w, kind), Append(w, kind)[i] \in Waiting
      PROVE  i \in DOMAIN w /\ Append(w, kind)[i] = w[i]
  BY <1>1, QueueFacts
<1> QED
  BY <1>1 DEF Waits

LEMMA DeletesStayAsked ==
    ASSUME NEW w \in Seq(Upload!FileWorks), NEW k, DeletesAreAsked(w, k)
    PROVE  /\ w # <<>> => DeletesAreAsked(Tail(w), k) /\ (Head(w) = "delete" => k)
           /\ \A x \in Upload!FileWorks : x # "delete" => DeletesAreAsked(Append(w, x), k)
           /\ \A x \in Upload!FileWorks : DeletesAreAsked(Append(w, x), TRUE)
<1>1. ASSUME w # <<>>  PROVE DeletesAreAsked(Tail(w), k) /\ (Head(w) = "delete" => k)
  <2>1. \A i \in DOMAIN Tail(w) : i + 1 \in DOMAIN w /\ Tail(w)[i] = w[i + 1]
    BY <1>1, QueueFacts
  <2>2. 1 \in DOMAIN w /\ w[1] = Head(w)
    BY <1>1, QueueFacts
  <2> QED
    BY <2>1, <2>2 DEF DeletesAreAsked
<1>2. ASSUME NEW x \in Upload!FileWorks, x # "delete"  PROVE DeletesAreAsked(Append(w, x), k)
  <2>1. \A i \in DOMAIN Append(w, x) : (i \in DOMAIN w /\ Append(w, x)[i] = w[i]) \/ Append(w, x)[i] = x
    BY QueueFacts
  <2> QED
    BY <2>1, <1>2 DEF DeletesAreAsked
<1> QED
  BY <1>1, <1>2 DEF DeletesAreAsked

------------------------------------------------------------------------------
(* UploadIsGood as a predicate of the values: session s, parts p, file f,  *)
(* record r, requests q, job j, file work w, added a, asked k.             *)
Whole(s, r) ==
    s.is = "stored" =>
        /\ s.digest \/ s.registered \/ s.deleted => s.received = Chunks
        /\ s.reclaimed => s.registered \/ s.deleted
        /\ r = "linked" => s.digest

Owns(s, r, q, j) ==
    j # Upload!Idle =>
        /\ q # <<>> /\ s.is = "stored"
        /\ j.pc # "discard" => s.deleted \/ s = j.meta
        /\ j.pc \in {"body", "assemble", "register"} => ~s.deleted /\ r # "linked"
        /\ j.pc = "register" => j.meta.digest
        /\ j.pc \in {"replay", "replayed", "assemble", "receipt"} => j.meta.received = Chunks
        /\ j.pc = "body" => Head(q).kind = "chunk" /\ j.meta.received # Chunks

Listed(s, f, r, q, w, a) ==
    /\ r = "linked" => a
    /\ a /\ s.is = "stored" /\ ~s.deleted => r = "linked" /\ f
    /\ s = Upload!Absent => q = <<>> /\ w = <<>> /\ r = "none" /\ ~a

Counted(s, p) ==
    /\ s.is = "stored" /\ ~s.registered /\ ~s.deleted => s.received \subseteq p
    /\ p # {} => s.is = "stored" /\ ~(s.reclaimed /\ (s.registered \/ s.deleted))

Good(s, p, f, r, q, j, w, a, k) ==
    /\ Waits(w, j.pc) /\ DeletesAreAsked(w, k)
    /\ Whole(s, r) /\ Owns(s, r, q, j) /\ Listed(s, f, r, q, w, a) /\ Counted(s, p)

LEMMA GoodIs ==
    ASSUME NEW u
    PROVE  UploadIsGood(u) <=>
             Good(session[u], parts[u], file[u], record[u], requests[u], job[u], fileWork[u], added[u], asked[u])
<1>1. Upload!WaitsForItself(u) <=> Waits(fileWork[u], job[u].pc)
  BY DEF Upload!WaitsForItself, Waits, Waiting
<1>2. Upload!WholeOnceAssembled(u) <=> Whole(session[u], record[u])
  BY DEF Upload!WholeOnceAssembled, Whole, Upload!Stored
<1>3. Upload!OwnsSession(u) <=> Owns(session[u], record[u], requests[u], job[u])
  BY DEF Upload!OwnsSession, Owns, Upload!Stored
<1>4. Upload!ListedUntilDeleted(u) <=>
        Listed(session[u], file[u], record[u], requests[u], fileWork[u], added[u])
            /\ DeletesAreAsked(fileWork[u], asked[u])
  BY DEF Upload!ListedUntilDeleted, Listed, Upload!Stored, DeletesAreAsked
<1>5. Accounted(u) <=> Counted(session[u], parts[u])
  BY DEF Accounted, Counted, Upload!Active, Upload!Stored
<1> QED
  BY <1>1, <1>2, <1>3, <1>4, <1>5 DEF UploadIsGood, Good

LEMMA GoodAgain ==
    ASSUME NEW u,
           Good(session'[u], parts'[u], file'[u], record'[u], requests'[u], job'[u], fileWork'[u], added'[u],
               asked'[u])
    PROVE  UploadIsGood(u)'
BY DEF UploadIsGood, Good, Upload!WaitsForItself, Waits, Waiting, Upload!WholeOnceAssembled, Whole,
    Upload!OwnsSession, Owns,
       Upload!ListedUntilDeleted, Listed, DeletesAreAsked, Accounted, Counted, Upload!Active, Upload!Stored

\* The types of the values of an upload.
Known(s, p, e, f, r, q, j, w, a, k) ==
    /\ s \in Upload!Sessions \cup {Upload!Absent, Upload!Gone} /\ p \in SUBSET Chunks /\ e \in BOOLEAN
        /\ f \in BOOLEAN
    /\ r \in {"none", "plain", "linked"} /\ q \in Seq(Upload!Requests) /\ j \in Upload!Jobs
    /\ w \in Seq(Upload!FileWorks) /\ a \in BOOLEAN /\ k \in BOOLEAN

\* The values of one upload change, to good ones.
Becomes(u, s, p, e, f, r, q, j, w, a, k) ==
    /\ session' = [session EXCEPT ![u] = s] /\ parts' = [parts EXCEPT ![u] = p]
    /\ expired' = [expired EXCEPT ![u] = e] /\ file' = [file EXCEPT ![u] = f]
    /\ record' = [record EXCEPT ![u] = r] /\ requests' = [requests EXCEPT ![u] = q]
    /\ job' = [job EXCEPT ![u] = j] /\ fileWork' = [fileWork EXCEPT ![u] = w]
    /\ added' = [added EXCEPT ![u] = a] /\ asked' = [asked EXCEPT ![u] = k]

LEMMA OneUploadMoves ==
    ASSUME Upload!TypeOK, \A v \in Uploads : UploadIsGood(v), NEW u \in Uploads,
           NEW s, NEW p, NEW e, NEW f, NEW r, NEW q, NEW j, NEW w, NEW a, NEW k,
           Becomes(u, s, p, e, f, r, q, j, w, a, k), Known(s, p, e, f, r, q, j, w, a, k),
           Good(s, p, f, r, q, j, w, a, k)
    PROVE  Upload!TypeOK' /\ \A v \in Uploads : UploadIsGood(v)'
<1>1. Upload!TypeOK'
  <2>1. session' \in [Uploads -> Upload!Sessions \cup {Upload!Absent, Upload!Gone}]
        /\ parts' \in [Uploads -> SUBSET Chunks]
    BY DEF Upload!TypeOK, Becomes, Known
  <2>2. expired' \in [Uploads -> BOOLEAN] /\ file' \in [Uploads -> BOOLEAN]
        /\ record' \in [Uploads -> {"none", "plain", "linked"}]
    BY DEF Upload!TypeOK, Becomes, Known
  <2>3. requests' \in [Uploads -> Seq(Upload!Requests)] /\ job' \in [Uploads -> Upload!Jobs]
        /\ fileWork' \in [Uploads -> Seq(Upload!FileWorks)]
    BY DEF Upload!TypeOK, Becomes, Known
  <2>4. added' \in [Uploads -> BOOLEAN] /\ asked' \in [Uploads -> BOOLEAN]
    BY DEF Upload!TypeOK, Becomes, Known
  <2> QED
    BY <2>1, <2>2, <2>3, <2>4 DEF Upload!TypeOK
<1>2. UploadIsGood(u)'
  <2>1. session'[u] = s /\ parts'[u] = p /\ file'[u] = f /\ record'[u] = r /\ requests'[u] = q /\ job'[u] = j
        /\ fileWork'[u] = w /\ added'[u] = a /\ asked'[u] = k
    BY DEF Upload!TypeOK, Becomes, Becomes, Known
  <2>2. Good(session'[u], parts'[u], file'[u], record'[u], requests'[u], job'[u], fileWork'[u], added'[u], asked'[u])
    BY <2>1
  <2> QED
    BY <2>2, GoodAgain
<1>3. ASSUME NEW v \in Uploads, v # u  PROVE UploadIsGood(v)'
  <2>1. Same(v)
    BY <1>3 DEF Same, Upload!TypeOK, Becomes
  <2> QED
    BY <2>1, SameIsGood
<1> QED
  BY <1>1, <1>2, <1>3

LEMMA GoodAndKnown ==
    ASSUME Upload!TypeOK, NEW u \in Uploads, UploadIsGood(u)
    PROVE  /\ Good(session[u], parts[u], file[u], record[u], requests[u], job[u], fileWork[u], added[u], asked[u])
           /\ Known(session[u], parts[u], expired[u], file[u], record[u], requests[u], job[u], fileWork[u],
               added[u], asked[u])
BY GoodIs, UploadTypes DEF Known, Upload!TypeOK

\* What the queue of the session says of the request that runs.
LEMMA RequestFacts ==
    ASSUME NEW q \in Seq(Upload!Requests)
    PROVE  /\ q # <<>> => Tail(q) \in Seq(Upload!Requests) /\ (Head(q).kind = "chunk" => Head(q).chunk \in Chunks)
           /\ \A x \in Upload!Requests : Append(q, x) \in Seq(Upload!Requests) /\ Append(q, x) # <<>>
                                         /\ (q # <<>> => Head(Append(q, x)) = Head(q))
<1>1. ASSUME q # <<>>  PROVE Head(q) \in Upload!Requests /\ Tail(q) \in Seq(Upload!Requests)
  BY <1>1, QueueFacts
<1>2. ASSUME NEW x \in Upload!Requests, x.kind = "chunk"  PROVE x.chunk \in Chunks
  BY <1>2 DEF Upload!Requests
<1>3. \A x \in Upload!Requests : Append(q, x) \in Seq(Upload!Requests) /\ Append(q, x) # <<>>
                                  /\ (q # <<>> => Head(Append(q, x)) = Head(q))
  BY QueueFacts
<1> QED
  BY <1>1, <1>2, <1>3

\* A request is accepted.
LEMMA AcceptKeepsUploads ==
    ASSUME Upload!TypeOK, \A v \in Uploads : UploadIsGood(v), NEW u \in Uploads, NEW x \in Upload!Requests,
           Upload!Accept(u, x)
    PROVE  Upload!TypeOK' /\ \A v \in Uploads : UploadIsGood(v)'
<1> DEFINE s == session[u]  p == parts[u]  e == expired[u]  f == file[u]  r == record[u]
           q == requests[u]  j == job[u]  w == fileWork[u]  a == added[u]  k == asked[u]
<1> USE DEF Upload!store, Upload!library, Upload!locks
<1>1. Known(s, p, e, f, r, q, j, w, a, k) /\ Good(s, p, f, r, q, j, w, a, k)
  BY GoodAndKnown
<1>2. /\ Whole(s, r) /\ Owns(s, r, q, j) /\ Listed(s, f, r, q, w, a) /\ Counted(s, p)
      /\ Waits(w, j.pc) /\ DeletesAreAsked(w, k)
  BY <1>1 DEF Good
<1>3. session \in [Uploads -> Upload!Sessions \cup {Upload!Absent, Upload!Gone}]
      /\ parts \in [Uploads -> SUBSET Chunks]
      /\ expired \in [Uploads -> BOOLEAN] /\ file \in [Uploads -> BOOLEAN]
          /\ record \in [Uploads -> {"none", "plain", "linked"}]
      /\ requests \in [Uploads -> Seq(Upload!Requests)] /\ job \in [Uploads -> Upload!Jobs]
      /\ fileWork \in [Uploads -> Seq(Upload!FileWorks)] /\ added \in [Uploads -> BOOLEAN]
          /\ asked \in [Uploads -> BOOLEAN]
  BY DEF Upload!TypeOK
<1>4. s # Upload!Absent
  BY DEF Upload!Accept
<1>5. Becomes(u, s, p, e, f, r, Append(q, x), j, w, a, k)
  BY <1>3, <1>1, <1>2, <1>4 DEF Becomes, Upload!Accept
<1> HIDE DEF s, p, e, f, r, q, j, w, a, k
<1>6. Known(s, p, e, f, r, Append(q, x), j, w, a, k)
  BY <1>1, <1>2, <1>4, RequestFacts, QueueFacts, SessionFacts, JobFacts DEF Known, Upload!FileWorks
<1>7. Waits(w, j.pc) /\ DeletesAreAsked(w, k)
  BY <1>1, <1>2, <1>4, JobFacts DEF Known, Waiting, Upload!FileWorks
<1>8. /\ Whole(s, r) /\ Owns(s, r, Append(q, x), j)
      /\ Listed(s, f, r, Append(q, x), w, a) /\ Counted(s, p)
  BY <1>1, <1>2, <1>4, SessionFacts, JobFacts, RequestFacts DEF Known, Whole, Owns, Listed, Counted
<1>9. Good(s, p, f, r, Append(q, x), j, w, a, k)
  BY <1>7, <1>8 DEF Good
<1> QED
  BY <1>5, <1>6, <1>9, OneUploadMoves

\* An operator asks for work on the file.
LEMMA AcceptFileWorkKeepsUploads ==
    ASSUME Upload!TypeOK, \A v \in Uploads : UploadIsGood(v), NEW u \in Uploads,
           NEW kind \in {"delete", "convert"}, Upload!AcceptFileWork(u, kind)
    PROVE  Upload!TypeOK' /\ \A v \in Uploads : UploadIsGood(v)'
<1> DEFINE s == session[u]  p == parts[u]  e == expired[u]  f == file[u]  r == record[u]
           q == requests[u]  j == job[u]  w == fileWork[u]  a == added[u]  k == asked[u]
<1> USE DEF Upload!store, Upload!library, Upload!locks
<1>1. Known(s, p, e, f, r, q, j, w, a, k) /\ Good(s, p, f, r, q, j, w, a, k)
  BY GoodAndKnown
<1>2. /\ Whole(s, r) /\ Owns(s, r, q, j) /\ Listed(s, f, r, q, w, a) /\ Counted(s, p)
      /\ Waits(w, j.pc) /\ DeletesAreAsked(w, k)
  BY <1>1 DEF Good
<1>3. session \in [Uploads -> Upload!Sessions \cup {Upload!Absent, Upload!Gone}]
      /\ parts \in [Uploads -> SUBSET Chunks]
      /\ expired \in [Uploads -> BOOLEAN] /\ file \in [Uploads -> BOOLEAN]
          /\ record \in [Uploads -> {"none", "plain", "linked"}]
      /\ requests \in [Uploads -> Seq(Upload!Requests)] /\ job \in [Uploads -> Upload!Jobs]
      /\ fileWork \in [Uploads -> Seq(Upload!FileWorks)] /\ added \in [Uploads -> BOOLEAN]
          /\ asked \in [Uploads -> BOOLEAN]
  BY DEF Upload!TypeOK
<1>4. s # Upload!Absent
  BY DEF Upload!AcceptFileWork
<1>5. Becomes(u, s, p, e, f, r, q, j, Append(w, kind), a, (k \/ kind = "delete"))
  BY <1>3, <1>1, <1>2, <1>4 DEF Becomes, Upload!AcceptFileWork
<1> HIDE DEF s, p, e, f, r, q, j, w, a, k
<1>6. Known(s, p, e, f, r, q, j, Append(w, kind), a, (k \/ kind = "delete"))
  BY <1>1, <1>2, <1>4, RequestFacts, QueueFacts, SessionFacts, JobFacts DEF Known, Upload!FileWorks
<1>7. Waits(Append(w, kind), j.pc) /\ DeletesAreAsked(Append(w, kind), (k \/ kind = "delete"))
  BY <1>1, <1>2, <1>4, OperatorJoins, DeletesStayAsked, JobFacts DEF Known, Waiting, Upload!FileWorks
<1>8. /\ Whole(s, r) /\ Owns(s, r, q, j)
      /\ Listed(s, f, r, q, Append(w, kind), a) /\ Counted(s, p)
  BY <1>1, <1>2, <1>4, SessionFacts, JobFacts, RequestFacts DEF Known, Whole, Owns, Listed, Counted
<1>9. Good(s, p, f, r, q, j, Append(w, kind), a, (k \/ kind = "delete"))
  BY <1>7, <1>8 DEF Good
<1> QED
  BY <1>5, <1>6, <1>9, OneUploadMoves

\* A session expires.
LEMMA ExpireKeepsUploads ==
    ASSUME Upload!TypeOK, \A v \in Uploads : UploadIsGood(v), NEW u \in Uploads, Upload!Expire(u)
    PROVE  Upload!TypeOK' /\ \A v \in Uploads : UploadIsGood(v)'
<1> DEFINE s == session[u]  p == parts[u]  e == expired[u]  f == file[u]  r == record[u]
           q == requests[u]  j == job[u]  w == fileWork[u]  a == added[u]  k == asked[u]
<1> USE DEF Upload!store, Upload!library, Upload!locks
<1>1. Known(s, p, e, f, r, q, j, w, a, k) /\ Good(s, p, f, r, q, j, w, a, k)
  BY GoodAndKnown
<1>2. /\ Whole(s, r) /\ Owns(s, r, q, j) /\ Listed(s, f, r, q, w, a) /\ Counted(s, p)
      /\ Waits(w, j.pc) /\ DeletesAreAsked(w, k)
  BY <1>1 DEF Good
<1>3. session \in [Uploads -> Upload!Sessions \cup {Upload!Absent, Upload!Gone}]
      /\ parts \in [Uploads -> SUBSET Chunks]
      /\ expired \in [Uploads -> BOOLEAN] /\ file \in [Uploads -> BOOLEAN]
          /\ record \in [Uploads -> {"none", "plain", "linked"}]
      /\ requests \in [Uploads -> Seq(Upload!Requests)] /\ job \in [Uploads -> Upload!Jobs]
      /\ fileWork \in [Uploads -> Seq(Upload!FileWorks)] /\ added \in [Uploads -> BOOLEAN]
          /\ asked \in [Uploads -> BOOLEAN]
  BY DEF Upload!TypeOK
<1>4. Becomes(u, s, p, TRUE, f, r, q, j, w, a, k)
  BY <1>3, <1>1, <1>2 DEF Becomes, Upload!Expire
<1> HIDE DEF s, p, e, f, r, q, j, w, a, k
<1>5. Known(s, p, TRUE, f, r, q, j, w, a, k)
  BY <1>1, <1>2, RequestFacts, QueueFacts, SessionFacts, JobFacts DEF Known, Upload!FileWorks
<1>6. Waits(w, j.pc) /\ DeletesAreAsked(w, k)
  BY <1>1, <1>2, JobFacts DEF Known, Waiting, Upload!FileWorks
<1>7. /\ Whole(s, r) /\ Owns(s, r, q, j)
      /\ Listed(s, f, r, q, w, a) /\ Counted(s, p)
  BY <1>1, <1>2, SessionFacts, JobFacts, RequestFacts DEF Known, Whole, Owns, Listed, Counted
<1>8. Good(s, p, f, r, q, j, w, a, k)
  BY <1>6, <1>7 DEF Good
<1> QED
  BY <1>4, <1>5, <1>8, OneUploadMoves

\* A chunk is received: its body is read, or it is refused or there already.
LEMMA PutChunkKeepsUploads ==
    ASSUME Upload!TypeOK, \A v \in Uploads : UploadIsGood(v), NEW u \in Uploads, Upload!PutChunk(u)
    PROVE  Upload!TypeOK' /\ \A v \in Uploads : UploadIsGood(v)'
<1> DEFINE s == session[u]  p == parts[u]  e == expired[u]  f == file[u]  r == record[u]
           q == requests[u]  j == job[u]  w == fileWork[u]  a == added[u]  k == asked[u]
<1> USE DEF Upload!store, Upload!library, Upload!locks
<1>1. Known(s, p, e, f, r, q, j, w, a, k) /\ Good(s, p, f, r, q, j, w, a, k)
  BY GoodAndKnown
<1>2. /\ Whole(s, r) /\ Owns(s, r, q, j) /\ Listed(s, f, r, q, w, a) /\ Counted(s, p)
      /\ Waits(w, j.pc) /\ DeletesAreAsked(w, k)
  BY <1>1 DEF Good
<1>3. session \in [Uploads -> Upload!Sessions \cup {Upload!Absent, Upload!Gone}]
      /\ parts \in [Uploads -> SUBSET Chunks]
      /\ expired \in [Uploads -> BOOLEAN] /\ file \in [Uploads -> BOOLEAN]
          /\ record \in [Uploads -> {"none", "plain", "linked"}]
      /\ requests \in [Uploads -> Seq(Upload!Requests)] /\ job \in [Uploads -> Upload!Jobs]
      /\ fileWork \in [Uploads -> Seq(Upload!FileWorks)] /\ added \in [Uploads -> BOOLEAN]
          /\ asked \in [Uploads -> BOOLEAN]
  BY DEF Upload!TypeOK
<1>4. q # <<>> /\ j = Upload!Idle /\ Head(q).kind = "chunk" /\ Head(q) \in Upload!Requests
  BY <1>1, QueueFacts DEF Upload!PutChunk, Upload!Ready, Known
<1>5. Upload!Stored(u) <=> s \in Upload!Sessions
  BY UploadTypes
<1>6. CASE Upload!Stored(u) /\ Head(requests[u]).chunk \notin session[u].received
  <2>1. Becomes(u, s, p, e, f, r, q, [pc |-> "body", meta |-> s], w, a, k)
    BY <1>3, <1>1, <1>2, <1>4, <1>5, <1>6 DEF Becomes, Upload!PutChunk, Upload!GoOn
  <2>2. s \in Upload!Sessions /\ s.received # Chunks /\ s.received \subseteq Chunks
    BY <1>1, <1>2, <1>4, <1>5, <1>6, RequestFacts, SessionFacts DEF Known
  <2>3. ~s.deleted /\ ~s.registered /\ ~s.digest /\ r # "linked" /\ s.is = "stored"
    BY <1>1, <1>2, <1>4, <1>5, <1>6, <2>2, SessionFacts DEF Whole
  <2> HIDE DEF s, p, e, f, r, q, j, w, a, k
  <2>4. Known(s, p, e, f, r, q, [pc |-> "body", meta |-> s], w, a, k)
    BY <1>1, <1>2, <1>4, <1>5, <1>6, <2>2, <2>3, RequestFacts, QueueFacts, SessionFacts, JobFacts DEF Known,
        Upload!FileWorks
  <2>5. Waits(w, ([pc |-> "body", meta |-> s]).pc) /\ DeletesAreAsked(w, k)
    BY <1>1, <1>2, <1>4, <1>5, <1>6, <2>2, <2>3, NobodyIsWaiting, NobodyJoined, JobFacts DEF Known, Waiting,
        Upload!FileWorks
  <2>6. /\ Whole(s, r) /\ Owns(s, r, q, [pc |-> "body", meta |-> s])
        /\ Listed(s, f, r, q, w, a) /\ Counted(s, p)
    BY <1>1, <1>2, <1>4, <1>5, <1>6, <2>2, <2>3, SessionFacts, JobFacts, RequestFacts DEF Known, Whole, Owns,
        Listed, Counted
  <2>7. Good(s, p, f, r, q, [pc |-> "body", meta |-> s], w, a, k)
    BY <2>5, <2>6 DEF Good
  <2> QED
    BY <2>1, <2>4, <2>7, OneUploadMoves
<1>7. CASE ~(Upload!Stored(u) /\ Head(requests[u]).chunk \notin session[u].received)
  <2>1. Becomes(u, s, p, e, f, r, Tail(q), Upload!Idle, w, a, k)
    BY <1>3, <1>1, <1>2, <1>4, <1>5, <1>7 DEF Becomes, Upload!PutChunk, Upload!Finish
  <2> HIDE DEF s, p, e, f, r, q, j, w, a, k
  <2>2. Known(s, p, e, f, r, Tail(q), Upload!Idle, w, a, k)
    BY <1>1, <1>2, <1>4, <1>5, <1>7, RequestFacts, QueueFacts, SessionFacts, JobFacts DEF Known, Upload!FileWorks
  <2>3. Waits(w, (Upload!Idle).pc) /\ DeletesAreAsked(w, k)
    BY <1>1, <1>2, <1>4, <1>5, <1>7, JobFacts DEF Known, Waiting, Upload!FileWorks
  <2>4. /\ Whole(s, r) /\ Owns(s, r, Tail(q), Upload!Idle)
        /\ Listed(s, f, r, Tail(q), w, a) /\ Counted(s, p)
    BY <1>1, <1>2, <1>4, <1>5, <1>7, SessionFacts, JobFacts, RequestFacts DEF Known, Whole, Owns, Listed, Counted
  <2>5. Good(s, p, f, r, Tail(q), Upload!Idle, w, a, k)
    BY <2>3, <2>4 DEF Good
  <2> QED
    BY <2>1, <2>2, <2>5, OneUploadMoves
<1> QED
  BY <1>6, <1>7, <1>4, <1>5 DEF Upload!PutChunk

\* The body of a chunk has arrived.
LEMMA ChunkArrivesKeepsUploads ==
    ASSUME Upload!TypeOK, \A v \in Uploads : UploadIsGood(v), NEW u \in Uploads, NEW n \in 0..2,
           Upload!ChunkArrives(u, n)
    PROVE  Upload!TypeOK' /\ \A v \in Uploads : UploadIsGood(v)'
<1> DEFINE s == session[u]  p == parts[u]  e == expired[u]  f == file[u]  r == record[u]
           q == requests[u]  j == job[u]  w == fileWork[u]  a == added[u]  k == asked[u]
<1> USE DEF Upload!store, Upload!library, Upload!locks
<1>1. Known(s, p, e, f, r, q, j, w, a, k) /\ Good(s, p, f, r, q, j, w, a, k)
  BY GoodAndKnown
<1>2. /\ Whole(s, r) /\ Owns(s, r, q, j) /\ Listed(s, f, r, q, w, a) /\ Counted(s, p)
      /\ Waits(w, j.pc) /\ DeletesAreAsked(w, k)
  BY <1>1 DEF Good
<1>3. session \in [Uploads -> Upload!Sessions \cup {Upload!Absent, Upload!Gone}]
      /\ parts \in [Uploads -> SUBSET Chunks]
      /\ expired \in [Uploads -> BOOLEAN] /\ file \in [Uploads -> BOOLEAN]
          /\ record \in [Uploads -> {"none", "plain", "linked"}]
      /\ requests \in [Uploads -> Seq(Upload!Requests)] /\ job \in [Uploads -> Upload!Jobs]
      /\ fileWork \in [Uploads -> Seq(Upload!FileWorks)] /\ added \in [Uploads -> BOOLEAN]
          /\ asked \in [Uploads -> BOOLEAN]
  BY DEF Upload!TypeOK
<1>4. j # Upload!Idle /\ j.pc \in {"body"} /\ s \in Upload!Sessions /\ j.meta \in Upload!Sessions /\ q # <<>>
  BY <1>1, <1>2, JobFacts, SessionFacts DEF Upload!ChunkArrives, Known, Owns
<1>5. s = j.meta /\ ~s.deleted /\ s.received # Chunks /\ Head(q).chunk \in Chunks /\ s.received \subseteq Chunks
      /\ ~s.registered /\ ~s.digest /\ ~s.reclaimed /\ s.is = "stored"
  BY <1>1, <1>2, <1>4, RequestFacts, SessionFacts DEF Known, Whole, Owns
<1>6. CASE n = 0
  <2>1. Becomes(u, s, p, (e /\ n < 2), f, r, Tail(q), Upload!Idle, w, a, k)
    BY <1>3, <1>1, <1>2, <1>4, <1>5, <1>6 DEF Becomes, Upload!ChunkArrives, Upload!Finish
  <2> HIDE DEF s, p, e, f, r, q, j, w, a, k
  <2>2. Known(s, p, (e /\ n < 2), f, r, Tail(q), Upload!Idle, w, a, k)
    BY <1>1, <1>2, <1>4, <1>5, <1>6, RequestFacts, QueueFacts, SessionFacts, JobFacts DEF Known, Upload!FileWorks
  <2>3. Waits(w, (Upload!Idle).pc) /\ DeletesAreAsked(w, k)
    BY <1>1, <1>2, <1>4, <1>5, <1>6, NobodyIsWaiting, NobodyJoined, JobFacts DEF Known, Waiting, Upload!FileWorks
  <2>4. /\ Whole(s, r) /\ Owns(s, r, Tail(q), Upload!Idle)
        /\ Listed(s, f, r, Tail(q), w, a) /\ Counted(s, p)
    BY <1>1, <1>2, <1>4, <1>5, <1>6, SessionFacts, JobFacts, RequestFacts DEF Known, Whole, Owns, Listed, Counted
  <2>5. Good(s, p, f, r, Tail(q), Upload!Idle, w, a, k)
    BY <2>3, <2>4 DEF Good
  <2> QED
    BY <2>1, <2>2, <2>5, OneUploadMoves
<1>7. CASE n = 1
  <2>1. Becomes(u, s, (p \cup {Head(q).chunk}), (e /\ n < 2), f, r, Tail(q), Upload!Idle, w, a, k)
    BY <1>3, <1>1, <1>2, <1>4, <1>5, <1>7 DEF Becomes, Upload!ChunkArrives, Upload!Finish
  <2> HIDE DEF s, p, e, f, r, q, j, w, a, k
  <2>2. Known(s, (p \cup {Head(q).chunk}), (e /\ n < 2), f, r, Tail(q), Upload!Idle, w, a, k)
    BY <1>1, <1>2, <1>4, <1>5, <1>7, RequestFacts, QueueFacts, SessionFacts, JobFacts DEF Known, Upload!FileWorks
  <2>3. Waits(w, (Upload!Idle).pc) /\ DeletesAreAsked(w, k)
    BY <1>1, <1>2, <1>4, <1>5, <1>7, NobodyIsWaiting, NobodyJoined, JobFacts DEF Known, Waiting, Upload!FileWorks
  <2>4. /\ Whole(s, r) /\ Owns(s, r, Tail(q), Upload!Idle)
        /\ Listed(s, f, r, Tail(q), w, a) /\ Counted(s, (p \cup {Head(q).chunk}))
    BY <1>1, <1>2, <1>4, <1>5, <1>7, SessionFacts, JobFacts, RequestFacts DEF Known, Whole, Owns, Listed, Counted
  <2>5. Good(s, (p \cup {Head(q).chunk}), f, r, Tail(q), Upload!Idle, w, a, k)
    BY <2>3, <2>4 DEF Good
  <2> QED
    BY <2>1, <2>2, <2>5, OneUploadMoves
<1>8. CASE n = 2
  <2>1. Becomes(u, [s EXCEPT !.received = @ \cup {Head(q).chunk}], (p \cup {Head(q).chunk}), (e /\ n < 2), f, r,
        Tail(q), Upload!Idle, w, a, k)
    BY <1>3, <1>1, <1>2, <1>4, <1>5, <1>8 DEF Becomes, Upload!ChunkArrives, Upload!Finish
  <2>2. [s EXCEPT !.received = @ \cup {Head(q).chunk}] \in Upload!Sessions
    BY <1>1, <1>2, <1>4, <1>5, <1>8, SessionEdits
  <2> HIDE DEF s, p, e, f, r, q, j, w, a, k
  <2>3. Known([s EXCEPT !.received = @ \cup {Head(q).chunk}], (p \cup {Head(q).chunk}), (e /\ n < 2), f, r,
        Tail(q), Upload!Idle, w, a, k)
    BY <1>1, <1>2, <1>4, <1>5, <1>8, <2>2, RequestFacts, QueueFacts, SessionFacts, JobFacts DEF Known,
        Upload!FileWorks
  <2>4. Waits(w, (Upload!Idle).pc) /\ DeletesAreAsked(w, k)
    BY <1>1, <1>2, <1>4, <1>5, <1>8, <2>2, NobodyIsWaiting, NobodyJoined, JobFacts DEF Known, Waiting,
        Upload!FileWorks
  <2>5. /\ Whole([s EXCEPT !.received = @ \cup {Head(q).chunk}], r)
        /\ Owns([s EXCEPT !.received = @ \cup {Head(q).chunk}], r, Tail(q), Upload!Idle)
        /\ Listed([s EXCEPT !.received = @ \cup {Head(q).chunk}], f, r, Tail(q), w, a)
            /\ Counted([s EXCEPT !.received = @ \cup {Head(q).chunk}], (p \cup {Head(q).chunk}))
    BY <1>1, <1>2, <1>4, <1>5, <1>8, <2>2, SessionFacts, SessionEdits DEF Known, Whole, Owns, Listed, Counted
  <2>6. Good([s EXCEPT !.received = @ \cup {Head(q).chunk}], (p \cup {Head(q).chunk}), f, r, Tail(q),
        Upload!Idle, w, a, k)
    BY <2>4, <2>5 DEF Good
  <2> QED
    BY <2>1, <2>3, <2>6, OneUploadMoves
<1> QED
  BY <1>6, <1>7, <1>8, <1>4, <1>5 DEF Upload!ChunkArrives

\* A request to complete: the digest is replayed, or the parts are assembled, or it is refused.
LEMMA CompleteKeepsUploads ==
    ASSUME Upload!TypeOK, \A v \in Uploads : UploadIsGood(v), NEW u \in Uploads, NEW pinned \in BOOLEAN,
           Upload!Complete(u, pinned)
    PROVE  Upload!TypeOK' /\ \A v \in Uploads : UploadIsGood(v)'
<1> DEFINE s == session[u]  p == parts[u]  e == expired[u]  f == file[u]  r == record[u]
           q == requests[u]  j == job[u]  w == fileWork[u]  a == added[u]  k == asked[u]
<1> USE DEF Upload!store, Upload!library, Upload!locks
<1>1. Known(s, p, e, f, r, q, j, w, a, k) /\ Good(s, p, f, r, q, j, w, a, k)
  BY GoodAndKnown
<1>2. /\ Whole(s, r) /\ Owns(s, r, q, j) /\ Listed(s, f, r, q, w, a) /\ Counted(s, p)
      /\ Waits(w, j.pc) /\ DeletesAreAsked(w, k)
  BY <1>1 DEF Good
<1>3. session \in [Uploads -> Upload!Sessions \cup {Upload!Absent, Upload!Gone}]
      /\ parts \in [Uploads -> SUBSET Chunks]
      /\ expired \in [Uploads -> BOOLEAN] /\ file \in [Uploads -> BOOLEAN]
          /\ record \in [Uploads -> {"none", "plain", "linked"}]
      /\ requests \in [Uploads -> Seq(Upload!Requests)] /\ job \in [Uploads -> Upload!Jobs]
      /\ fileWork \in [Uploads -> Seq(Upload!FileWorks)] /\ added \in [Uploads -> BOOLEAN]
          /\ asked \in [Uploads -> BOOLEAN]
  BY DEF Upload!TypeOK
<1>4. q # <<>> /\ j = Upload!Idle /\ Head(q).kind = "complete" /\ Head(q) \in Upload!Requests
  BY <1>1, QueueFacts DEF Upload!Complete, Upload!Ready, Known
<1>5. Upload!Stored(u) <=> s \in Upload!Sessions
  BY UploadTypes
<1>6. CASE Upload!Retired(u) \/ ~pinned
  <2>1. Becomes(u, s, p, e, f, r, Tail(q), Upload!Idle, w, a, k)
    BY <1>3, <1>1, <1>2, <1>4, <1>5, <1>6 DEF Becomes, Upload!Complete, Upload!Finish
  <2> HIDE DEF s, p, e, f, r, q, j, w, a, k
  <2>2. Known(s, p, e, f, r, Tail(q), Upload!Idle, w, a, k)
    BY <1>1, <1>2, <1>4, <1>5, <1>6, RequestFacts, QueueFacts, SessionFacts, JobFacts DEF Known, Upload!FileWorks
  <2>3. Waits(w, (Upload!Idle).pc) /\ DeletesAreAsked(w, k)
    BY <1>1, <1>2, <1>4, <1>5, <1>6, NobodyIsWaiting, NobodyJoined, JobFacts DEF Known, Waiting, Upload!FileWorks
  <2>4. /\ Whole(s, r) /\ Owns(s, r, Tail(q), Upload!Idle)
        /\ Listed(s, f, r, Tail(q), w, a) /\ Counted(s, p)
    BY <1>1, <1>2, <1>4, <1>5, <1>6, SessionFacts, JobFacts, RequestFacts DEF Known, Whole, Owns, Listed, Counted
  <2>5. Good(s, p, f, r, Tail(q), Upload!Idle, w, a, k)
    BY <2>3, <2>4 DEF Good
  <2> QED
    BY <2>1, <2>2, <2>5, OneUploadMoves
<1>7. CASE (~Upload!Retired(u) /\ pinned /\ session[u].digest
      /\ Upload!WaitForFile(u, "replay", [session[u] EXCEPT !.pinned = TRUE], fileWork[u]))
  <2> DEFINE t == [s EXCEPT !.pinned = TRUE]
  <2>1. Becomes(u, t, p, e, f, r, q, [pc |-> "replay", meta |-> t], Append(w, "replay"), a, k)
    BY <1>3, <1>1, <1>2, <1>4, <1>5, <1>7 DEF Becomes, Upload!Complete, Upload!WaitForFile, Upload!GoOn,
        Upload!Retired
  <2>2. s \in Upload!Sessions /\ s.is = "stored" /\ ~s.deleted /\ s.digest /\ s.received = Chunks
    BY <1>1, <1>2, <1>4, <1>5, <1>7, SessionFacts DEF Upload!Retired, Whole
  <2>3. t \in Upload!Sessions /\ t.is = "stored" /\ t.received = s.received /\ t.digest = s.digest
        /\ t.registered = s.registered /\ t.reclaimed = s.reclaimed /\ t.deleted = s.deleted
    BY <1>1, <1>2, <1>4, <1>5, <1>7, <2>2, SessionFlags, SessionFacts
  <2> HIDE DEF s, p, e, f, r, q, j, w, a, k, t
  <2>4. Known(t, p, e, f, r, q, [pc |-> "replay", meta |-> t], Append(w, "replay"), a, k)
    BY <1>1, <1>2, <1>4, <1>5, <1>7, <2>2, <2>3, RequestFacts, QueueFacts, SessionFacts, JobFacts DEF Known,
        Upload!FileWorks
  <2>5. Waits(Append(w, "replay"), ([pc |-> "replay", meta |-> t]).pc) /\ DeletesAreAsked(Append(w, "replay"), k)
    BY <1>1, <1>2, <1>4, <1>5, <1>7, <2>2, <2>3, NobodyIsWaiting, OneJoins, DeletesStayAsked, JobFacts DEF Known,
        Waiting, Upload!FileWorks
  <2>6. /\ Whole(t, r) /\ Owns(t, r, q, [pc |-> "replay", meta |-> t])
        /\ Listed(t, f, r, q, Append(w, "replay"), a) /\ Counted(t, p)
    BY <1>1, <1>2, <1>4, <1>5, <1>7, <2>2, <2>3, SessionFacts, SessionFlags, JobFacts DEF Known, Whole, Owns,
        Listed, Counted
  <2>7. Good(t, p, f, r, q, [pc |-> "replay", meta |-> t], Append(w, "replay"), a, k)
    BY <2>5, <2>6 DEF Good
  <2> QED
    BY <2>1, <2>4, <2>7, OneUploadMoves
<1>8. CASE (~Upload!Retired(u) /\ pinned /\ ~session[u].digest /\ session[u].received = Chunks
      /\ Upload!GoOn(u, "assemble", [session[u] EXCEPT !.pinned = TRUE]) /\ UNCHANGED fileWork)
  <2> DEFINE t == [s EXCEPT !.pinned = TRUE]
  <2>1. Becomes(u, t, p, e, f, r, q, [pc |-> "assemble", meta |-> t], w, a, k)
    BY <1>3, <1>1, <1>2, <1>4, <1>5, <1>8 DEF Becomes, Upload!Complete, Upload!GoOn, Upload!Retired
  <2>2. s \in Upload!Sessions /\ s.is = "stored" /\ ~s.deleted
    BY <1>1, <1>2, <1>4, <1>5, <1>8, SessionFacts DEF Upload!Retired
  <2>3. t \in Upload!Sessions /\ t.is = "stored" /\ t.received = s.received /\ t.digest = s.digest
        /\ t.registered = s.registered /\ t.reclaimed = s.reclaimed /\ t.deleted = s.deleted
    BY <1>1, <1>2, <1>4, <1>5, <1>8, <2>2, SessionFlags, SessionFacts
  <2>4. r # "linked" /\ s.received = Chunks
    BY <1>1, <1>2, <1>4, <1>5, <1>8, <2>2, <2>3 DEF Whole
  <2> HIDE DEF s, p, e, f, r, q, j, w, a, k, t
  <2>5. Known(t, p, e, f, r, q, [pc |-> "assemble", meta |-> t], w, a, k)
    BY <1>1, <1>2, <1>4, <1>5, <1>8, <2>2, <2>3, <2>4, RequestFacts, QueueFacts, SessionFacts,
        JobFacts DEF Known, Upload!FileWorks
  <2>6. Waits(w, ([pc |-> "assemble", meta |-> t]).pc) /\ DeletesAreAsked(w, k)
    BY <1>1, <1>2, <1>4, <1>5, <1>8, <2>2, <2>3, <2>4, NobodyIsWaiting, NobodyJoined, JobFacts DEF Known,
        Waiting, Upload!FileWorks
  <2>7. /\ Whole(t, r) /\ Owns(t, r, q, [pc |-> "assemble", meta |-> t])
        /\ Listed(t, f, r, q, w, a) /\ Counted(t, p)
    BY <1>1, <1>2, <1>4, <1>5, <1>8, <2>2, <2>3, <2>4, SessionFacts, SessionFlags, JobFacts DEF Known, Whole,
        Owns, Listed, Counted
  <2>8. Good(t, p, f, r, q, [pc |-> "assemble", meta |-> t], w, a, k)
    BY <2>6, <2>7 DEF Good
  <2> QED
    BY <2>1, <2>5, <2>8, OneUploadMoves
<1>9. CASE (~Upload!Retired(u) /\ pinned /\ ~session[u].digest /\ session[u].received # Chunks
      /\ Upload!Finish(u) /\ UNCHANGED fileWork)
  <2> DEFINE t == [s EXCEPT !.pinned = TRUE]
  <2>1. Becomes(u, t, p, e, f, r, Tail(q), Upload!Idle, w, a, k)
    BY <1>3, <1>1, <1>2, <1>4, <1>5, <1>9 DEF Becomes, Upload!Complete, Upload!Finish, Upload!Retired
  <2>2. s \in Upload!Sessions /\ s.is = "stored" /\ ~s.deleted
    BY <1>1, <1>2, <1>4, <1>5, <1>9, SessionFacts DEF Upload!Retired
  <2>3. t \in Upload!Sessions /\ t.is = "stored" /\ t.received = s.received /\ t.digest = s.digest
        /\ t.registered = s.registered /\ t.reclaimed = s.reclaimed /\ t.deleted = s.deleted
    BY <1>1, <1>2, <1>4, <1>5, <1>9, <2>2, SessionFlags, SessionFacts
  <2> HIDE DEF s, p, e, f, r, q, j, w, a, k, t
  <2>4. Known(t, p, e, f, r, Tail(q), Upload!Idle, w, a, k)
    BY <1>1, <1>2, <1>4, <1>5, <1>9, <2>2, <2>3, RequestFacts, QueueFacts, SessionFacts, JobFacts DEF Known,
        Upload!FileWorks
  <2>5. Waits(w, (Upload!Idle).pc) /\ DeletesAreAsked(w, k)
    BY <1>1, <1>2, <1>4, <1>5, <1>9, <2>2, <2>3, NobodyIsWaiting, NobodyJoined, JobFacts DEF Known, Waiting,
        Upload!FileWorks
  <2>6. /\ Whole(t, r) /\ Owns(t, r, Tail(q), Upload!Idle)
        /\ Listed(t, f, r, Tail(q), w, a) /\ Counted(t, p)
    BY <1>1, <1>2, <1>4, <1>5, <1>9, <2>2, <2>3, SessionFacts, SessionFlags, JobFacts DEF Known, Whole, Owns,
        Listed, Counted
  <2>7. Good(t, p, f, r, Tail(q), Upload!Idle, w, a, k)
    BY <2>5, <2>6 DEF Good
  <2> QED
    BY <2>1, <2>4, <2>7, OneUploadMoves
<1> QED
  BY <1>6, <1>7, <1>8, <1>9, <1>4, <1>5 DEF Upload!Complete

\* A digest is replayed.
LEMMA ReplayKeepsUploads ==
    ASSUME Upload!TypeOK, \A v \in Uploads : UploadIsGood(v), NEW u \in Uploads, Upload!Replay(u)
    PROVE  Upload!TypeOK' /\ \A v \in Uploads : UploadIsGood(v)'
<1> DEFINE s == session[u]  p == parts[u]  e == expired[u]  f == file[u]  r == record[u]
           q == requests[u]  j == job[u]  w == fileWork[u]  a == added[u]  k == asked[u]
<1> USE DEF Upload!store, Upload!library, Upload!locks
<1>1. Known(s, p, e, f, r, q, j, w, a, k) /\ Good(s, p, f, r, q, j, w, a, k)
  BY GoodAndKnown
<1>2. /\ Whole(s, r) /\ Owns(s, r, q, j) /\ Listed(s, f, r, q, w, a) /\ Counted(s, p)
      /\ Waits(w, j.pc) /\ DeletesAreAsked(w, k)
  BY <1>1 DEF Good
<1>3. session \in [Uploads -> Upload!Sessions \cup {Upload!Absent, Upload!Gone}]
      /\ parts \in [Uploads -> SUBSET Chunks]
      /\ expired \in [Uploads -> BOOLEAN] /\ file \in [Uploads -> BOOLEAN]
          /\ record \in [Uploads -> {"none", "plain", "linked"}]
      /\ requests \in [Uploads -> Seq(Upload!Requests)] /\ job \in [Uploads -> Upload!Jobs]
      /\ fileWork \in [Uploads -> Seq(Upload!FileWorks)] /\ added \in [Uploads -> BOOLEAN]
          /\ asked \in [Uploads -> BOOLEAN]
  BY DEF Upload!TypeOK
<1>4. w # <<>> /\ Head(w) = "replay" /\ Tail(w) \in Seq(Upload!FileWorks)
  BY <1>1, QueueFacts DEF Upload!Replay, Upload!OwnsFile, Known
<1>5. j.pc = Head(w) /\ NobodyWaits(Tail(w)) /\ j # Upload!Idle /\ DeletesAreAsked(Tail(w), k)
  BY <1>1, <1>2, <1>4, NobodyWaitsBehind, DeletesStayAsked, JobFacts DEF Waiting, Known
<1>6. s \in Upload!Sessions /\ j.meta \in Upload!Sessions /\ q # <<>> /\ s.is = "stored"
  BY <1>1, <1>2, <1>5, JobFacts, SessionFacts DEF Known, Owns
<1>7. CASE record[u] = "linked" /\ file[u]
  <2>1. Becomes(u, s, p, e, f, r, q, [pc |-> "replayed", meta |-> j.meta], Tail(w), a, k)
    BY <1>3, <1>1, <1>2, <1>4, <1>5, <1>6, <1>7 DEF Becomes, Upload!Replay, Upload!GoOn
  <2> HIDE DEF s, p, e, f, r, q, j, w, a, k
  <2>2. Known(s, p, e, f, r, q, [pc |-> "replayed", meta |-> j.meta], Tail(w), a, k)
    BY <1>1, <1>2, <1>4, <1>5, <1>6, <1>7, RequestFacts, QueueFacts, SessionFacts, JobFacts DEF Known,
        Upload!FileWorks
  <2>3. Waits(Tail(w), ([pc |-> "replayed", meta |-> j.meta]).pc) /\ DeletesAreAsked(Tail(w), k)
    BY <1>1, <1>2, <1>4, <1>5, <1>6, <1>7, NobodyJoined, JobFacts DEF Known, Waiting, Upload!FileWorks
  <2>4. /\ Whole(s, r) /\ Owns(s, r, q, [pc |-> "replayed", meta |-> j.meta])
        /\ Listed(s, f, r, q, Tail(w), a) /\ Counted(s, p)
    BY <1>1, <1>2, <1>4, <1>5, <1>6, <1>7, SessionFacts, JobFacts, RequestFacts DEF Known, Whole, Owns, Listed,
        Counted
  <2>5. Good(s, p, f, r, q, [pc |-> "replayed", meta |-> j.meta], Tail(w), a, k)
    BY <2>3, <2>4 DEF Good
  <2> QED
    BY <2>1, <2>2, <2>5, OneUploadMoves
<1>8. CASE (~(record[u] = "linked" /\ file[u]) /\ record[u] # "plain" /\ ~Upload!Retired(u)
      /\ ~job[u].meta.registered /\ job[u].meta.received = Chunks)
  <2>1. Becomes(u, s, p, e, f, r, q, [pc |-> "assemble", meta |-> j.meta], Tail(w), a, k)
    BY <1>3, <1>1, <1>2, <1>4, <1>5, <1>6, <1>8 DEF Becomes, Upload!Replay, Upload!GoOn
  <2>2. ~s.deleted /\ s = j.meta
    BY <1>1, <1>2, <1>4, <1>5, <1>6, <1>8 DEF Upload!Retired, Owns
  <2>3. r # "linked"
    BY <1>1, <1>2, <1>4, <1>5, <1>6, <1>8, <2>2 DEF Listed
  <2> HIDE DEF s, p, e, f, r, q, j, w, a, k
  <2>4. Known(s, p, e, f, r, q, [pc |-> "assemble", meta |-> j.meta], Tail(w), a, k)
    BY <1>1, <1>2, <1>4, <1>5, <1>6, <1>8, <2>2, <2>3, RequestFacts, QueueFacts, SessionFacts,
        JobFacts DEF Known, Upload!FileWorks
  <2>5. Waits(Tail(w), ([pc |-> "assemble", meta |-> j.meta]).pc) /\ DeletesAreAsked(Tail(w), k)
    BY <1>1, <1>2, <1>4, <1>5, <1>6, <1>8, <2>2, <2>3, NobodyJoined, JobFacts DEF Known, Waiting, Upload!FileWorks
  <2>6. /\ Whole(s, r) /\ Owns(s, r, q, [pc |-> "assemble", meta |-> j.meta])
        /\ Listed(s, f, r, q, Tail(w), a) /\ Counted(s, p)
    BY <1>1, <1>2, <1>4, <1>5, <1>6, <1>8, <2>2, <2>3, SessionFacts, JobFacts, RequestFacts DEF Known, Whole,
        Owns, Listed, Counted
  <2>7. Good(s, p, f, r, q, [pc |-> "assemble", meta |-> j.meta], Tail(w), a, k)
    BY <2>5, <2>6 DEF Good
  <2> QED
    BY <2>1, <2>4, <2>7, OneUploadMoves
<1>9. CASE (~(record[u] = "linked" /\ file[u]) /\ ~(record[u] # "plain" /\ ~Upload!Retired(u)
      /\ ~job[u].meta.registered /\ job[u].meta.received = Chunks))
  <2>1. Becomes(u, s, p, e, f, r, Tail(q), Upload!Idle, Tail(w), a, k)
    BY <1>3, <1>1, <1>2, <1>4, <1>5, <1>6, <1>9 DEF Becomes, Upload!Replay, Upload!Finish
  <2> HIDE DEF s, p, e, f, r, q, j, w, a, k
  <2>2. Known(s, p, e, f, r, Tail(q), Upload!Idle, Tail(w), a, k)
    BY <1>1, <1>2, <1>4, <1>5, <1>6, <1>9, RequestFacts, QueueFacts, SessionFacts, JobFacts DEF Known,
        Upload!FileWorks
  <2>3. Waits(Tail(w), (Upload!Idle).pc) /\ DeletesAreAsked(Tail(w), k)
    BY <1>1, <1>2, <1>4, <1>5, <1>6, <1>9, NobodyJoined, JobFacts DEF Known, Waiting, Upload!FileWorks
  <2>4. /\ Whole(s, r) /\ Owns(s, r, Tail(q), Upload!Idle)
        /\ Listed(s, f, r, Tail(q), Tail(w), a) /\ Counted(s, p)
    BY <1>1, <1>2, <1>4, <1>5, <1>6, <1>9, SessionFacts, JobFacts, RequestFacts DEF Known, Whole, Owns, Listed,
        Counted
  <2>5. Good(s, p, f, r, Tail(q), Upload!Idle, Tail(w), a, k)
    BY <2>3, <2>4 DEF Good
  <2> QED
    BY <2>1, <2>2, <2>5, OneUploadMoves
<1> QED
  BY <1>7, <1>8, <1>9, <1>4, <1>5, <1>6 DEF Upload!Replay

\* The parts are assembled, or an error stops that.
LEMMA AssembleKeepsUploads ==
    ASSUME Upload!TypeOK, \A v \in Uploads : UploadIsGood(v), NEW u \in Uploads, NEW n \in 0..2, Upload!Assemble(u, n)
    PROVE  Upload!TypeOK' /\ \A v \in Uploads : UploadIsGood(v)'
<1> DEFINE s == session[u]  p == parts[u]  e == expired[u]  f == file[u]  r == record[u]
           q == requests[u]  j == job[u]  w == fileWork[u]  a == added[u]  k == asked[u]
<1> USE DEF Upload!store, Upload!library, Upload!locks
<1>1. Known(s, p, e, f, r, q, j, w, a, k) /\ Good(s, p, f, r, q, j, w, a, k)
  BY GoodAndKnown
<1>2. /\ Whole(s, r) /\ Owns(s, r, q, j) /\ Listed(s, f, r, q, w, a) /\ Counted(s, p)
      /\ Waits(w, j.pc) /\ DeletesAreAsked(w, k)
  BY <1>1 DEF Good
<1>3. session \in [Uploads -> Upload!Sessions \cup {Upload!Absent, Upload!Gone}]
      /\ parts \in [Uploads -> SUBSET Chunks]
      /\ expired \in [Uploads -> BOOLEAN] /\ file \in [Uploads -> BOOLEAN]
          /\ record \in [Uploads -> {"none", "plain", "linked"}]
      /\ requests \in [Uploads -> Seq(Upload!Requests)] /\ job \in [Uploads -> Upload!Jobs]
      /\ fileWork \in [Uploads -> Seq(Upload!FileWorks)] /\ added \in [Uploads -> BOOLEAN]
          /\ asked \in [Uploads -> BOOLEAN]
  BY DEF Upload!TypeOK
<1>4. j # Upload!Idle /\ j.pc \in {"assemble"} /\ s \in Upload!Sessions /\ j.meta \in Upload!Sessions /\ q # <<>>
  BY <1>1, <1>2, JobFacts, SessionFacts DEF Upload!Assemble, Known, Owns
<1>5. s = j.meta /\ ~s.deleted /\ r # "linked" /\ s.received = Chunks /\ NobodyWaits(w)
  BY <1>1, <1>2, <1>4, NobodyIsWaiting DEF Owns, Known, Waiting
<1>6. CASE n = 0
  <2>1. Becomes(u, s, p, e, (f \/ n > 0), r, Tail(q), Upload!Idle, w, a, k)
    BY <1>3, <1>1, <1>2, <1>4, <1>5, <1>6 DEF Becomes, Upload!Assemble, Upload!Finish
  <2> HIDE DEF s, p, e, f, r, q, j, w, a, k
  <2>2. Known(s, p, e, (f \/ n > 0), r, Tail(q), Upload!Idle, w, a, k)
    BY <1>1, <1>2, <1>4, <1>5, <1>6, RequestFacts, QueueFacts, SessionFacts, JobFacts DEF Known, Upload!FileWorks
  <2>3. Waits(w, (Upload!Idle).pc) /\ DeletesAreAsked(w, k)
    BY <1>1, <1>2, <1>4, <1>5, <1>6, NobodyJoined, JobFacts DEF Known, Waiting, Upload!FileWorks
  <2>4. /\ Whole(s, r) /\ Owns(s, r, Tail(q), Upload!Idle)
        /\ Listed(s, (f \/ n > 0), r, Tail(q), w, a) /\ Counted(s, p)
    BY <1>1, <1>2, <1>4, <1>5, <1>6, SessionFacts, JobFacts, RequestFacts DEF Known, Whole, Owns, Listed, Counted
  <2>5. Good(s, p, (f \/ n > 0), r, Tail(q), Upload!Idle, w, a, k)
    BY <2>3, <2>4 DEF Good
  <2> QED
    BY <2>1, <2>2, <2>5, OneUploadMoves
<1>7. CASE n = 1
  <2> DEFINE t == [j.meta EXCEPT !.digest = TRUE]
  <2>1. Becomes(u, s, p, e, (f \/ n > 0), r, q, [pc |-> "discard", meta |-> t], Append(w, "discard"), a, k)
    BY <1>3, <1>1, <1>2, <1>4, <1>5, <1>7 DEF Becomes, Upload!Assemble, Upload!WaitForFile, Upload!GoOn
  <2>2. t \in Upload!Sessions /\ t.is = "stored" /\ t.received = j.meta.received /\ t.digest
        /\ t.registered = j.meta.registered /\ t.reclaimed = j.meta.reclaimed /\ t.deleted = j.meta.deleted
    BY <1>1, <1>2, <1>4, <1>5, <1>7, SessionFlags, SessionFacts
  <2> HIDE DEF s, p, e, f, r, q, j, w, a, k, t
  <2>3. Known(s, p, e, (f \/ n > 0), r, q, [pc |-> "discard", meta |-> t], Append(w, "discard"), a, k)
    BY <1>1, <1>2, <1>4, <1>5, <1>7, <2>2, RequestFacts, QueueFacts, SessionFacts, JobFacts DEF Known,
        Upload!FileWorks
  <2>4. Waits(Append(w, "discard"), ([pc |-> "discard", meta |-> t]).pc) /\ DeletesAreAsked(Append(w, "discard"), k)
    BY <1>1, <1>2, <1>4, <1>5, <1>7, <2>2, OneJoins, DeletesStayAsked, JobFacts DEF Known, Waiting, Upload!FileWorks
  <2>5. /\ Whole(s, r) /\ Owns(s, r, q, [pc |-> "discard", meta |-> t])
        /\ Listed(s, (f \/ n > 0), r, q, Append(w, "discard"), a) /\ Counted(s, p)
    BY <1>1, <1>2, <1>4, <1>5, <1>7, <2>2, SessionFacts, JobFacts, RequestFacts DEF Known, Whole, Owns, Listed,
        Counted
  <2>6. Good(s, p, (f \/ n > 0), r, q, [pc |-> "discard", meta |-> t], Append(w, "discard"), a, k)
    BY <2>4, <2>5 DEF Good
  <2> QED
    BY <2>1, <2>3, <2>6, OneUploadMoves
<1>8. CASE n = 2
  <2> DEFINE t == [j.meta EXCEPT !.digest = TRUE]
  <2>1. Becomes(u, t, p, e, (f \/ n > 0), r, q, [pc |-> "register", meta |-> t], Append(w, "register"), a, k)
    BY <1>3, <1>1, <1>2, <1>4, <1>5, <1>8 DEF Becomes, Upload!Assemble, Upload!WaitForFile, Upload!GoOn
  <2>2. t \in Upload!Sessions /\ t.is = "stored" /\ t.received = j.meta.received /\ t.digest
        /\ t.registered = j.meta.registered /\ t.reclaimed = j.meta.reclaimed /\ t.deleted = j.meta.deleted
    BY <1>1, <1>2, <1>4, <1>5, <1>8, SessionFlags, SessionFacts
  <2> HIDE DEF s, p, e, f, r, q, j, w, a, k, t
  <2>3. Known(t, p, e, (f \/ n > 0), r, q, [pc |-> "register", meta |-> t], Append(w, "register"), a, k)
    BY <1>1, <1>2, <1>4, <1>5, <1>8, <2>2, RequestFacts, QueueFacts, SessionFacts, JobFacts DEF Known,
        Upload!FileWorks
  <2>4. Waits(Append(w, "register"), ([pc |-> "register", meta |-> t]).pc)
        /\ DeletesAreAsked(Append(w, "register"), k)
    BY <1>1, <1>2, <1>4, <1>5, <1>8, <2>2, OneJoins, DeletesStayAsked, JobFacts DEF Known, Waiting, Upload!FileWorks
  <2>5. /\ Whole(t, r) /\ Owns(t, r, q, [pc |-> "register", meta |-> t])
        /\ Listed(t, (f \/ n > 0), r, q, Append(w, "register"), a) /\ Counted(t, p)
    BY <1>1, <1>2, <1>4, <1>5, <1>8, <2>2, SessionFacts, JobFacts, RequestFacts DEF Known, Whole, Owns, Listed,
        Counted
  <2>6. Good(t, p, (f \/ n > 0), r, q, [pc |-> "register", meta |-> t], Append(w, "register"), a, k)
    BY <2>4, <2>5 DEF Good
  <2> QED
    BY <2>1, <2>3, <2>6, OneUploadMoves
<1> QED
  BY <1>6, <1>7, <1>8, <1>4, <1>5 DEF Upload!Assemble

\* The library accepts the upload, or does not.
LEMMA RegisterKeepsUploads ==
    ASSUME Upload!TypeOK, \A v \in Uploads : UploadIsGood(v), NEW u \in Uploads, NEW accepts \in BOOLEAN,
           NEW failed \in BOOLEAN, Upload!Register(u, accepts, failed)
    PROVE  Upload!TypeOK' /\ \A v \in Uploads : UploadIsGood(v)'
<1> DEFINE s == session[u]  p == parts[u]  e == expired[u]  f == file[u]  r == record[u]
           q == requests[u]  j == job[u]  w == fileWork[u]  a == added[u]  k == asked[u]
<1> USE DEF Upload!store, Upload!library, Upload!locks
<1>1. Known(s, p, e, f, r, q, j, w, a, k) /\ Good(s, p, f, r, q, j, w, a, k)
  BY GoodAndKnown
<1>2. /\ Whole(s, r) /\ Owns(s, r, q, j) /\ Listed(s, f, r, q, w, a) /\ Counted(s, p)
      /\ Waits(w, j.pc) /\ DeletesAreAsked(w, k)
  BY <1>1 DEF Good
<1>3. session \in [Uploads -> Upload!Sessions \cup {Upload!Absent, Upload!Gone}]
      /\ parts \in [Uploads -> SUBSET Chunks]
      /\ expired \in [Uploads -> BOOLEAN] /\ file \in [Uploads -> BOOLEAN]
          /\ record \in [Uploads -> {"none", "plain", "linked"}]
      /\ requests \in [Uploads -> Seq(Upload!Requests)] /\ job \in [Uploads -> Upload!Jobs]
      /\ fileWork \in [Uploads -> Seq(Upload!FileWorks)] /\ added \in [Uploads -> BOOLEAN]
          /\ asked \in [Uploads -> BOOLEAN]
  BY DEF Upload!TypeOK
<1>4. w # <<>> /\ Head(w) = "register" /\ Tail(w) \in Seq(Upload!FileWorks)
  BY <1>1, QueueFacts DEF Upload!Register, Upload!OwnsFile, Known
<1>5. j.pc = Head(w) /\ NobodyWaits(Tail(w)) /\ j # Upload!Idle /\ DeletesAreAsked(Tail(w), k)
  BY <1>1, <1>2, <1>4, NobodyWaitsBehind, DeletesStayAsked, JobFacts DEF Waiting, Known
<1>6. s \in Upload!Sessions /\ s = j.meta /\ ~s.deleted /\ r # "linked" /\ s.digest /\ s.received = Chunks
      /\ q # <<>> /\ s.is = "stored"
  BY <1>1, <1>2, <1>4, <1>5, SessionFacts DEF Owns, Known, Whole
<1>7. CASE accepts /\ failed
  <2>1. Becomes(u, s, p, e, f, "linked", q, [pc |-> "discard", meta |-> j.meta], Append(Tail(w), "discard"), TRUE, k)
    BY <1>3, <1>1, <1>2, <1>4, <1>5, <1>6, <1>7 DEF Becomes, Upload!Register, Upload!WaitForFile, Upload!GoOn
  <2>2. f
    BY <1>1, <1>2, <1>4, <1>5, <1>6, <1>7 DEF Upload!Register
  <2> HIDE DEF s, p, e, f, r, q, j, w, a, k
  <2>3. Known(s, p, e, f, "linked", q, [pc |-> "discard", meta |-> j.meta], Append(Tail(w), "discard"), TRUE, k)
    BY <1>1, <1>2, <1>4, <1>5, <1>6, <1>7, <2>2, RequestFacts, QueueFacts, SessionFacts, JobFacts DEF Known,
        Upload!FileWorks
  <2>4. Waits(Append(Tail(w), "discard"), ([pc |-> "discard", meta |-> j.meta]).pc)
        /\ DeletesAreAsked(Append(Tail(w), "discard"), k)
    BY <1>1, <1>2, <1>4, <1>5, <1>6, <1>7, <2>2, OneJoins, DeletesStayAsked, JobFacts DEF Known, Waiting,
        Upload!FileWorks
  <2>5. /\ Whole(s, "linked") /\ Owns(s, "linked", q, [pc |-> "discard", meta |-> j.meta])
        /\ Listed(s, f, "linked", q, Append(Tail(w), "discard"), TRUE) /\ Counted(s, p)
    BY <1>1, <1>2, <1>4, <1>5, <1>6, <1>7, <2>2, SessionFacts, JobFacts, RequestFacts DEF Known, Whole, Owns,
        Listed, Counted
  <2>6. Good(s, p, f, "linked", q, [pc |-> "discard", meta |-> j.meta], Append(Tail(w), "discard"), TRUE, k)
    BY <2>4, <2>5 DEF Good
  <2> QED
    BY <2>1, <2>3, <2>6, OneUploadMoves
<1>8. CASE accepts /\ ~failed
  <2>1. Becomes(u, s, p, e, f, "linked", q, [pc |-> "receipt", meta |-> j.meta], Tail(w), TRUE, k)
    BY <1>3, <1>1, <1>2, <1>4, <1>5, <1>6, <1>8 DEF Becomes, Upload!Register, Upload!GoOn
  <2>2. f
    BY <1>1, <1>2, <1>4, <1>5, <1>6, <1>8 DEF Upload!Register
  <2> HIDE DEF s, p, e, f, r, q, j, w, a, k
  <2>3. Known(s, p, e, f, "linked", q, [pc |-> "receipt", meta |-> j.meta], Tail(w), TRUE, k)
    BY <1>1, <1>2, <1>4, <1>5, <1>6, <1>8, <2>2, RequestFacts, QueueFacts, SessionFacts, JobFacts DEF Known,
        Upload!FileWorks
  <2>4. Waits(Tail(w), ([pc |-> "receipt", meta |-> j.meta]).pc) /\ DeletesAreAsked(Tail(w), k)
    BY <1>1, <1>2, <1>4, <1>5, <1>6, <1>8, <2>2, NobodyJoined, JobFacts DEF Known, Waiting, Upload!FileWorks
  <2>5. /\ Whole(s, "linked") /\ Owns(s, "linked", q, [pc |-> "receipt", meta |-> j.meta])
        /\ Listed(s, f, "linked", q, Tail(w), TRUE) /\ Counted(s, p)
    BY <1>1, <1>2, <1>4, <1>5, <1>6, <1>8, <2>2, SessionFacts, JobFacts, RequestFacts DEF Known, Whole, Owns,
        Listed, Counted
  <2>6. Good(s, p, f, "linked", q, [pc |-> "receipt", meta |-> j.meta], Tail(w), TRUE, k)
    BY <2>4, <2>5 DEF Good
  <2> QED
    BY <2>1, <2>3, <2>6, OneUploadMoves
<1>9. CASE ~accepts
  <2>1. Becomes(u, s, p, e, f, r, q, [pc |-> "discard", meta |-> j.meta], Append(Tail(w), "discard"), a, k)
    BY <1>3, <1>1, <1>2, <1>4, <1>5, <1>6, <1>9 DEF Becomes, Upload!Register, Upload!WaitForFile, Upload!GoOn
  <2> HIDE DEF s, p, e, f, r, q, j, w, a, k
  <2>2. Known(s, p, e, f, r, q, [pc |-> "discard", meta |-> j.meta], Append(Tail(w), "discard"), a, k)
    BY <1>1, <1>2, <1>4, <1>5, <1>6, <1>9, RequestFacts, QueueFacts, SessionFacts, JobFacts DEF Known,
        Upload!FileWorks
  <2>3. Waits(Append(Tail(w), "discard"), ([pc |-> "discard", meta |-> j.meta]).pc)
        /\ DeletesAreAsked(Append(Tail(w), "discard"), k)
    BY <1>1, <1>2, <1>4, <1>5, <1>6, <1>9, OneJoins, DeletesStayAsked, JobFacts DEF Known, Waiting, Upload!FileWorks
  <2>4. /\ Whole(s, r) /\ Owns(s, r, q, [pc |-> "discard", meta |-> j.meta])
        /\ Listed(s, f, r, q, Append(Tail(w), "discard"), a) /\ Counted(s, p)
    BY <1>1, <1>2, <1>4, <1>5, <1>6, <1>9, SessionFacts, JobFacts, RequestFacts DEF Known, Whole, Owns, Listed,
        Counted
  <2>5. Good(s, p, f, r, q, [pc |-> "discard", meta |-> j.meta], Append(Tail(w), "discard"), a, k)
    BY <2>3, <2>4 DEF Good
  <2> QED
    BY <2>1, <2>2, <2>5, OneUploadMoves
<1> QED
  BY <1>7, <1>8, <1>9, <1>4, <1>5, <1>6 DEF Upload!Register

\* The receipt of an upload is finished, or an error stops that.
LEMMA FinishReceiptKeepsUploads ==
    ASSUME Upload!TypeOK, \A v \in Uploads : UploadIsGood(v), NEW u \in Uploads, NEW n \in 0..3,
           Upload!FinishReceipt(u, n)
    PROVE  Upload!TypeOK' /\ \A v \in Uploads : UploadIsGood(v)'
<1> DEFINE s == session[u]  p == parts[u]  e == expired[u]  f == file[u]  r == record[u]
           q == requests[u]  j == job[u]  w == fileWork[u]  a == added[u]  k == asked[u]
<1> USE DEF Upload!store, Upload!library, Upload!locks
<1>1. Known(s, p, e, f, r, q, j, w, a, k) /\ Good(s, p, f, r, q, j, w, a, k)
  BY GoodAndKnown
<1>2. /\ Whole(s, r) /\ Owns(s, r, q, j) /\ Listed(s, f, r, q, w, a) /\ Counted(s, p)
      /\ Waits(w, j.pc) /\ DeletesAreAsked(w, k)
  BY <1>1 DEF Good
<1>3. session \in [Uploads -> Upload!Sessions \cup {Upload!Absent, Upload!Gone}]
      /\ parts \in [Uploads -> SUBSET Chunks]
      /\ expired \in [Uploads -> BOOLEAN] /\ file \in [Uploads -> BOOLEAN]
          /\ record \in [Uploads -> {"none", "plain", "linked"}]
      /\ requests \in [Uploads -> Seq(Upload!Requests)] /\ job \in [Uploads -> Upload!Jobs]
      /\ fileWork \in [Uploads -> Seq(Upload!FileWorks)] /\ added \in [Uploads -> BOOLEAN]
          /\ asked \in [Uploads -> BOOLEAN]
  BY DEF Upload!TypeOK
<1>4. j # Upload!Idle /\ j.pc \in {"receipt", "replayed"} /\ s \in Upload!Sessions
      /\ j.meta \in Upload!Sessions /\ q # <<>>
  BY <1>1, <1>2, JobFacts, SessionFacts DEF Upload!FinishReceipt, Known, Owns
<1>5. NobodyWaits(w) /\ j.meta.received = Chunks
  BY <1>1, <1>2, <1>4, NobodyIsWaiting DEF Owns, Known, Waiting
<1>6. CASE n = 0 /\ job[u].pc = "receipt"
  <2>1. Becomes(u, s, p, (e /\ (n = 0 \/ j.meta.registered)), f, r, q, [pc |-> "discard", meta |-> j.meta],
        Append(w, "discard"), a, k)
    BY <1>3, <1>1, <1>2, <1>4, <1>5, <1>6 DEF Becomes, Upload!FinishReceipt, Upload!WaitForFile, Upload!GoOn,
        Upload!Finish
  <2> HIDE DEF s, p, e, f, r, q, j, w, a, k
  <2>2. Known(s, p, (e /\ (n = 0 \/ j.meta.registered)), f, r, q, [pc |-> "discard", meta |-> j.meta],
        Append(w, "discard"), a, k)
    BY <1>1, <1>2, <1>4, <1>5, <1>6, RequestFacts, QueueFacts, SessionFacts, JobFacts DEF Known, Upload!FileWorks
  <2>3. Waits(Append(w, "discard"), ([pc |-> "discard", meta |-> j.meta]).pc)
        /\ DeletesAreAsked(Append(w, "discard"), k)
    BY <1>1, <1>2, <1>4, <1>5, <1>6, OneJoins, DeletesStayAsked, JobFacts DEF Known, Waiting, Upload!FileWorks
  <2>4. /\ Whole(s, r) /\ Owns(s, r, q, [pc |-> "discard", meta |-> j.meta])
        /\ Listed(s, f, r, q, Append(w, "discard"), a) /\ Counted(s, p)
    BY <1>1, <1>2, <1>4, <1>5, <1>6, SessionFacts, JobFacts, RequestFacts DEF Known, Whole, Owns, Listed, Counted
  <2>5. Good(s, p, f, r, q, [pc |-> "discard", meta |-> j.meta], Append(w, "discard"), a, k)
    BY <2>3, <2>4 DEF Good
  <2> QED
    BY <2>1, <2>2, <2>5, OneUploadMoves
<1>7. CASE n = 0 /\ job[u].pc # "receipt"
  <2>1. Becomes(u, s, p, (e /\ (n = 0 \/ j.meta.registered)), f, r, Tail(q), Upload!Idle, w, a, k)
    BY <1>3, <1>1, <1>2, <1>4, <1>5, <1>7 DEF Becomes, Upload!FinishReceipt, Upload!WaitForFile, Upload!GoOn,
        Upload!Finish
  <2> HIDE DEF s, p, e, f, r, q, j, w, a, k
  <2>2. Known(s, p, (e /\ (n = 0 \/ j.meta.registered)), f, r, Tail(q), Upload!Idle, w, a, k)
    BY <1>1, <1>2, <1>4, <1>5, <1>7, RequestFacts, QueueFacts, SessionFacts, JobFacts DEF Known, Upload!FileWorks
  <2>3. Waits(w, (Upload!Idle).pc) /\ DeletesAreAsked(w, k)
    BY <1>1, <1>2, <1>4, <1>5, <1>7, NobodyJoined, JobFacts DEF Known, Waiting, Upload!FileWorks
  <2>4. /\ Whole(s, r) /\ Owns(s, r, Tail(q), Upload!Idle)
        /\ Listed(s, f, r, Tail(q), w, a) /\ Counted(s, p)
    BY <1>1, <1>2, <1>4, <1>5, <1>7, SessionFacts, JobFacts, RequestFacts DEF Known, Whole, Owns, Listed, Counted
  <2>5. Good(s, p, f, r, Tail(q), Upload!Idle, w, a, k)
    BY <2>3, <2>4 DEF Good
  <2> QED
    BY <2>1, <2>2, <2>5, OneUploadMoves
<1>8. CASE n = 1 /\ job[u].pc = "receipt"
  <2> DEFINE t == [j.meta EXCEPT !.registered = TRUE]
  <2>1. Becomes(u, t, p, (e /\ (n = 0 \/ j.meta.registered)), f, r, q, [pc |-> "discard", meta |-> j.meta],
        Append(w, "discard"), a, k)
    BY <1>3, <1>1, <1>2, <1>4, <1>5, <1>8 DEF Becomes, Upload!FinishReceipt, Upload!WaitForFile, Upload!GoOn,
        Upload!Finish
  <2>2. s = j.meta /\ ~s.deleted
    BY <1>1, <1>2, <1>4, <1>5, <1>8 DEF Upload!FinishReceipt, Upload!Retired, Owns
  <2>3. t \in Upload!Sessions /\ t.is = "stored" /\ t.received = j.meta.received /\ t.digest = j.meta.digest
        /\ t.registered /\ t.reclaimed = j.meta.reclaimed /\ t.deleted = j.meta.deleted
    BY <1>1, <1>2, <1>4, <1>5, <1>8, <2>2, SessionFlags, SessionFacts
  <2> HIDE DEF s, p, e, f, r, q, j, w, a, k, t
  <2>4. Known(t, p, (e /\ (n = 0 \/ j.meta.registered)), f, r, q, [pc |-> "discard", meta |-> j.meta],
        Append(w, "discard"), a, k)
    BY <1>1, <1>2, <1>4, <1>5, <1>8, <2>2, <2>3, RequestFacts, QueueFacts, SessionFacts, JobFacts DEF Known,
        Upload!FileWorks
  <2>5. Waits(Append(w, "discard"), ([pc |-> "discard", meta |-> j.meta]).pc)
        /\ DeletesAreAsked(Append(w, "discard"), k)
    BY <1>1, <1>2, <1>4, <1>5, <1>8, <2>2, <2>3, OneJoins, DeletesStayAsked, JobFacts DEF Known, Waiting,
        Upload!FileWorks
  <2>6. /\ Whole(t, r) /\ Owns(t, r, q, [pc |-> "discard", meta |-> j.meta])
        /\ Listed(t, f, r, q, Append(w, "discard"), a) /\ Counted(t, p)
    BY <1>1, <1>2, <1>4, <1>5, <1>8, <2>2, <2>3, SessionFacts, JobFacts, RequestFacts DEF Known, Whole, Owns,
        Listed, Counted
  <2>7. Good(t, p, f, r, q, [pc |-> "discard", meta |-> j.meta], Append(w, "discard"), a, k)
    BY <2>5, <2>6 DEF Good
  <2> QED
    BY <2>1, <2>4, <2>7, OneUploadMoves
<1>9. CASE n = 1 /\ job[u].pc # "receipt"
  <2> DEFINE t == [j.meta EXCEPT !.registered = TRUE]
  <2>1. Becomes(u, t, p, (e /\ (n = 0 \/ j.meta.registered)), f, r, Tail(q), Upload!Idle, w, a, k)
    BY <1>3, <1>1, <1>2, <1>4, <1>5, <1>9 DEF Becomes, Upload!FinishReceipt, Upload!WaitForFile, Upload!GoOn,
        Upload!Finish
  <2>2. s = j.meta /\ ~s.deleted
    BY <1>1, <1>2, <1>4, <1>5, <1>9 DEF Upload!FinishReceipt, Upload!Retired, Owns
  <2>3. t \in Upload!Sessions /\ t.is = "stored" /\ t.received = j.meta.received /\ t.digest = j.meta.digest
        /\ t.registered /\ t.reclaimed = j.meta.reclaimed /\ t.deleted = j.meta.deleted
    BY <1>1, <1>2, <1>4, <1>5, <1>9, <2>2, SessionFlags, SessionFacts
  <2> HIDE DEF s, p, e, f, r, q, j, w, a, k, t
  <2>4. Known(t, p, (e /\ (n = 0 \/ j.meta.registered)), f, r, Tail(q), Upload!Idle, w, a, k)
    BY <1>1, <1>2, <1>4, <1>5, <1>9, <2>2, <2>3, RequestFacts, QueueFacts, SessionFacts, JobFacts DEF Known,
        Upload!FileWorks
  <2>5. Waits(w, (Upload!Idle).pc) /\ DeletesAreAsked(w, k)
    BY <1>1, <1>2, <1>4, <1>5, <1>9, <2>2, <2>3, NobodyJoined, JobFacts DEF Known, Waiting, Upload!FileWorks
  <2>6. /\ Whole(t, r) /\ Owns(t, r, Tail(q), Upload!Idle)
        /\ Listed(t, f, r, Tail(q), w, a) /\ Counted(t, p)
    BY <1>1, <1>2, <1>4, <1>5, <1>9, <2>2, <2>3, SessionFacts, JobFacts, RequestFacts DEF Known, Whole, Owns,
        Listed, Counted
  <2>7. Good(t, p, f, r, Tail(q), Upload!Idle, w, a, k)
    BY <2>5, <2>6 DEF Good
  <2> QED
    BY <2>1, <2>4, <2>7, OneUploadMoves
<1>10. CASE n = 2 /\ job[u].pc = "receipt"
  <2> DEFINE t == [j.meta EXCEPT !.registered = TRUE]
  <2>1. Becomes(u, t, {}, (e /\ (n = 0 \/ j.meta.registered)), f, r, q, [pc |-> "discard", meta |-> j.meta],
        Append(w, "discard"), a, k)
    BY <1>3, <1>1, <1>2, <1>4, <1>5, <1>10 DEF Becomes, Upload!FinishReceipt, Upload!WaitForFile, Upload!GoOn,
        Upload!Finish
  <2>2. s = j.meta /\ ~s.deleted
    BY <1>1, <1>2, <1>4, <1>5, <1>10 DEF Upload!FinishReceipt, Upload!Retired, Owns
  <2>3. t \in Upload!Sessions /\ t.is = "stored" /\ t.received = j.meta.received /\ t.digest = j.meta.digest
        /\ t.registered /\ t.reclaimed = j.meta.reclaimed /\ t.deleted = j.meta.deleted
    BY <1>1, <1>2, <1>4, <1>5, <1>10, <2>2, SessionFlags, SessionFacts
  <2> HIDE DEF s, p, e, f, r, q, j, w, a, k, t
  <2>4. Known(t, {}, (e /\ (n = 0 \/ j.meta.registered)), f, r, q, [pc |-> "discard", meta |-> j.meta],
        Append(w, "discard"), a, k)
    BY <1>1, <1>2, <1>4, <1>5, <1>10, <2>2, <2>3, RequestFacts, QueueFacts, SessionFacts, JobFacts DEF Known,
        Upload!FileWorks
  <2>5. Waits(Append(w, "discard"), ([pc |-> "discard", meta |-> j.meta]).pc)
        /\ DeletesAreAsked(Append(w, "discard"), k)
    BY <1>1, <1>2, <1>4, <1>5, <1>10, <2>2, <2>3, OneJoins, DeletesStayAsked, JobFacts DEF Known, Waiting,
        Upload!FileWorks
  <2>6. /\ Whole(t, r) /\ Owns(t, r, q, [pc |-> "discard", meta |-> j.meta])
        /\ Listed(t, f, r, q, Append(w, "discard"), a) /\ Counted(t, {})
    BY <1>1, <1>2, <1>4, <1>5, <1>10, <2>2, <2>3, SessionFacts, JobFacts, RequestFacts DEF Known, Whole, Owns,
        Listed, Counted
  <2>7. Good(t, {}, f, r, q, [pc |-> "discard", meta |-> j.meta], Append(w, "discard"), a, k)
    BY <2>5, <2>6 DEF Good
  <2> QED
    BY <2>1, <2>4, <2>7, OneUploadMoves
<1>11. CASE n = 2 /\ job[u].pc # "receipt"
  <2> DEFINE t == [j.meta EXCEPT !.registered = TRUE]
  <2>1. Becomes(u, t, {}, (e /\ (n = 0 \/ j.meta.registered)), f, r, Tail(q), Upload!Idle, w, a, k)
    BY <1>3, <1>1, <1>2, <1>4, <1>5, <1>11 DEF Becomes, Upload!FinishReceipt, Upload!WaitForFile, Upload!GoOn,
        Upload!Finish
  <2>2. s = j.meta /\ ~s.deleted
    BY <1>1, <1>2, <1>4, <1>5, <1>11 DEF Upload!FinishReceipt, Upload!Retired, Owns
  <2>3. t \in Upload!Sessions /\ t.is = "stored" /\ t.received = j.meta.received /\ t.digest = j.meta.digest
        /\ t.registered /\ t.reclaimed = j.meta.reclaimed /\ t.deleted = j.meta.deleted
    BY <1>1, <1>2, <1>4, <1>5, <1>11, <2>2, SessionFlags, SessionFacts
  <2> HIDE DEF s, p, e, f, r, q, j, w, a, k, t
  <2>4. Known(t, {}, (e /\ (n = 0 \/ j.meta.registered)), f, r, Tail(q), Upload!Idle, w, a, k)
    BY <1>1, <1>2, <1>4, <1>5, <1>11, <2>2, <2>3, RequestFacts, QueueFacts, SessionFacts, JobFacts DEF Known,
        Upload!FileWorks
  <2>5. Waits(w, (Upload!Idle).pc) /\ DeletesAreAsked(w, k)
    BY <1>1, <1>2, <1>4, <1>5, <1>11, <2>2, <2>3, NobodyJoined, JobFacts DEF Known, Waiting, Upload!FileWorks
  <2>6. /\ Whole(t, r) /\ Owns(t, r, Tail(q), Upload!Idle)
        /\ Listed(t, f, r, Tail(q), w, a) /\ Counted(t, {})
    BY <1>1, <1>2, <1>4, <1>5, <1>11, <2>2, <2>3, SessionFacts, JobFacts, RequestFacts DEF Known, Whole, Owns,
        Listed, Counted
  <2>7. Good(t, {}, f, r, Tail(q), Upload!Idle, w, a, k)
    BY <2>5, <2>6 DEF Good
  <2> QED
    BY <2>1, <2>4, <2>7, OneUploadMoves
<1>12. CASE n = 3
  <2> DEFINE t == [j.meta EXCEPT !.registered = TRUE]
  <2> DEFINE t3 == [t EXCEPT !.reclaimed = TRUE]
  <2>1. Becomes(u, t3, {}, (e /\ (n = 0 \/ j.meta.registered)), f, r, Tail(q), Upload!Idle, w, a, k)
    BY <1>3, <1>1, <1>2, <1>4, <1>5, <1>12 DEF Becomes, Upload!FinishReceipt, Upload!WaitForFile, Upload!GoOn,
        Upload!Finish
  <2>2. s = j.meta /\ ~s.deleted
    BY <1>1, <1>2, <1>4, <1>5, <1>12 DEF Upload!FinishReceipt, Upload!Retired, Owns
  <2>3. t \in Upload!Sessions /\ t.is = "stored" /\ t.received = j.meta.received /\ t.digest = j.meta.digest
        /\ t.registered /\ t.reclaimed = j.meta.reclaimed /\ t.deleted = j.meta.deleted
    BY <1>1, <1>2, <1>4, <1>5, <1>12, <2>2, SessionFlags, SessionFacts
  <2>4. t3 \in Upload!Sessions /\ t3.is = "stored" /\ t3.received = t.received /\ t3.digest = t.digest
        /\ t3.registered = t.registered /\ t3.reclaimed /\ t3.deleted = t.deleted
    BY <1>1, <1>2, <1>4, <1>5, <1>12, <2>2, <2>3, SessionFlags, SessionFacts
  <2> HIDE DEF s, p, e, f, r, q, j, w, a, k, t, t3
  <2>5. Known(t3, {}, (e /\ (n = 0 \/ j.meta.registered)), f, r, Tail(q), Upload!Idle, w, a, k)
    BY <1>1, <1>2, <1>4, <1>5, <1>12, <2>2, <2>3, <2>4, RequestFacts, QueueFacts, SessionFacts,
        JobFacts DEF Known, Upload!FileWorks
  <2>6. Waits(w, (Upload!Idle).pc) /\ DeletesAreAsked(w, k)
    BY <1>1, <1>2, <1>4, <1>5, <1>12, <2>2, <2>3, <2>4, NobodyJoined, JobFacts DEF Known, Waiting, Upload!FileWorks
  <2>7. /\ Whole(t3, r) /\ Owns(t3, r, Tail(q), Upload!Idle)
        /\ Listed(t3, f, r, Tail(q), w, a) /\ Counted(t3, {})
    BY <1>1, <1>2, <1>4, <1>5, <1>12, <2>2, <2>3, <2>4, SessionFacts, JobFacts, RequestFacts DEF Known, Whole,
        Owns, Listed, Counted
  <2>8. Good(t3, {}, f, r, Tail(q), Upload!Idle, w, a, k)
    BY <2>6, <2>7 DEF Good
  <2> QED
    BY <2>1, <2>5, <2>8, OneUploadMoves
<1> QED
  BY <1>6, <1>7, <1>8, <1>9, <1>10, <1>11, <1>12, <1>4, <1>5 DEF Upload!FinishReceipt

\* What was not accepted is discarded.
LEMMA DiscardKeepsUploads ==
    ASSUME Upload!TypeOK, \A v \in Uploads : UploadIsGood(v), NEW u \in Uploads, Upload!Discard(u)
    PROVE  Upload!TypeOK' /\ \A v \in Uploads : UploadIsGood(v)'
<1> DEFINE s == session[u]  p == parts[u]  e == expired[u]  f == file[u]  r == record[u]
           q == requests[u]  j == job[u]  w == fileWork[u]  a == added[u]  k == asked[u]
<1> USE DEF Upload!store, Upload!library, Upload!locks
<1>1. Known(s, p, e, f, r, q, j, w, a, k) /\ Good(s, p, f, r, q, j, w, a, k)
  BY GoodAndKnown
<1>2. /\ Whole(s, r) /\ Owns(s, r, q, j) /\ Listed(s, f, r, q, w, a) /\ Counted(s, p)
      /\ Waits(w, j.pc) /\ DeletesAreAsked(w, k)
  BY <1>1 DEF Good
<1>3. session \in [Uploads -> Upload!Sessions \cup {Upload!Absent, Upload!Gone}]
      /\ parts \in [Uploads -> SUBSET Chunks]
      /\ expired \in [Uploads -> BOOLEAN] /\ file \in [Uploads -> BOOLEAN]
          /\ record \in [Uploads -> {"none", "plain", "linked"}]
      /\ requests \in [Uploads -> Seq(Upload!Requests)] /\ job \in [Uploads -> Upload!Jobs]
      /\ fileWork \in [Uploads -> Seq(Upload!FileWorks)] /\ added \in [Uploads -> BOOLEAN]
          /\ asked \in [Uploads -> BOOLEAN]
  BY DEF Upload!TypeOK
<1>4. w # <<>> /\ Head(w) = "discard" /\ Tail(w) \in Seq(Upload!FileWorks)
  BY <1>1, QueueFacts DEF Upload!Discard, Upload!OwnsFile, Known
<1>5. j.pc = Head(w) /\ NobodyWaits(Tail(w)) /\ j # Upload!Idle /\ DeletesAreAsked(Tail(w), k)
  BY <1>1, <1>2, <1>4, NobodyWaitsBehind, DeletesStayAsked, JobFacts DEF Waiting, Known
<1>6. q # <<>>
  BY <1>1, <1>2, <1>5, JobFacts DEF Known, Owns
<1>7. Becomes(u, s, p, e, (f /\ r # "none"), r, Tail(q), Upload!Idle, Tail(w), a, k)
  BY <1>3, <1>1, <1>2, <1>4, <1>5, <1>6 DEF Becomes, Upload!Discard, Upload!Finish
<1> HIDE DEF s, p, e, f, r, q, j, w, a, k
<1>8. Known(s, p, e, (f /\ r # "none"), r, Tail(q), Upload!Idle, Tail(w), a, k)
  BY <1>1, <1>2, <1>4, <1>5, <1>6, RequestFacts, QueueFacts, SessionFacts, JobFacts DEF Known, Upload!FileWorks
<1>9. Waits(Tail(w), (Upload!Idle).pc) /\ DeletesAreAsked(Tail(w), k)
  BY <1>1, <1>2, <1>4, <1>5, <1>6, NobodyJoined, JobFacts DEF Known, Waiting, Upload!FileWorks
<1>10. /\ Whole(s, r) /\ Owns(s, r, Tail(q), Upload!Idle)
      /\ Listed(s, (f /\ r # "none"), r, Tail(q), Tail(w), a) /\ Counted(s, p)
  BY <1>1, <1>2, <1>4, <1>5, <1>6, SessionFacts, JobFacts, RequestFacts DEF Known, Whole, Owns, Listed, Counted
<1>11. Good(s, p, (f /\ r # "none"), r, Tail(q), Upload!Idle, Tail(w), a, k)
  BY <1>9, <1>10 DEF Good
<1> QED
  BY <1>7, <1>8, <1>11, OneUploadMoves

\* A session is cancelled.
LEMMA CancelKeepsUploads ==
    ASSUME Upload!TypeOK, \A v \in Uploads : UploadIsGood(v), NEW u \in Uploads, Upload!Cancel(u)
    PROVE  Upload!TypeOK' /\ \A v \in Uploads : UploadIsGood(v)'
<1> DEFINE s == session[u]  p == parts[u]  e == expired[u]  f == file[u]  r == record[u]
           q == requests[u]  j == job[u]  w == fileWork[u]  a == added[u]  k == asked[u]
<1> USE DEF Upload!store, Upload!library, Upload!locks
<1>1. Known(s, p, e, f, r, q, j, w, a, k) /\ Good(s, p, f, r, q, j, w, a, k)
  BY GoodAndKnown
<1>2. /\ Whole(s, r) /\ Owns(s, r, q, j) /\ Listed(s, f, r, q, w, a) /\ Counted(s, p)
      /\ Waits(w, j.pc) /\ DeletesAreAsked(w, k)
  BY <1>1 DEF Good
<1>3. session \in [Uploads -> Upload!Sessions \cup {Upload!Absent, Upload!Gone}]
      /\ parts \in [Uploads -> SUBSET Chunks]
      /\ expired \in [Uploads -> BOOLEAN] /\ file \in [Uploads -> BOOLEAN]
          /\ record \in [Uploads -> {"none", "plain", "linked"}]
      /\ requests \in [Uploads -> Seq(Upload!Requests)] /\ job \in [Uploads -> Upload!Jobs]
      /\ fileWork \in [Uploads -> Seq(Upload!FileWorks)] /\ added \in [Uploads -> BOOLEAN]
          /\ asked \in [Uploads -> BOOLEAN]
  BY DEF Upload!TypeOK
<1>4. q # <<>> /\ j = Upload!Idle /\ Head(q).kind = "cancel" /\ Head(q) \in Upload!Requests
  BY <1>1, QueueFacts DEF Upload!Cancel, Upload!Ready, Known
<1>5. Upload!Stored(u) <=> s \in Upload!Sessions
  BY UploadTypes
<1>6. CASE Upload!Stored(u)
  <2>1. Becomes(u, Upload!Gone, {}, e, f, r, Tail(q), Upload!Idle, w, a, k)
    BY <1>3, <1>1, <1>2, <1>4, <1>5, <1>6 DEF Becomes, Upload!Cancel, Upload!Remove, Upload!Finish
  <2> HIDE DEF s, p, e, f, r, q, j, w, a, k
  <2>2. Known(Upload!Gone, {}, e, f, r, Tail(q), Upload!Idle, w, a, k)
    BY <1>1, <1>2, <1>4, <1>5, <1>6, RequestFacts, QueueFacts, SessionFacts, JobFacts DEF Known, Upload!FileWorks
  <2>3. Waits(w, (Upload!Idle).pc) /\ DeletesAreAsked(w, k)
    BY <1>1, <1>2, <1>4, <1>5, <1>6, JobFacts DEF Known, Waiting, Upload!FileWorks
  <2>4. /\ Whole(Upload!Gone, r) /\ Owns(Upload!Gone, r, Tail(q), Upload!Idle)
        /\ Listed(Upload!Gone, f, r, Tail(q), w, a) /\ Counted(Upload!Gone, {})
    BY <1>1, <1>2, <1>4, <1>5, <1>6, SessionFacts, JobFacts, RequestFacts DEF Known, Whole, Owns, Listed, Counted
  <2>5. Good(Upload!Gone, {}, f, r, Tail(q), Upload!Idle, w, a, k)
    BY <2>3, <2>4 DEF Good
  <2> QED
    BY <2>1, <2>2, <2>5, OneUploadMoves
<1>7. CASE ~Upload!Stored(u)
  <2>1. Becomes(u, s, p, e, f, r, Tail(q), Upload!Idle, w, a, k)
    BY <1>3, <1>1, <1>2, <1>4, <1>5, <1>7 DEF Becomes, Upload!Cancel, Upload!Finish
  <2> HIDE DEF s, p, e, f, r, q, j, w, a, k
  <2>2. Known(s, p, e, f, r, Tail(q), Upload!Idle, w, a, k)
    BY <1>1, <1>2, <1>4, <1>5, <1>7, RequestFacts, QueueFacts, SessionFacts, JobFacts DEF Known, Upload!FileWorks
  <2>3. Waits(w, (Upload!Idle).pc) /\ DeletesAreAsked(w, k)
    BY <1>1, <1>2, <1>4, <1>5, <1>7, JobFacts DEF Known, Waiting, Upload!FileWorks
  <2>4. /\ Whole(s, r) /\ Owns(s, r, Tail(q), Upload!Idle)
        /\ Listed(s, f, r, Tail(q), w, a) /\ Counted(s, p)
    BY <1>1, <1>2, <1>4, <1>5, <1>7, SessionFacts, JobFacts, RequestFacts DEF Known, Whole, Owns, Listed, Counted
  <2>5. Good(s, p, f, r, Tail(q), Upload!Idle, w, a, k)
    BY <2>3, <2>4 DEF Good
  <2> QED
    BY <2>1, <2>2, <2>5, OneUploadMoves
<1> QED
  BY <1>6, <1>7, <1>4, <1>5 DEF Upload!Cancel

\* An operator deletes the file.
LEMMA DeleteKeepsUploads ==
    ASSUME Upload!TypeOK, \A v \in Uploads : UploadIsGood(v), NEW u \in Uploads, NEW n \in 0..5, Upload!Delete(u, n)
    PROVE  Upload!TypeOK' /\ \A v \in Uploads : UploadIsGood(v)'
<1> DEFINE s == session[u]  p == parts[u]  e == expired[u]  f == file[u]  r == record[u]
           q == requests[u]  j == job[u]  w == fileWork[u]  a == added[u]  k == asked[u]
<1> USE DEF Upload!store, Upload!library, Upload!locks
<1>1. Known(s, p, e, f, r, q, j, w, a, k) /\ Good(s, p, f, r, q, j, w, a, k)
  BY GoodAndKnown
<1>2. /\ Whole(s, r) /\ Owns(s, r, q, j) /\ Listed(s, f, r, q, w, a) /\ Counted(s, p)
      /\ Waits(w, j.pc) /\ DeletesAreAsked(w, k)
  BY <1>1 DEF Good
<1>3. session \in [Uploads -> Upload!Sessions \cup {Upload!Absent, Upload!Gone}]
      /\ parts \in [Uploads -> SUBSET Chunks]
      /\ expired \in [Uploads -> BOOLEAN] /\ file \in [Uploads -> BOOLEAN]
          /\ record \in [Uploads -> {"none", "plain", "linked"}]
      /\ requests \in [Uploads -> Seq(Upload!Requests)] /\ job \in [Uploads -> Upload!Jobs]
      /\ fileWork \in [Uploads -> Seq(Upload!FileWorks)] /\ added \in [Uploads -> BOOLEAN]
          /\ asked \in [Uploads -> BOOLEAN]
  BY DEF Upload!TypeOK
<1>4. w # <<>> /\ Head(w) = "delete" /\ Tail(w) \in Seq(Upload!FileWorks)
  BY <1>1, QueueFacts DEF Upload!Delete, Upload!OwnsFile, Known
<1>5. Upload!Stored(u) <=> s \in Upload!Sessions
  BY UploadTypes
<1>6. k
  BY <1>1, <1>2, <1>4, DeletesStayAsked DEF Known
<1>7. CASE ~(record[u] = "linked" /\ Upload!Stored(u)) /\ n = 5
  <2>1. Becomes(u, s, p, e, (f /\ n < 4), "none", q, j, Tail(w), a, k)
    BY <1>3, <1>1, <1>2, <1>4, <1>5, <1>6, <1>7 DEF Becomes, Upload!Delete
  <2>2. s.is = "stored" => r # "linked"
    BY <1>1, <1>2, <1>4, <1>5, <1>6, <1>7, SessionFacts DEF Known
  <2> HIDE DEF s, p, e, f, r, q, j, w, a, k
  <2>3. Known(s, p, e, (f /\ n < 4), "none", q, j, Tail(w), a, k)
    BY <1>1, <1>2, <1>4, <1>5, <1>6, <1>7, <2>2, RequestFacts, QueueFacts, SessionFacts, JobFacts DEF Known,
        Upload!FileWorks
  <2>4. Waits(Tail(w), j.pc) /\ DeletesAreAsked(Tail(w), k)
    BY <1>1, <1>2, <1>4, <1>5, <1>6, <1>7, <2>2, OneLeaves, DeletesStayAsked, JobFacts DEF Known, Waiting,
        Upload!FileWorks
  <2>5. /\ Whole(s, "none") /\ Owns(s, "none", q, j)
        /\ Listed(s, (f /\ n < 4), "none", q, Tail(w), a) /\ Counted(s, p)
    BY <1>1, <1>2, <1>4, <1>5, <1>6, <1>7, <2>2, SessionFacts, JobFacts, RequestFacts DEF Known, Whole, Owns,
        Listed, Counted
  <2>6. Good(s, p, (f /\ n < 4), "none", q, j, Tail(w), a, k)
    BY <2>4, <2>5 DEF Good
  <2> QED
    BY <2>1, <2>3, <2>6, OneUploadMoves
<1>8. CASE ~(record[u] = "linked" /\ Upload!Stored(u)) /\ n # 5
  <2>1. Becomes(u, s, p, e, (f /\ n < 4), r, q, j, Tail(w), a, k)
    BY <1>3, <1>1, <1>2, <1>4, <1>5, <1>6, <1>8 DEF Becomes, Upload!Delete
  <2>2. s.is = "stored" => r # "linked"
    BY <1>1, <1>2, <1>4, <1>5, <1>6, <1>8, SessionFacts DEF Known
  <2>3. n \in {3, 4}
    BY <1>1, <1>2, <1>4, <1>5, <1>6, <1>8, <2>2 DEF Upload!Delete
  <2> HIDE DEF s, p, e, f, r, q, j, w, a, k
  <2>4. Known(s, p, e, (f /\ n < 4), r, q, j, Tail(w), a, k)
    BY <1>1, <1>2, <1>4, <1>5, <1>6, <1>8, <2>2, <2>3, RequestFacts, QueueFacts, SessionFacts,
        JobFacts DEF Known, Upload!FileWorks
  <2>5. Waits(Tail(w), j.pc) /\ DeletesAreAsked(Tail(w), k)
    BY <1>1, <1>2, <1>4, <1>5, <1>6, <1>8, <2>2, <2>3, OneLeaves, DeletesStayAsked, JobFacts DEF Known, Waiting,
        Upload!FileWorks
  <2>6. /\ Whole(s, r) /\ Owns(s, r, q, j)
        /\ Listed(s, (f /\ n < 4), r, q, Tail(w), a) /\ Counted(s, p)
    BY <1>1, <1>2, <1>4, <1>5, <1>6, <1>8, <2>2, <2>3, SessionFacts, JobFacts, RequestFacts DEF Known, Whole,
        Owns, Listed, Counted
  <2>7. Good(s, p, (f /\ n < 4), r, q, j, Tail(w), a, k)
    BY <2>5, <2>6 DEF Good
  <2> QED
    BY <2>1, <2>4, <2>7, OneUploadMoves
<1>9. CASE record[u] = "linked" /\ Upload!Stored(u) /\ n = 0
  <2>1. Becomes(u, s, p, e, (f /\ n < 4), r, q, j, Tail(w), a, k)
    BY <1>3, <1>1, <1>2, <1>4, <1>5, <1>6, <1>9 DEF Becomes, Upload!Delete
  <2>2. s \in Upload!Sessions /\ s.is = "stored" /\ r = "linked" /\ s.digest /\ s.received = Chunks
    BY <1>1, <1>2, <1>4, <1>5, <1>6, <1>9, SessionFacts DEF Whole
  <2> HIDE DEF s, p, e, f, r, q, j, w, a, k
  <2>3. Known(s, p, e, (f /\ n < 4), r, q, j, Tail(w), a, k)
    BY <1>1, <1>2, <1>4, <1>5, <1>6, <1>9, <2>2, RequestFacts, QueueFacts, SessionFacts, JobFacts DEF Known,
        Upload!FileWorks
  <2>4. Waits(Tail(w), j.pc) /\ DeletesAreAsked(Tail(w), k)
    BY <1>1, <1>2, <1>4, <1>5, <1>6, <1>9, <2>2, OneLeaves, DeletesStayAsked, JobFacts DEF Known, Waiting,
        Upload!FileWorks
  <2>5. /\ Whole(s, r) /\ Owns(s, r, q, j)
        /\ Listed(s, (f /\ n < 4), r, q, Tail(w), a) /\ Counted(s, p)
    BY <1>1, <1>2, <1>4, <1>5, <1>6, <1>9, <2>2, SessionFacts, JobFacts, RequestFacts DEF Known, Whole, Owns,
        Listed, Counted
  <2>6. Good(s, p, (f /\ n < 4), r, q, j, Tail(w), a, k)
    BY <2>4, <2>5 DEF Good
  <2> QED
    BY <2>1, <2>3, <2>6, OneUploadMoves
<1>10. CASE record[u] = "linked" /\ Upload!Stored(u) /\ n = 1
  <2> DEFINE t == [s EXCEPT !.deleted = TRUE]
  <2>1. Becomes(u, t, p, e, (f /\ n < 4), r, q, j, Tail(w), a, k)
    BY <1>3, <1>1, <1>2, <1>4, <1>5, <1>6, <1>10 DEF Becomes, Upload!Delete
  <2>2. s \in Upload!Sessions /\ s.is = "stored" /\ r = "linked" /\ s.digest /\ s.received = Chunks
    BY <1>1, <1>2, <1>4, <1>5, <1>6, <1>10, SessionFacts DEF Whole
  <2>3. t \in Upload!Sessions /\ t.is = "stored" /\ t.received = s.received /\ t.digest = s.digest
        /\ t.registered = s.registered /\ t.reclaimed = s.reclaimed /\ t.deleted
    BY <1>1, <1>2, <1>4, <1>5, <1>6, <1>10, <2>2, SessionFlags, SessionFacts
  <2> HIDE DEF s, p, e, f, r, q, j, w, a, k, t
  <2>4. Known(t, p, e, (f /\ n < 4), r, q, j, Tail(w), a, k)
    BY <1>1, <1>2, <1>4, <1>5, <1>6, <1>10, <2>2, <2>3, RequestFacts, QueueFacts, SessionFacts,
        JobFacts DEF Known, Upload!FileWorks
  <2>5. Waits(Tail(w), j.pc) /\ DeletesAreAsked(Tail(w), k)
    BY <1>1, <1>2, <1>4, <1>5, <1>6, <1>10, <2>2, <2>3, OneLeaves, DeletesStayAsked, JobFacts DEF Known, Waiting,
        Upload!FileWorks
  <2>6. /\ Whole(t, r) /\ Owns(t, r, q, j)
        /\ Listed(t, (f /\ n < 4), r, q, Tail(w), a) /\ Counted(t, p)
    BY <1>1, <1>2, <1>4, <1>5, <1>6, <1>10, <2>2, <2>3, SessionFacts, JobFacts, RequestFacts DEF Known, Whole,
        Owns, Listed, Counted
  <2>7. Good(t, p, (f /\ n < 4), r, q, j, Tail(w), a, k)
    BY <2>5, <2>6 DEF Good
  <2> QED
    BY <2>1, <2>4, <2>7, OneUploadMoves
<1>11. CASE record[u] = "linked" /\ Upload!Stored(u) /\ n = 2
  <2> DEFINE t == [s EXCEPT !.deleted = TRUE]
  <2>1. Becomes(u, t, {}, e, (f /\ n < 4), r, q, j, Tail(w), a, k)
    BY <1>3, <1>1, <1>2, <1>4, <1>5, <1>6, <1>11 DEF Becomes, Upload!Delete
  <2>2. s \in Upload!Sessions /\ s.is = "stored" /\ r = "linked" /\ s.digest /\ s.received = Chunks
    BY <1>1, <1>2, <1>4, <1>5, <1>6, <1>11, SessionFacts DEF Whole
  <2>3. t \in Upload!Sessions /\ t.is = "stored" /\ t.received = s.received /\ t.digest = s.digest
        /\ t.registered = s.registered /\ t.reclaimed = s.reclaimed /\ t.deleted
    BY <1>1, <1>2, <1>4, <1>5, <1>6, <1>11, <2>2, SessionFlags, SessionFacts
  <2> HIDE DEF s, p, e, f, r, q, j, w, a, k, t
  <2>4. Known(t, {}, e, (f /\ n < 4), r, q, j, Tail(w), a, k)
    BY <1>1, <1>2, <1>4, <1>5, <1>6, <1>11, <2>2, <2>3, RequestFacts, QueueFacts, SessionFacts,
        JobFacts DEF Known, Upload!FileWorks
  <2>5. Waits(Tail(w), j.pc) /\ DeletesAreAsked(Tail(w), k)
    BY <1>1, <1>2, <1>4, <1>5, <1>6, <1>11, <2>2, <2>3, OneLeaves, DeletesStayAsked, JobFacts DEF Known, Waiting,
        Upload!FileWorks
  <2>6. /\ Whole(t, r) /\ Owns(t, r, q, j)
        /\ Listed(t, (f /\ n < 4), r, q, Tail(w), a) /\ Counted(t, {})
    BY <1>1, <1>2, <1>4, <1>5, <1>6, <1>11, <2>2, <2>3, SessionFacts, JobFacts, RequestFacts DEF Known, Whole,
        Owns, Listed, Counted
  <2>7. Good(t, {}, (f /\ n < 4), r, q, j, Tail(w), a, k)
    BY <2>5, <2>6 DEF Good
  <2> QED
    BY <2>1, <2>4, <2>7, OneUploadMoves
<1>12. CASE record[u] = "linked" /\ Upload!Stored(u) /\ n = 3
  <2> DEFINE t == [s EXCEPT !.deleted = TRUE]
  <2> DEFINE t3 == [t EXCEPT !.reclaimed = TRUE]
  <2>1. Becomes(u, t3, {}, e, (f /\ n < 4), r, q, j, Tail(w), a, k)
    BY <1>3, <1>1, <1>2, <1>4, <1>5, <1>6, <1>12 DEF Becomes, Upload!Delete
  <2>2. s \in Upload!Sessions /\ s.is = "stored" /\ r = "linked" /\ s.digest /\ s.received = Chunks
    BY <1>1, <1>2, <1>4, <1>5, <1>6, <1>12, SessionFacts DEF Whole
  <2>3. t \in Upload!Sessions /\ t.is = "stored" /\ t.received = s.received /\ t.digest = s.digest
        /\ t.registered = s.registered /\ t.reclaimed = s.reclaimed /\ t.deleted
    BY <1>1, <1>2, <1>4, <1>5, <1>6, <1>12, <2>2, SessionFlags, SessionFacts
  <2>4. t3 \in Upload!Sessions /\ t3.is = "stored" /\ t3.received = t.received /\ t3.digest = t.digest
        /\ t3.registered = t.registered /\ t3.reclaimed /\ t3.deleted = t.deleted
    BY <1>1, <1>2, <1>4, <1>5, <1>6, <1>12, <2>2, <2>3, SessionFlags, SessionFacts
  <2> HIDE DEF s, p, e, f, r, q, j, w, a, k, t, t3
  <2>5. Known(t3, {}, e, (f /\ n < 4), r, q, j, Tail(w), a, k)
    BY <1>1, <1>2, <1>4, <1>5, <1>6, <1>12, <2>2, <2>3, <2>4, RequestFacts, QueueFacts, SessionFacts,
        JobFacts DEF Known, Upload!FileWorks
  <2>6. Waits(Tail(w), j.pc) /\ DeletesAreAsked(Tail(w), k)
    BY <1>1, <1>2, <1>4, <1>5, <1>6, <1>12, <2>2, <2>3, <2>4, OneLeaves, DeletesStayAsked, JobFacts DEF Known,
        Waiting, Upload!FileWorks
  <2>7. /\ Whole(t3, r) /\ Owns(t3, r, q, j)
        /\ Listed(t3, (f /\ n < 4), r, q, Tail(w), a) /\ Counted(t3, {})
    BY <1>1, <1>2, <1>4, <1>5, <1>6, <1>12, <2>2, <2>3, <2>4, SessionFacts, JobFacts, RequestFacts DEF Known,
        Whole, Owns, Listed, Counted
  <2>8. Good(t3, {}, (f /\ n < 4), r, q, j, Tail(w), a, k)
    BY <2>6, <2>7 DEF Good
  <2> QED
    BY <2>1, <2>5, <2>8, OneUploadMoves
<1>13. CASE record[u] = "linked" /\ Upload!Stored(u) /\ n = 4
  <2> DEFINE t == [s EXCEPT !.deleted = TRUE]
  <2> DEFINE t3 == [t EXCEPT !.reclaimed = TRUE]
  <2>1. Becomes(u, t3, {}, e, (f /\ n < 4), r, q, j, Tail(w), a, k)
    BY <1>3, <1>1, <1>2, <1>4, <1>5, <1>6, <1>13 DEF Becomes, Upload!Delete
  <2>2. s \in Upload!Sessions /\ s.is = "stored" /\ r = "linked" /\ s.digest /\ s.received = Chunks
    BY <1>1, <1>2, <1>4, <1>5, <1>6, <1>13, SessionFacts DEF Whole
  <2>3. t \in Upload!Sessions /\ t.is = "stored" /\ t.received = s.received /\ t.digest = s.digest
        /\ t.registered = s.registered /\ t.reclaimed = s.reclaimed /\ t.deleted
    BY <1>1, <1>2, <1>4, <1>5, <1>6, <1>13, <2>2, SessionFlags, SessionFacts
  <2>4. t3 \in Upload!Sessions /\ t3.is = "stored" /\ t3.received = t.received /\ t3.digest = t.digest
        /\ t3.registered = t.registered /\ t3.reclaimed /\ t3.deleted = t.deleted
    BY <1>1, <1>2, <1>4, <1>5, <1>6, <1>13, <2>2, <2>3, SessionFlags, SessionFacts
  <2> HIDE DEF s, p, e, f, r, q, j, w, a, k, t, t3
  <2>5. Known(t3, {}, e, (f /\ n < 4), r, q, j, Tail(w), a, k)
    BY <1>1, <1>2, <1>4, <1>5, <1>6, <1>13, <2>2, <2>3, <2>4, RequestFacts, QueueFacts, SessionFacts,
        JobFacts DEF Known, Upload!FileWorks
  <2>6. Waits(Tail(w), j.pc) /\ DeletesAreAsked(Tail(w), k)
    BY <1>1, <1>2, <1>4, <1>5, <1>6, <1>13, <2>2, <2>3, <2>4, OneLeaves, DeletesStayAsked, JobFacts DEF Known,
        Waiting, Upload!FileWorks
  <2>7. /\ Whole(t3, r) /\ Owns(t3, r, q, j)
        /\ Listed(t3, (f /\ n < 4), r, q, Tail(w), a) /\ Counted(t3, {})
    BY <1>1, <1>2, <1>4, <1>5, <1>6, <1>13, <2>2, <2>3, <2>4, SessionFacts, JobFacts, RequestFacts DEF Known,
        Whole, Owns, Listed, Counted
  <2>8. Good(t3, {}, (f /\ n < 4), r, q, j, Tail(w), a, k)
    BY <2>6, <2>7 DEF Good
  <2> QED
    BY <2>1, <2>5, <2>8, OneUploadMoves
<1>14. CASE record[u] = "linked" /\ Upload!Stored(u) /\ n = 5
  <2> DEFINE t == [s EXCEPT !.deleted = TRUE]
  <2> DEFINE t3 == [t EXCEPT !.reclaimed = TRUE]
  <2>1. Becomes(u, t3, {}, e, (f /\ n < 4), "none", q, j, Tail(w), a, k)
    BY <1>3, <1>1, <1>2, <1>4, <1>5, <1>6, <1>14 DEF Becomes, Upload!Delete
  <2>2. s \in Upload!Sessions /\ s.is = "stored" /\ r = "linked" /\ s.digest /\ s.received = Chunks
    BY <1>1, <1>2, <1>4, <1>5, <1>6, <1>14, SessionFacts DEF Whole
  <2>3. t \in Upload!Sessions /\ t.is = "stored" /\ t.received = s.received /\ t.digest = s.digest
        /\ t.registered = s.registered /\ t.reclaimed = s.reclaimed /\ t.deleted
    BY <1>1, <1>2, <1>4, <1>5, <1>6, <1>14, <2>2, SessionFlags, SessionFacts
  <2>4. t3 \in Upload!Sessions /\ t3.is = "stored" /\ t3.received = t.received /\ t3.digest = t.digest
        /\ t3.registered = t.registered /\ t3.reclaimed /\ t3.deleted = t.deleted
    BY <1>1, <1>2, <1>4, <1>5, <1>6, <1>14, <2>2, <2>3, SessionFlags, SessionFacts
  <2> HIDE DEF s, p, e, f, r, q, j, w, a, k, t, t3
  <2>5. Known(t3, {}, e, (f /\ n < 4), "none", q, j, Tail(w), a, k)
    BY <1>1, <1>2, <1>4, <1>5, <1>6, <1>14, <2>2, <2>3, <2>4, RequestFacts, QueueFacts, SessionFacts,
        JobFacts DEF Known, Upload!FileWorks
  <2>6. Waits(Tail(w), j.pc) /\ DeletesAreAsked(Tail(w), k)
    BY <1>1, <1>2, <1>4, <1>5, <1>6, <1>14, <2>2, <2>3, <2>4, OneLeaves, DeletesStayAsked, JobFacts DEF Known,
        Waiting, Upload!FileWorks
  <2>7. /\ Whole(t3, "none") /\ Owns(t3, "none", q, j)
        /\ Listed(t3, (f /\ n < 4), "none", q, Tail(w), a) /\ Counted(t3, {})
    BY <1>1, <1>2, <1>4, <1>5, <1>6, <1>14, <2>2, <2>3, <2>4, SessionFacts, JobFacts, RequestFacts DEF Known,
        Whole, Owns, Listed, Counted
  <2>8. Good(t3, {}, (f /\ n < 4), "none", q, j, Tail(w), a, k)
    BY <2>6, <2>7 DEF Good
  <2> QED
    BY <2>1, <2>5, <2>8, OneUploadMoves
<1> QED
  BY <1>7, <1>8, <1>9, <1>10, <1>11, <1>12, <1>13, <1>14, <1>4, <1>5, <1>6 DEF Upload!Delete

\* An operator asks for a conversion.
LEMMA ConvertKeepsUploads ==
    ASSUME Upload!TypeOK, \A v \in Uploads : UploadIsGood(v), NEW u \in Uploads, Upload!Convert(u)
    PROVE  Upload!TypeOK' /\ \A v \in Uploads : UploadIsGood(v)'
<1> DEFINE s == session[u]  p == parts[u]  e == expired[u]  f == file[u]  r == record[u]
           q == requests[u]  j == job[u]  w == fileWork[u]  a == added[u]  k == asked[u]
<1> USE DEF Upload!store, Upload!library, Upload!locks
<1>1. Known(s, p, e, f, r, q, j, w, a, k) /\ Good(s, p, f, r, q, j, w, a, k)
  BY GoodAndKnown
<1>2. /\ Whole(s, r) /\ Owns(s, r, q, j) /\ Listed(s, f, r, q, w, a) /\ Counted(s, p)
      /\ Waits(w, j.pc) /\ DeletesAreAsked(w, k)
  BY <1>1 DEF Good
<1>3. session \in [Uploads -> Upload!Sessions \cup {Upload!Absent, Upload!Gone}]
      /\ parts \in [Uploads -> SUBSET Chunks]
      /\ expired \in [Uploads -> BOOLEAN] /\ file \in [Uploads -> BOOLEAN]
          /\ record \in [Uploads -> {"none", "plain", "linked"}]
      /\ requests \in [Uploads -> Seq(Upload!Requests)] /\ job \in [Uploads -> Upload!Jobs]
      /\ fileWork \in [Uploads -> Seq(Upload!FileWorks)] /\ added \in [Uploads -> BOOLEAN]
          /\ asked \in [Uploads -> BOOLEAN]
  BY DEF Upload!TypeOK
<1>4. w # <<>> /\ Head(w) = "convert" /\ Tail(w) \in Seq(Upload!FileWorks)
  BY <1>1, QueueFacts DEF Upload!Convert, Upload!OwnsFile, Known
<1>5. CASE file[u] /\ record[u] = "none"
  <2>1. Becomes(u, s, p, e, f, "plain", q, j, Tail(w), a, k)
    BY <1>3, <1>1, <1>2, <1>4, <1>5 DEF Becomes, Upload!Convert
  <2>2. f /\ r = "none"
    BY <1>1, <1>2, <1>4, <1>5
  <2> HIDE DEF s, p, e, f, r, q, j, w, a, k
  <2>3. Known(s, p, e, f, "plain", q, j, Tail(w), a, k)
    BY <1>1, <1>2, <1>4, <1>5, <2>2, RequestFacts, QueueFacts, SessionFacts, JobFacts DEF Known, Upload!FileWorks
  <2>4. Waits(Tail(w), j.pc) /\ DeletesAreAsked(Tail(w), k)
    BY <1>1, <1>2, <1>4, <1>5, <2>2, OneLeaves, DeletesStayAsked, JobFacts DEF Known, Waiting, Upload!FileWorks
  <2>5. /\ Whole(s, "plain") /\ Owns(s, "plain", q, j)
        /\ Listed(s, f, "plain", q, Tail(w), a) /\ Counted(s, p)
    BY <1>1, <1>2, <1>4, <1>5, <2>2, SessionFacts, JobFacts, RequestFacts DEF Known, Whole, Owns, Listed, Counted
  <2>6. Good(s, p, f, "plain", q, j, Tail(w), a, k)
    BY <2>4, <2>5 DEF Good
  <2> QED
    BY <2>1, <2>3, <2>6, OneUploadMoves
<1>6. CASE ~(file[u] /\ record[u] = "none")
  <2>1. Becomes(u, s, p, e, f, r, q, j, Tail(w), a, k)
    BY <1>3, <1>1, <1>2, <1>4, <1>6 DEF Becomes, Upload!Convert
  <2> HIDE DEF s, p, e, f, r, q, j, w, a, k
  <2>2. Known(s, p, e, f, r, q, j, Tail(w), a, k)
    BY <1>1, <1>2, <1>4, <1>6, RequestFacts, QueueFacts, SessionFacts, JobFacts DEF Known, Upload!FileWorks
  <2>3. Waits(Tail(w), j.pc) /\ DeletesAreAsked(Tail(w), k)
    BY <1>1, <1>2, <1>4, <1>6, OneLeaves, DeletesStayAsked, JobFacts DEF Known, Waiting, Upload!FileWorks
  <2>4. /\ Whole(s, r) /\ Owns(s, r, q, j)
        /\ Listed(s, f, r, q, Tail(w), a) /\ Counted(s, p)
    BY <1>1, <1>2, <1>4, <1>6, SessionFacts, JobFacts, RequestFacts DEF Known, Whole, Owns, Listed, Counted
  <2>5. Good(s, p, f, r, q, j, Tail(w), a, k)
    BY <2>3, <2>4 DEF Good
  <2> QED
    BY <2>1, <2>2, <2>5, OneUploadMoves
<1> QED
  BY <1>5, <1>6, <1>4 DEF Upload!Convert

\* Expired sessions that no request owns are removed.
LEMMA RemovedIsGood ==
    ASSUME Upload!TypeOK, NEW v \in Uploads, UploadIsGood(v), v \in Upload!Reclaimable,
           session'[v] = Upload!Gone, parts'[v] = {}, UNCHANGED <<expired, Upload!library, Upload!locks, asked>>
    PROVE  UploadIsGood(v)'
<1> DEFINE s == session[v]  p == parts[v]  e == expired[v]  f == file[v]  r == record[v]
           q == requests[v]  j == job[v]  w == fileWork[v]  a == added[v]  k == asked[v]
<1>1. Known(s, p, e, f, r, q, j, w, a, k) /\ Good(s, p, f, r, q, j, w, a, k) /\ q = <<>>
  BY GoodAndKnown DEF Upload!Reclaimable
<1>2. /\ file'[v] = f /\ record'[v] = r /\ requests'[v] = q /\ job'[v] = j /\ fileWork'[v] = w
      /\ added'[v] = a /\ asked'[v] = k
  BY DEF Upload!library, Upload!locks
<1> HIDE DEF s, p, e, f, r, q, j, w, a, k
<1>3. Waits(w, j.pc) /\ DeletesAreAsked(w, k)
  BY <1>1 DEF Good
<1>4. Whole(Upload!Gone, r) /\ Owns(Upload!Gone, r, q, j) /\ Listed(Upload!Gone, f, r, q, w, a)
      /\ Counted(Upload!Gone, {})
  BY <1>1, SessionFacts DEF Good, Whole, Owns, Listed, Counted
<1>5. Good(Upload!Gone, {}, f, r, q, j, w, a, k)
  BY <1>3, <1>4 DEF Good
<1> QED
  BY <1>2, <1>5, GoodAgain

LEMMA RemoveKeepsTypes ==
    ASSUME Upload!TypeOK, NEW U, NEW base, base \in [Uploads -> Upload!Sessions \cup {Upload!Absent, Upload!Gone}],
           Upload!Remove(U, base), UNCHANGED <<expired, Upload!library, Upload!locks, asked>>
    PROVE  Upload!TypeOK'
<1>1. session' \in [Uploads -> Upload!Sessions \cup {Upload!Absent, Upload!Gone}]
      /\ parts' \in [Uploads -> SUBSET Chunks]
  BY DEF Upload!TypeOK, Upload!Remove
<1> QED
  BY <1>1 DEF Upload!TypeOK, Upload!library, Upload!locks

LEMMA CleanupKeepsUploads ==
    ASSUME Upload!TypeOK, \A v \in Uploads : UploadIsGood(v), Upload!Cleanup
    PROVE  Upload!TypeOK' /\ \A v \in Uploads : UploadIsGood(v)'
<1>1. Upload!TypeOK'
  <2>1. session \in [Uploads -> Upload!Sessions \cup {Upload!Absent, Upload!Gone}]
    BY DEF Upload!TypeOK
  <2> QED
    BY <2>1, RemoveKeepsTypes DEF Upload!Cleanup
<1>2. ASSUME NEW v \in Uploads, v \in Upload!Reclaimable  PROVE UploadIsGood(v)'
  <2>1. session'[v] = Upload!Gone /\ parts'[v] = {}
    BY <1>2 DEF Upload!Cleanup, Upload!Remove
  <2> QED
    BY <2>1, <1>2, RemovedIsGood DEF Upload!Cleanup
<1>3. ASSUME NEW v \in Uploads, v \notin Upload!Reclaimable  PROVE UploadIsGood(v)'
  <2>1. Same(v)
    BY <1>3 DEF Upload!Cleanup, Upload!Remove, Same, Upload!library, Upload!locks
  <2> QED
    BY <2>1, SameIsGood
<1> QED
  BY <1>1, <1>2, <1>3

\* A session begins, after a cleanup.
LEMMA CreateKeepsUploads ==
    ASSUME Upload!TypeOK, \A v \in Uploads : UploadIsGood(v), NEW u \in Uploads, Upload!Create(u)
    PROVE  Upload!TypeOK' /\ \A v \in Uploads : UploadIsGood(v)'
<1> DEFINE base == [session EXCEPT ![u] = Upload!Fresh]
<1>1. base \in [Uploads -> Upload!Sessions \cup {Upload!Absent, Upload!Gone}] /\ base[u] = Upload!Fresh
      /\ \A v \in Uploads : v # u => base[v] = session[v]
  BY SessionFacts DEF Upload!TypeOK
<1>2. Upload!Remove(Upload!Reclaimable, base) /\ session[u] = Upload!Absent /\ UNCHANGED <<expired,
      Upload!library, Upload!locks, asked>>
  BY DEF Upload!Create
<1> HIDE DEF base
<1>3. Upload!TypeOK'
  BY <1>1, <1>2, RemoveKeepsTypes
<1>4. u \notin Upload!Reclaimable
  BY <1>2, SessionFacts DEF Upload!Reclaimable, Upload!Stored
<1>5. UploadIsGood(u)'
  <2> DEFINE s == session[u]  p == parts[u]  e == expired[u]  f == file[u]  r == record[u]
             q == requests[u]  j == job[u]  w == fileWork[u]  a == added[u]  k == asked[u]
  <2>1. Known(s, p, e, f, r, q, j, w, a, k) /\ Good(s, p, f, r, q, j, w, a, k) /\ s = Upload!Absent
    BY GoodAndKnown, <1>2
  <2>2. /\ session'[u] = Upload!Fresh /\ parts'[u] = p /\ file'[u] = f /\ record'[u] = r
        /\ requests'[u] = q /\ job'[u] = j /\ fileWork'[u] = w /\ added'[u] = a /\ asked'[u] = k
    BY <1>1, <1>2, <1>4 DEF Upload!Remove, Upload!library, Upload!locks
  <2> HIDE DEF s, p, e, f, r, q, j, w, a, k
  <2>3. Waits(w, j.pc) /\ DeletesAreAsked(w, k)
    BY <2>1 DEF Good
  <2>4. Upload!Fresh.is = "stored" /\ Upload!Fresh.received = {} /\ ~Upload!Fresh.digest /\ ~Upload!Fresh.registered
        /\ ~Upload!Fresh.reclaimed /\ ~Upload!Fresh.deleted
    BY DEF Upload!Fresh
  <2>5. Whole(Upload!Fresh, r) /\ Owns(Upload!Fresh, r, q, j) /\ Listed(Upload!Fresh, f, r, q, w, a)
        /\ Counted(Upload!Fresh, p)
    BY <2>1, <2>4, SessionFacts DEF Good, Known, Whole, Owns, Listed, Counted
  <2>6. Good(Upload!Fresh, p, f, r, q, j, w, a, k)
    BY <2>3, <2>5 DEF Good
  <2> QED
    BY <2>2, <2>6, GoodAgain
<1>6. ASSUME NEW v \in Uploads, v \in Upload!Reclaimable  PROVE UploadIsGood(v)'
  <2>1. session'[v] = Upload!Gone /\ parts'[v] = {}
    BY <1>2, <1>6 DEF Upload!Remove
  <2> QED
    BY <2>1, <1>2, <1>6, RemovedIsGood
<1>7. ASSUME NEW v \in Uploads, v # u, v \notin Upload!Reclaimable  PROVE UploadIsGood(v)'
  <2>1. Same(v)
    BY <1>1, <1>2, <1>7 DEF Upload!Remove, Same, Upload!library, Upload!locks
  <2> QED
    BY <2>1, SameIsGood
<1> QED
  BY <1>3, <1>5, <1>6, <1>7

\* The process ends: nothing is at work on any upload.
LEMMA RestartKeepsUploads ==
    ASSUME Upload!TypeOK, \A v \in Uploads : UploadIsGood(v), Upload!Restart
    PROVE  Upload!TypeOK' /\ \A v \in Uploads : UploadIsGood(v)'
<1>1. Upload!TypeOK'
  BY JobFacts DEF Upload!TypeOK, Upload!Restart, Upload!store, Upload!library
<1>2. ASSUME NEW u \in Uploads  PROVE UploadIsGood(u)'
  <2> DEFINE s == session[u]  p == parts[u]  e == expired[u]  f == file[u]  r == record[u]
             q == requests[u]  j == job[u]  w == fileWork[u]  a == added[u]  k == asked[u]
  <2>1. Known(s, p, e, f, r, q, j, w, a, k) /\ Good(s, p, f, r, q, j, w, a, k)
    BY GoodAndKnown
  <2>2. /\ session'[u] = s /\ parts'[u] = p /\ file'[u] = f /\ record'[u] = r
        /\ requests'[u] = <<>> /\ job'[u] = Upload!Idle /\ fileWork'[u] = <<>> /\ added'[u] = a /\ asked'[u] = k
    BY DEF Upload!Restart, Upload!store, Upload!library
  <2> HIDE DEF s, p, e, f, r, q, j, w, a, k
  <2>3. Waits(<<>>, Upload!Idle.pc) /\ DeletesAreAsked(<<>>, k)
    BY DEF Waits, DeletesAreAsked
  <2>4. Whole(s, r) /\ Owns(s, r, <<>>, Upload!Idle) /\ Listed(s, f, r, <<>>, <<>>, a) /\ Counted(s, p)
    BY <2>1 DEF Good, Whole, Owns, Listed, Counted
  <2>5. Good(s, p, f, r, <<>>, Upload!Idle, <<>>, a, k)
    BY <2>3, <2>4 DEF Good
  <2> QED
    BY <2>2, <2>5, GoodAgain
<1> QED
  BY <1>1, <1>2

\* What a step of the Hub is for the uploads.
UploadMoves(u) ==
    \/ Upload!Create(u) \/ Upload!Expire(u)
    \/ \E x \in Upload!Requests : Upload!Accept(u, x)
    \/ \E kind \in {"delete", "convert"} : Upload!AcceptFileWork(u, kind)
    \/ Upload!RequestStep(u) \/ Upload!FileStep(u)

LEMMA UploadsTurns ==
    ASSUME [Next]_vars
    PROVE  (\E u \in Uploads : UploadMoves(u)) \/ Upload!Cleanup \/ Upload!Restart \/ UNCHANGED uploads
<1>1. ASSUME NEW service \in {"learning", "updates", "sports", "music", "displays", "slides", "lab"}, Only(service)
      PROVE  UNCHANGED uploads
  BY <1>1 DEF Only
<1>2. CASE Requests
  BY <1>1, <1>2 DEF Requests, UploadRequest, LearningRequest, UpdatesRequest, SportsRequest, MusicRequest,
     DisplaysRequest, SlidesRequest, LabRequest, AskExport, Quiet, UploadMoves
<1>3. CASE Timers
  BY <1>1, <1>3 DEF Timers, UploadCleanup, GradingTimer, UpdatesTimer, SportsTimer, MusicTimer, SlidesTimer, LabTimer
<1>4. CASE Steps
  BY <1>1, <1>4 DEF Steps, UploadStep, FileStep, GradingStep, TickStep, InstallStep, SportsStep, MusicStep,
     DisplaysStep, SlidesStep, LabStep, ExportAnswered, Thaw, Quiet, UploadMoves
<1>5. CASE Elapse \/ Outside
  BY <1>1, <1>5 DEF Elapse, Outside, UploadMoves
<1>6. CASE Restart \/ UNCHANGED vars
  BY <1>6 DEF Restart, vars
<1> QED
  BY <1>2, <1>3, <1>4, <1>5, <1>6 DEF Next

LEMMA UploadKept ==
    ASSUME Upload!TypeOK, \A v \in Uploads : UploadIsGood(v), NEW u \in Uploads, UploadMoves(u)
    PROVE  Upload!TypeOK' /\ \A v \in Uploads : UploadIsGood(v)'
<1>1. CASE Upload!Create(u) \/ Upload!Expire(u)
  BY <1>1, CreateKeepsUploads, ExpireKeepsUploads
<1>2. CASE \E x \in Upload!Requests : Upload!Accept(u, x)
  BY <1>2, AcceptKeepsUploads
<1>3. CASE \E kind \in {"delete", "convert"} : Upload!AcceptFileWork(u, kind)
  BY <1>3, AcceptFileWorkKeepsUploads
<1>4. CASE Upload!RequestStep(u)
  <2>1. CASE Upload!PutChunk(u)
    BY <2>1, PutChunkKeepsUploads
  <2>2. CASE \E n \in 0..2 : Upload!ChunkArrives(u, n)
    BY <2>2, ChunkArrivesKeepsUploads
  <2>3. CASE \E pinned \in BOOLEAN : Upload!Complete(u, pinned)
    BY <2>3, CompleteKeepsUploads
  <2>4. CASE \E n \in 0..2 : Upload!Assemble(u, n)
    BY <2>4, AssembleKeepsUploads
  <2>5. CASE \E n \in 0..3 : Upload!FinishReceipt(u, n)
    BY <2>5, FinishReceiptKeepsUploads
  <2>6. CASE Upload!Cancel(u)
    BY <2>6, CancelKeepsUploads
  <2> QED
    BY <1>4, <2>1, <2>2, <2>3, <2>4, <2>5, <2>6 DEF Upload!RequestStep
<1>5. CASE Upload!FileStep(u)
  <2>1. CASE Upload!Replay(u)
    BY <2>1, ReplayKeepsUploads
  <2>2. CASE \E accepts, fails \in BOOLEAN : Upload!Register(u, accepts, fails)
    BY <2>2, RegisterKeepsUploads
  <2>3. CASE Upload!Discard(u)
    BY <2>3, DiscardKeepsUploads
  <2>4. CASE \E n \in 0..5 : Upload!Delete(u, n)
    BY <2>4, DeleteKeepsUploads
  <2>5. CASE Upload!Convert(u)
    BY <2>5, ConvertKeepsUploads
  <2> QED
    BY <1>5, <2>1, <2>2, <2>3, <2>4, <2>5 DEF Upload!FileStep
<1> QED
  BY <1>1, <1>2, <1>3, <1>4, <1>5 DEF UploadMoves

LEMMA UploadsKept ==
    ASSUME Upload!UploadsInv, [Next]_vars
    PROVE  Upload!UploadsInv'
<1>1. Upload!TypeOK /\ \A v \in Uploads : UploadIsGood(v)
  BY UploadsInvIs
<1>2. ASSUME Upload!TypeOK', \A v \in Uploads : UploadIsGood(v)'
      PROVE  Upload!UploadsInv'
  BY <1>2 DEF Upload!UploadsInv, Upload!PartsAreAccounted, UploadIsGood, Accounted
<1>3. CASE \E u \in Uploads : UploadMoves(u)
  BY <1>1, <1>2, <1>3, UploadKept
<1>4. CASE Upload!Cleanup
  BY <1>1, <1>2, <1>4, CleanupKeepsUploads
<1>5. CASE Upload!Restart
  BY <1>1, <1>2, <1>5, RestartKeepsUploads
<1>6. CASE UNCHANGED uploads
  <2>1. Upload!TypeOK'
    BY <1>1, <1>6 DEF Upload!TypeOK, uploads
  <2>2. ASSUME NEW v \in Uploads  PROVE UploadIsGood(v)'
    <3>1. Same(v)
      BY <1>6 DEF Same, uploads
    <3> QED
      BY <1>1, <3>1, SameIsGood
  <2> QED
    BY <1>2, <2>1, <2>2
<1> QED
  BY <1>3, <1>4, <1>5, <1>6, UploadsTurns

LEMMA UploadsInit == Upload!Init => Upload!UploadsInv
<1> SUFFICES ASSUME Upload!Init PROVE Upload!UploadsInv
  OBVIOUS
<1>1. Upload!TypeOK
  BY JobFacts DEF Upload!Init, Upload!TypeOK
<1>2. ASSUME NEW u \in Uploads  PROVE UploadIsGood(u)
  <2>1. session[u] = Upload!Absent /\ parts[u] = {} /\ file[u] = FALSE /\ record[u] = "none" /\ requests[u] = <<>>
        /\ job[u] = Upload!Idle /\ fileWork[u] = <<>> /\ added[u] = FALSE /\ asked[u] = FALSE
    BY DEF Upload!Init
  <2>2. Waits(<<>>, Upload!Idle.pc) /\ DeletesAreAsked(<<>>, FALSE)
    BY DEF Waits, DeletesAreAsked
  <2>3. Good(Upload!Absent, {}, FALSE, "none", <<>>, Upload!Idle, <<>>, FALSE, FALSE)
    BY <2>2, SessionFacts DEF Good, Whole, Owns, Listed, Counted
  <2> QED
    BY <2>1, <2>3, GoodIs
<1> QED
  BY <1>1, <1>2, UploadsInvIs

------------------------------------------------------------------------------
(* The library's promise, step by step.                                    *)

ItemOf(f, r, a) == IF r = "linked" /\ f THEN "listed" ELSE IF a THEN "gone" ELSE "never"

Item == [u \in Uploads |-> ItemOf(file[u], record[u], added[u])]

LEMMA Unlisted ==
    ASSUME UNCHANGED <<file, record, added>>
    PROVE  Item' = Item
BY DEF Item

\* Only one item changes, if any.
LEMMA OneItem ==
    ASSUME Upload!TypeOK, NEW u \in Uploads, NEW f, NEW r, NEW a,
           file' = [file EXCEPT ![u] = f], record' = [record EXCEPT ![u] = r], added' = [added EXCEPT ![u] = a]
    PROVE  Item' = [Item EXCEPT ![u] = ItemOf(f, r, a)]
<1>1. file'[u] = f /\ record'[u] = r /\ added'[u] = a
  BY DEF Upload!TypeOK
<1>2. ASSUME NEW v \in Uploads, v # u  PROVE file'[v] = file[v] /\ record'[v] = record[v] /\ added'[v] = added[v]
  BY <1>2 DEF Upload!TypeOK
<1>3. Item'[u] = ItemOf(f, r, a)
  BY <1>1 DEF Item
<1>4. ASSUME NEW v \in Uploads, v # u  PROVE Item'[v] = Item[v]
  BY <1>2, <1>4 DEF Item
<1>5. Item = [v \in Uploads |-> Item[v]] /\ Item' = [v \in Uploads |-> Item'[v]]
  BY DEF Item
<1> QED
  BY <1>3, <1>4, <1>5

\* Writing what is there changes nothing.
LEMMA ItemStays ==
    ASSUME NEW u \in Uploads
    PROVE  [Item EXCEPT ![u] = Item[u]] = Item
BY DEF Item

\* What an upload adds to the library, its owner's operators take from it.
LEMMA LibraryStep ==
    ASSUME Upload!TypeOK, NEW u \in Uploads, UploadIsGood(u), UploadMoves(u)
    PROVE  Upload!Library!Next \/ UNCHANGED <<Item, asked>>
<1> DEFINE s == session[u]  p == parts[u]  e == expired[u]  f == file[u]  r == record[u]
           q == requests[u]  j == job[u]  w == fileWork[u]  a == added[u]  k == asked[u]
<1>1. Known(s, p, e, f, r, q, j, w, a, k) /\ Good(s, p, f, r, q, j, w, a, k)
  BY GoodAndKnown
<1>2. file = [file EXCEPT ![u] = f] /\ record = [record EXCEPT ![u] = r] /\ added = [added EXCEPT ![u] = a]
  BY DEF Upload!TypeOK
<1>3. Item[u] = ItemOf(f, r, a)
  BY DEF Item
<1>4. CASE UNCHANGED <<Upload!library, asked>>
  BY <1>4, Unlisted DEF Upload!library
<1>5. ASSUME NEW kind \in {"delete", "convert"}, Upload!AcceptFileWork(u, kind)
      PROVE  Upload!Library!Next \/ UNCHANGED <<Item, asked>>
  <2>1. Item' = Item
    BY <1>5, Unlisted DEF Upload!AcceptFileWork, Upload!library
  <2>2. CASE kind = "delete"
    <3>1. asked' = [asked EXCEPT ![u] = TRUE]
      BY <1>5, <2>2 DEF Upload!AcceptFileWork
    <3>2. Upload!Library!Ask(u)
      BY <2>1, <3>1 DEF Upload!Library!Ask, Item, ItemOf
    <3> QED
      BY <3>2 DEF Upload!Library!Next
  <2>3. CASE kind = "convert"
    BY <1>5, <2>1, <2>3 DEF Upload!AcceptFileWork, Upload!TypeOK
  <2> QED
    BY <2>2, <2>3
<1>6. ASSUME NEW n \in 0..2, Upload!Assemble(u, n)
      PROVE  Upload!Library!Next \/ UNCHANGED <<Item, asked>>
  <2>1. file' = [file EXCEPT ![u] = f \/ n > 0] /\ record' = record /\ added' = added /\ asked' = asked
        /\ j.pc = "assemble"
    BY <1>6 DEF Upload!Assemble
  <2>2. r # "linked"
    BY <1>1, <2>1, JobFacts DEF Good, Owns, Known
  <2> DEFINE g == f \/ n > 0
  <2>3. ItemOf(g, r, a) = ItemOf(f, r, a) /\ file' = [file EXCEPT ![u] = g]
        /\ record' = [record EXCEPT ![u] = r] /\ added' = [added EXCEPT ![u] = a]
    BY <1>2, <2>1, <2>2 DEF ItemOf
  <2> HIDE DEF g
  <2>4. Item' = [Item EXCEPT ![u] = ItemOf(g, r, a)]
    BY <2>3, OneItem
  <2> QED
    BY <1>3, <2>1, <2>3, <2>4, ItemStays
<1>7. ASSUME NEW accepts \in BOOLEAN, NEW fails \in BOOLEAN, Upload!Register(u, accepts, fails)
      PROVE  Upload!Library!Next \/ UNCHANGED <<Item, asked>>
  <2>1. CASE ~accepts
    <3>1. record' = [record EXCEPT ![u] = r] /\ added' = [added EXCEPT ![u] = (a \/ FALSE)] /\ file' = file
          /\ asked' = asked
      BY <1>7, <2>1 DEF Upload!Register
    <3>2. record' = record /\ added' = added
      BY <1>1, <1>2, <3>1 DEF Known
    <3> QED
      BY <3>1, <3>2, Unlisted
  <2>2. CASE accepts
    <3>1. record' = [record EXCEPT ![u] = "linked"] /\ added' = [added EXCEPT ![u] = TRUE] /\ file' = file
          /\ f /\ asked' = asked
      BY <1>7, <2>2 DEF Upload!Register
    <3>2. Waits(w, j.pc) /\ w # <<>> /\ Head(w) = "register" /\ w \in Seq(Upload!FileWorks)
      BY <1>1, <1>7 DEF Good, Known, Upload!Register, Upload!OwnsFile
    <3>3. j.pc = "register"
      BY <3>2, NobodyWaitsBehind DEF Waiting
    <3>4. ~s.deleted /\ r # "linked" /\ s.is = "stored"
      BY <1>1, <3>3, JobFacts DEF Good, Owns, Known
    <3>5. Item[u] = "never"
      BY <1>1, <1>3, <3>4 DEF Good, Listed, Known, ItemOf
    <3>6. Item' = [Item EXCEPT ![u] = "listed"]
      BY <1>2, <3>1, OneItem DEF ItemOf
    <3>7. Upload!Library!Add(u)
      BY <3>1, <3>5, <3>6 DEF Upload!Library!Add, Item, ItemOf
    <3> QED
      BY <3>7 DEF Upload!Library!Next
  <2> QED
    BY <2>1, <2>2
<1>8. CASE Upload!Discard(u)
  <2>1. file' = [file EXCEPT ![u] = f /\ r # "none"] /\ record' = record /\ added' = added /\ asked' = asked
    BY <1>8 DEF Upload!Discard
  <2> DEFINE g == f /\ r # "none"
  <2>2. ItemOf(g, r, a) = ItemOf(f, r, a) /\ file' = [file EXCEPT ![u] = g]
        /\ record' = [record EXCEPT ![u] = r] /\ added' = [added EXCEPT ![u] = a]
    BY <1>2, <2>1 DEF ItemOf
  <2> HIDE DEF g
  <2>3. Item' = [Item EXCEPT ![u] = ItemOf(g, r, a)]
    BY <2>2, OneItem
  <2> QED
    BY <1>3, <2>1, <2>2, <2>3, ItemStays
<1>9. ASSUME NEW n \in 0..5, Upload!Delete(u, n)
      PROVE  Upload!Library!Next \/ UNCHANGED <<Item, asked>>
  <2>1. file' = [file EXCEPT ![u] = f /\ n < 4] /\ added' = added /\ asked' = asked
        /\ record' = [record EXCEPT ![u] = IF n = 5 THEN "none" ELSE r]
    BY <1>9 DEF Upload!Delete
  <2>2. k
    <3>1. w # <<>> /\ Head(w) = "delete" /\ DeletesAreAsked(w, k) /\ k \in BOOLEAN /\ w \in Seq(Upload!FileWorks)
      BY <1>1, <1>9 DEF Good, Known, Upload!Delete, Upload!OwnsFile
    <3> QED
      BY <3>1, DeletesStayAsked
  <2> DEFINE f2 == f /\ n < 4
             r2 == IF n = 5 THEN "none" ELSE r
  <2>3. file' = [file EXCEPT ![u] = f2] /\ record' = [record EXCEPT ![u] = r2] /\ added' = [added EXCEPT ![u] = a]
    BY <1>2, <2>1
  <2>4. Item' = [Item EXCEPT ![u] = ItemOf(f2, r2, a)]
    <3> HIDE DEF f2, r2
    <3> QED
      BY <2>3, OneItem
  <2>5. CASE n < 4 \/ ~(r = "linked" /\ f)
    <3>1. ItemOf(f2, r2, a) = ItemOf(f, r, a)
      BY <2>5 DEF ItemOf
    <3> QED
      BY <1>3, <2>4, <2>1, <3>1, ItemStays
  <2>6. CASE n >= 4 /\ r = "linked" /\ f
    <3>1. Item[u] = "listed" /\ a
      BY <1>1, <1>3, <2>6 DEF Good, Listed, ItemOf
    <3>2. ItemOf(f2, r2, a) = "gone"
      BY <2>6, <3>1 DEF ItemOf
    <3>3. Upload!Library!Drop(u)
      BY <2>4, <2>1, <2>2, <3>1, <3>2 DEF Upload!Library!Drop, Item, ItemOf
    <3> QED
      BY <3>3 DEF Upload!Library!Next
  <2> QED
    BY <2>5, <2>6
<1>10. CASE Upload!Convert(u)
  <2>1. file' = file /\ added' = added /\ asked' = asked
        /\ record' = [record EXCEPT ![u] = IF f /\ r = "none" THEN "plain" ELSE r]
    BY <1>10 DEF Upload!Convert
  <2> DEFINE g == IF f /\ r = "none" THEN "plain" ELSE r
  <2>2. ItemOf(f, g, a) = ItemOf(f, r, a) /\ record' = [record EXCEPT ![u] = g]
        /\ file' = [file EXCEPT ![u] = f] /\ added' = [added EXCEPT ![u] = a]
    BY <1>2, <2>1 DEF ItemOf
  <2> HIDE DEF f, g, a
  <2>3. Item' = [Item EXCEPT ![u] = ItemOf(f, g, a)]
    BY <2>2, OneItem
  <2> QED
    BY <1>3, <2>1, <2>2, <2>3, ItemStays
<1> HIDE DEF s, p, e, f, r, q, j, w, a, k
<1>11. CASE Upload!Create(u) \/ Upload!Expire(u) \/ \E x \in Upload!Requests : Upload!Accept(u, x)
  BY <1>4, <1>11 DEF Upload!Create, Upload!Expire, Upload!Accept
<1>12. CASE Upload!RequestStep(u)
  BY <1>4, <1>6, <1>12 DEF Upload!RequestStep, Upload!PutChunk, Upload!ChunkArrives, Upload!Complete,
     Upload!FinishReceipt, Upload!Cancel
<1>13. CASE Upload!FileStep(u)
  BY <1>4, <1>7, <1>8, <1>9, <1>10, <1>13 DEF Upload!FileStep, Upload!Replay
<1> QED
  BY <1>5, <1>11, <1>12, <1>13 DEF UploadMoves

\* Every step of the Hub keeps the library's promise.
LEMMA StepKeepsPromise ==
    ASSUME Upload!UploadsInv, [Next]_vars
    PROVE  [Upload!Library!Next]_<<Item, asked>>
<1>1. CASE \E u \in Uploads : UploadMoves(u)
  BY <1>1, LibraryStep, UploadsInvIs
<1>2. CASE Upload!Cleanup \/ Upload!Restart \/ UNCHANGED uploads
  BY <1>2, Unlisted DEF Upload!Cleanup, Upload!Restart, uploads, Upload!library
<1> QED
  BY <1>1, <1>2, UploadsTurns

\* Acknowledged chunks are on disk until the upload is registered or deleted, and chunks on
\* disk count against the quota; and the library keeps its promise: an upload is listed at
\* most once, and once listed goes only because an operator asked for it, for good.
THEOREM UploadsKeep == Spec => UploadsAreKept
<1>1. Init => Upload!UploadsInv
  BY UploadsInit DEF Init
<1>2. Upload!UploadsInv /\ [Next]_vars => Upload!UploadsInv'
  BY UploadsKept
<1>3. Upload!UploadsInv => Upload!PartsAreAccounted
  BY DEF Upload!UploadsInv
<1>4. Init => Upload!Library!Init
  BY DEF Init, Upload!Init, Upload!Library!Init
<1>5. Upload!UploadsInv /\ [Next]_vars => [Upload!Library!Next]_<<Item, asked>>
  BY StepKeepsPromise
<1> QED
  BY <1>1, <1>2, <1>3, <1>4, <1>5, PTL DEF Spec, UploadsAreKept, Upload!KeepsLibraryPromise, Upload!Library!Spec,
      Item, ItemOf

------------------------------------------------------------------------------
(* The sessions with the Veyon WebAPI.                                     *)

\* The pool without the requests.
PoolIsSound == Veyon!PoolTypeOK /\ Veyon!PlaceIsFree /\ Veyon!NoOrphans

LEMMA ActorFacts ==
    /\ Hosts \subseteq Veyon!Actors /\ Calls \subseteq Veyon!Actors /\ {"timer", "operator"} \subseteq Veyon!Actors
    /\ \A h \in Hosts : h \notin Calls /\ h # "timer" /\ h # "operator"
    /\ \A s \in Veyon!Sessions : s # Veyon!None
BY ActorsAreDistinct DEF Veyon!Actors, Veyon!Sessions, Veyon!None

\* The pool and who authenticates are as they were; others plan to close something else.
LEMMA PoolStays ==
    ASSUME Veyon!PoolInv, UNCHANGED <<cache, open, flight, opened>>,
           sweep' \in [Veyon!Actors -> SUBSET Veyon!Sessions], \A h \in Hosts : sweep'[h] = sweep[h]
    PROVE  PoolIsSound'
BY DEF Veyon!PoolInv, PoolIsSound, Veyon!PoolTypeOK, Veyon!PlaceIsFree, Veyon!NoOrphans, Veyon!Cached

\* What is in the pool are sessions.
LEMMA CachedFacts ==
    ASSUME Veyon!PoolInv
    PROVE  /\ Veyon!Cached \subseteq Veyon!Sessions
           /\ \A h \in Hosts : {cache[h]} \ {Veyon!None} \in SUBSET Veyon!Sessions
BY DEF Veyon!PoolInv, PoolIsSound, Veyon!PoolTypeOK, Veyon!Cached

\* What a request looks like as it goes on.
LEMMA CallFacts ==
    /\ \A x \in Veyon!Asking :
         /\ x.pc \in {"wait", "have", "read", "discard", "trim", "retry"} => x.host \in Hosts
         /\ x.pc \in {"wait", "have", "read"} => x.first \in BOOLEAN
         /\ x.pc = "read" => x.rec \in Veyon!Sessions \cup {Veyon!None}
         /\ x.pc = "discard" => [x EXCEPT !.pc = "trim"] \in Veyon!Asking
    /\ Veyon!Idle \in Veyon!Asking
    /\ \A h \in Hosts :
         /\ \A pc \in {"discard", "retry"} : [pc |-> pc, host |-> h] \in Veyon!Asking
         /\ \A first \in BOOLEAN :
              /\ \A pc \in {"wait", "have"} : [pc |-> pc, host |-> h, first |-> first] \in Veyon!Asking
              /\ \A rec \in Veyon!Sessions \cup {Veyon!None} :
                   [pc |-> "read", host |-> h, first |-> first, rec |-> rec] \in Veyon!Asking
BY DEF Veyon!Asking, Veyon!Idle

LEMMA SeekKeeps ==
    ASSUME Veyon!PoolInv, NEW c \in Calls, NEW h \in Hosts, NEW first \in BOOLEAN, Veyon!Seek(c, h, first),
           UNCHANGED <<cache, open, opened>>
    PROVE  PoolIsSound'
<1>1. CASE UNCHANGED <<flight, sweep>>
  BY <1>1, PoolStays DEF Veyon!PoolInv, PoolIsSound, Veyon!PoolTypeOK
<1>2. CASE /\ flight[h] = "none" /\ flight' = [flight EXCEPT ![h] = "close"]
           /\ sweep' = [sweep EXCEPT ![h] = {cache[h]} \ {Veyon!None}]
  <2>1. Veyon!PoolTypeOK'
    BY <1>2, CachedFacts, ActorFacts DEF Veyon!PoolInv, PoolIsSound, Veyon!PoolTypeOK
  <2>2. Veyon!PlaceIsFree'
    BY <1>2, ActorFacts DEF Veyon!PoolInv, PoolIsSound, Veyon!PoolTypeOK, Veyon!PlaceIsFree
  <2>3. Veyon!NoOrphans'
    BY DEF Veyon!PoolInv, PoolIsSound, Veyon!NoOrphans, Veyon!Cached
  <2> QED
    BY <2>1, <2>2, <2>3 DEF PoolIsSound
<1> QED
  BY <1>1, <1>2 DEF Veyon!Seek

\* Room is made by one who authenticates, or by someone else.
LEMMA PlannedRoom ==
    ASSUME Veyon!PoolInv, NEW a \in Veyon!Actors, Veyon!MakeRoom(a)
    PROVE  /\ sweep' \in [Veyon!Actors -> SUBSET Veyon!Sessions]
           /\ \A b \in Veyon!Actors : b # a => sweep'[b] = sweep[b]
BY CachedFacts DEF Veyon!MakeRoom, Veyon!PoolInv, Veyon!PoolTypeOK

LEMMA CallKeepsPool ==
    ASSUME Veyon!PoolInv, Veyon!CallStep
    PROVE  PoolIsSound'
<1> PICK c \in Calls : Veyon!Use(c) \/ Veyon!Answered(c) \/ (\E full \in BOOLEAN : Veyon!Broken(c, full))
                       \/ Veyon!Trim(c) \/ Veyon!Retry(c)
  BY DEF Veyon!CallStep
<1>1. CASE Veyon!Use(c) \/ Veyon!Answered(c)
  BY <1>1, PoolStays DEF Veyon!Use, Veyon!Answered, Veyon!PoolInv, Veyon!PoolTypeOK
<1>2. CASE \E full \in BOOLEAN : Veyon!Broken(c, full)
  <2> DEFINE S == IF cache[call[c].host] = call[c].rec THEN {call[c].rec} \ {Veyon!None} ELSE {}
  <2>1. sweep' = [sweep EXCEPT ![c] = S]
    BY <1>2 DEF Veyon!Broken
  <2>2. UNCHANGED <<cache, open, flight, opened>> /\ call[c].pc = "read" /\ call[c] \in Veyon!Asking
    BY <1>2 DEF Veyon!Broken, Veyon!PoolInv, Veyon!CallsAreKnown
  <2>3. S \in SUBSET Veyon!Sessions
    BY <2>2, CallFacts
  <2> HIDE DEF S
  <2> QED
    BY <2>1, <2>2, <2>3, PoolStays, ActorFacts DEF Veyon!PoolInv, Veyon!PoolTypeOK
<1>3. CASE Veyon!Trim(c)
  BY <1>3, PlannedRoom, PoolStays, ActorFacts DEF Veyon!Trim
<1>4. CASE Veyon!Retry(c)
  <2>1. call[c].pc \in {"trim", "retry"} /\ call[c] \in Veyon!Asking
    BY <1>4 DEF Veyon!Retry, Veyon!PoolInv, Veyon!CallsAreKnown
  <2>2. call[c].host \in Hosts
    BY <2>1, CallFacts
  <2> QED
    BY <1>4, <2>2, SeekKeeps DEF Veyon!Retry
<1> QED
  BY <1>1, <1>2, <1>3, <1>4

LEMMA AuthKeepsPool ==
    ASSUME Veyon!PoolInv, NEW h \in Hosts,
           Veyon!Replaced(h) \/ Veyon!Authenticated(h) \/ Veyon!NotAuthenticated(h) \/ Veyon!Full(h)
    PROVE  PoolIsSound'
<1> USE DEF Veyon!PoolInv, PoolIsSound
<1>1. CASE Veyon!Replaced(h) \/ Veyon!Full(h)
  <2>1. PICK pc \in {"trim", "again"} : flight' = [flight EXCEPT ![h] = pc]
    BY <1>1 DEF Veyon!Replaced, Veyon!Full
  <2>2. /\ Veyon!MakeRoom(h) /\ UNCHANGED <<cache, open, opened>> /\ h \in Veyon!Actors
        /\ flight[h] \in {"close", "trim"} /\ sweep[h] = {}
    BY <1>1, ActorFacts DEF Veyon!Replaced, Veyon!Full
  <2>3. cache[h] = Veyon!None
    BY <2>2 DEF Veyon!PlaceIsFree
  <2>4. Veyon!PoolTypeOK'
    BY <2>1, <2>2, PlannedRoom DEF Veyon!PoolTypeOK
  <2>5. Veyon!PlaceIsFree'
    BY <2>1, <2>2, <2>3, PlannedRoom, ActorFacts DEF Veyon!PoolTypeOK, Veyon!PlaceIsFree
  <2>6. Veyon!NoOrphans'
    BY <2>2 DEF Veyon!NoOrphans, Veyon!Cached
  <2> QED
    BY <2>4, <2>5, <2>6
<1>2. CASE Veyon!Authenticated(h)
  <2>1. /\ opened < MaxSessions /\ opened' = opened + 1 /\ open' = open \cup {opened'}
        /\ cache' = [cache EXCEPT ![h] = opened'] /\ flight' = [flight EXCEPT ![h] = "none"]
        /\ sweep' = sweep /\ flight[h] \in {"trim", "again"}
    BY <1>2 DEF Veyon!Authenticated, Veyon!Open, Veyon!Ends
  <2>2. opened' \in Veyon!Sessions /\ opened' \in 0..MaxSessions
    BY <2>1, BoundsAssumption DEF Veyon!PoolTypeOK, Veyon!Sessions
  <2>3. Veyon!PoolTypeOK'
    BY <2>1, <2>2 DEF Veyon!PoolTypeOK
  <2>4. Veyon!PlaceIsFree'
    BY <2>1 DEF Veyon!PoolTypeOK, Veyon!PlaceIsFree
  <2>5. cache[h] = Veyon!None
    BY <2>1 DEF Veyon!PlaceIsFree
  <2>6. Veyon!Cached' = Veyon!Cached \cup {opened'}
    <3>1. cache'[h] = opened' /\ \A k \in Hosts : k # h => cache'[k] = cache[k]
      BY <2>1 DEF Veyon!PoolTypeOK
    <3> QED
      BY <2>2, <2>5, <3>1, ActorFacts DEF Veyon!Cached
  <2>7. Veyon!NoOrphans'
    BY <2>1, <2>6 DEF Veyon!NoOrphans
  <2> QED
    BY <2>3, <2>4, <2>7
<1>3. CASE Veyon!NotAuthenticated(h)
  <2>1. flight' = [flight EXCEPT ![h] = "none"] /\ UNCHANGED <<cache, open, sweep, opened>>
    BY <1>3 DEF Veyon!NotAuthenticated, Veyon!Ends
  <2> QED
    BY <2>1 DEF Veyon!PoolTypeOK, Veyon!PlaceIsFree, Veyon!NoOrphans, Veyon!Cached
<1> QED
  BY <1>1, <1>2, <1>3

LEMMA CloseKeepsPool ==
    ASSUME Veyon!PoolInv, NEW a \in Veyon!Actors, NEW s \in Veyon!Sessions, Veyon!Close(a, s)
    PROVE  PoolIsSound'
<1> USE DEF Veyon!PoolInv, PoolIsSound
<1>1. /\ sweep' = [sweep EXCEPT ![a] = @ \ {s}] /\ UNCHANGED <<flight, opened>>
      /\ \/ cache' = Veyon!Forget(s) /\ open' = open \ {s}
         \/ ~Veyon!MayClose(a, s) /\ UNCHANGED <<cache, open>>
  BY DEF Veyon!Close
<1>2. \A h \in Hosts : \/ cache'[h] = cache[h] /\ (cache[h] = s => ~Veyon!MayClose(a, s))
                       \/ cache'[h] = Veyon!None /\ cache[h] = s
  BY <1>1, ActorFacts DEF Veyon!Forget, Veyon!PoolTypeOK
<1>3. Veyon!PoolTypeOK'
  BY <1>1, <1>2 DEF Veyon!PoolTypeOK, Veyon!Forget
<1>4. \A h \in Hosts : flight[h] = "close" => Veyon!MayClose(h, s)
  BY ActorFacts DEF Veyon!MayClose, Veyon!MakesRoom
<1>5. ASSUME NEW h \in Hosts
      PROVE  /\ flight'[h] = "close" => cache'[h] \in sweep'[h] \cup {Veyon!None}
             /\ flight'[h] \in {"trim", "again"} => cache'[h] = Veyon!None
  <2>1. sweep'[h] = IF h = a THEN sweep[h] \ {s} ELSE sweep[h]
    BY <1>1, ActorFacts DEF Veyon!PoolTypeOK
  <2> QED
    BY <1>1, <1>2, <1>4, <2>1 DEF Veyon!PlaceIsFree
<1>6. Veyon!NoOrphans'
  BY <1>1, <1>2, ActorFacts DEF Veyon!NoOrphans, Veyon!Cached
<1> QED
  BY <1>3, <1>5, <1>6 DEF Veyon!PlaceIsFree

LEMMA PoolKept ==
    ASSUME Veyon!PoolInv,
           Veyon!Request \/ Veyon!Step \/ Veyon!Timer \/ Veyon!Outside \/ Veyon!Restart \/ UNCHANGED lab
    PROVE  PoolIsSound'
<1>1. ASSUME NEW a \in {"timer", "operator"}, Veyon!Tidy(a)
      PROVE  PoolIsSound'
  <2>1. sweep' = [sweep EXCEPT ![a] = Veyon!Cached] /\ UNCHANGED <<cache, open, flight, opened>>
    BY <1>1 DEF Veyon!Tidy
  <2> QED
    BY <2>1, PoolStays, CachedFacts, ActorFacts DEF Veyon!PoolInv, PoolIsSound, Veyon!PoolTypeOK
<1>2. ASSUME NEW c \in Calls, NEW h \in Hosts, NEW first \in BOOLEAN, Veyon!Ask(c, h, first)
      PROVE  PoolIsSound'
  BY <1>2, SeekKeeps DEF Veyon!Ask
<1>3. CASE Veyon!AuthStep
  BY <1>3, AuthKeepsPool DEF Veyon!AuthStep
<1>4. CASE Veyon!Outside \/ UNCHANGED lab
  BY <1>4, PoolStays DEF Veyon!Outside, Veyon!Age, lab, Veyon!PoolInv, PoolIsSound, Veyon!PoolTypeOK
<1>5. CASE Veyon!Restart
  BY <1>5 DEF Veyon!Restart, Veyon!PoolInv, PoolIsSound, Veyon!PoolTypeOK, Veyon!PlaceIsFree, Veyon!NoOrphans
<1> QED
  BY <1>1, <1>2, <1>3, <1>4, <1>5, CallKeepsPool, CloseKeepsPool DEF Veyon!Request, Veyon!Step, Veyon!Timer

\* The requests as they go on.
LEMMA CallsKept ==
    ASSUME Veyon!PoolInv,
           Veyon!Request \/ Veyon!Step \/ Veyon!Timer \/ Veyon!Outside \/ Veyon!Restart \/ UNCHANGED lab
    PROVE  Veyon!CallsAreKnown'
<1> USE DEF Veyon!CallsAreKnown
<1>1. call \in [Calls -> Veyon!Asking]
  BY DEF Veyon!PoolInv
<1>2. ASSUME NEW c \in Calls, NEW h \in Hosts, NEW first \in BOOLEAN, Veyon!Seek(c, h, first)
      PROVE  call' \in [Calls -> Veyon!Asking]
  <2>1. PICK pc \in {"wait", "have"} : call' = [call EXCEPT ![c] = [pc |-> pc, host |-> h, first |-> first]]
    BY <1>2 DEF Veyon!Seek
  <2> QED
    BY <1>1, <2>1, CallFacts
<1>3. ASSUME NEW c \in Calls,
             \/ Veyon!Use(c) \/ Veyon!Answered(c) \/ (\E full \in BOOLEAN : Veyon!Broken(c, full))
             \/ Veyon!Trim(c) \/ Veyon!Retry(c)
      PROVE  call' \in [Calls -> Veyon!Asking]
  <2>1. call[c] \in Veyon!Asking
    BY <1>1
  <2>2. CASE Veyon!Use(c)
    <3>1. call[c].host \in Hosts /\ call[c].first \in BOOLEAN
      BY <2>1, <2>2, CallFacts DEF Veyon!Use
    <3>2. cache[call[c].host] \in Veyon!Sessions \cup {Veyon!None}
      BY <3>1 DEF Veyon!PoolInv, Veyon!PoolTypeOK
    <3> QED
      BY <1>1, <2>2, <3>1, <3>2, CallFacts DEF Veyon!Use
  <2>3. CASE Veyon!Answered(c)
    BY <1>1, <2>3, CallFacts DEF Veyon!Answered
  <2>4. CASE \E full \in BOOLEAN : Veyon!Broken(c, full)
    <3>1. call[c].host \in Hosts
      BY <2>1, <2>4, CallFacts DEF Veyon!Broken
    <3>2. PICK pc \in {"discard", "retry"} : call' = [call EXCEPT ![c] = [pc |-> pc, host |-> @.host]]
      BY <2>4 DEF Veyon!Broken
    <3> QED
      BY <1>1, <3>1, <3>2, CallFacts
  <2>5. CASE Veyon!Trim(c)
    BY <1>1, <2>1, <2>5, CallFacts DEF Veyon!Trim
  <2>6. CASE Veyon!Retry(c)
    <3>1. call[c].host \in Hosts
      BY <2>1, <2>6, CallFacts DEF Veyon!Retry
    <3> QED
      BY <1>2, <2>6, <3>1 DEF Veyon!Retry
  <2> QED
    BY <1>3, <2>2, <2>3, <2>4, <2>5, <2>6
<1>4. ASSUME NEW h \in Hosts,
             Veyon!Replaced(h) \/ Veyon!Authenticated(h) \/ Veyon!NotAuthenticated(h) \/ Veyon!Full(h)
      PROVE  call' \in [Calls -> Veyon!Asking]
  <2>1. CASE Veyon!Replaced(h) \/ Veyon!Full(h)
    BY <1>1, <2>1 DEF Veyon!Replaced, Veyon!Full
  <2>2. CASE Veyon!Authenticated(h)
    <3>1. \A c \in Veyon!Waiters(h) : c \in Calls /\ call[c].first \in BOOLEAN
      BY <1>1, CallFacts DEF Veyon!Waiters
    <3>2. \A c \in Veyon!Waiters(h) : [pc |-> "have", host |-> h, first |-> call[c].first] \in Veyon!Asking
      BY <3>1, CallFacts
    <3> QED
      BY <1>1, <2>2, <3>2 DEF Veyon!Authenticated, Veyon!Ends
  <2>3. CASE Veyon!NotAuthenticated(h)
    BY <1>1, <2>3, CallFacts DEF Veyon!NotAuthenticated, Veyon!Ends
  <2> QED
    BY <1>4, <2>1, <2>2, <2>3
<1>5. CASE Veyon!Request
  BY <1>1, <1>2, <1>5 DEF Veyon!Request, Veyon!Ask, Veyon!Tidy
<1>6. CASE Veyon!Step
  BY <1>1, <1>3, <1>4, <1>6 DEF Veyon!Step, Veyon!CallStep, Veyon!AuthStep, Veyon!Close
<1>7. CASE Veyon!Timer \/ Veyon!Outside \/ UNCHANGED lab
  BY <1>1, <1>7 DEF Veyon!Timer, Veyon!Tidy, Veyon!Outside, Veyon!Age, lab
<1>8. CASE Veyon!Restart
  BY <1>8, CallFacts DEF Veyon!Restart
<1> QED
  BY <1>5, <1>6, <1>7, <1>8

LEMMA LabTurns ==
    ASSUME [Next]_vars
    PROVE  Veyon!Request \/ Veyon!Step \/ Veyon!Timer \/ Veyon!Outside \/ Veyon!Restart \/ UNCHANGED lab
<1>1. ASSUME NEW service \in {"uploads", "learning", "updates", "sports", "music", "displays", "slides"},
      Only(service)
      PROVE  UNCHANGED lab
  BY <1>1 DEF Only, OnlyInRoom
<1>2. CASE Requests
  BY <1>1, <1>2 DEF Requests, UploadRequest, LearningRequest, UpdatesRequest, SportsRequest, MusicRequest,
     DisplaysRequest, SlidesRequest, LabRequest, AskExport, Quiet, room
<1>3. CASE Timers
  BY <1>1, <1>3 DEF Timers, UploadCleanup, GradingTimer, UpdatesTimer, SportsTimer, MusicTimer, SlidesTimer, LabTimer
<1>4. CASE Steps
  BY <1>1, <1>4 DEF Steps, UploadStep, FileStep, GradingStep, TickStep, InstallStep, SportsStep, MusicStep,
     DisplaysStep, SlidesStep, LabStep, ExportAnswered, Thaw, Quiet, room
<1>5. CASE Elapse \/ Outside
  BY <1>1, <1>5 DEF Elapse, Outside
<1>6. CASE Restart \/ UNCHANGED vars
  BY <1>6 DEF Restart, vars, room
<1> QED
  BY <1>2, <1>3, <1>4, <1>5, <1>6 DEF Next

\* A session leaves the pool because it is not in use, or it is closed by one who met it
\* broken, or by an operator.
LEMMA InUseStays ==
    ASSUME Veyon!PoolInv, [Next]_vars, NEW h \in Hosts, cache[h] # Veyon!None, cache'[h] # cache[h]
    PROVE  \/ Veyon!Unused(cache[h]) \/ Veyon!Restart
           \/ \E a \in Veyon!Actors : ~Veyon!MakesRoom(a) /\ cache[h] \in sweep[a] \ sweep'[a]
<1>1. CASE \E k \in Hosts : Veyon!Authenticated(k)
  <2> PICK k \in Hosts : Veyon!Authenticated(k)
    BY <1>1
  <2>1. cache[k] = Veyon!None /\ cache' = [cache EXCEPT ![k] = opened']
    BY DEF Veyon!Authenticated, Veyon!PoolInv, Veyon!PlaceIsFree
  <2> QED
    BY <2>1 DEF Veyon!PoolInv, PoolIsSound, Veyon!PoolTypeOK
<1>2. CASE \E a \in Veyon!Actors, s \in Veyon!Sessions : Veyon!Close(a, s)
  <2> PICK a \in Veyon!Actors, s \in Veyon!Sessions : Veyon!Close(a, s)
    BY <1>2
  <2>1. /\ Veyon!MayClose(a, s) /\ cache' = Veyon!Forget(s) /\ s \in sweep[a]
        /\ sweep' = [sweep EXCEPT ![a] = @ \ {s}]
    BY DEF Veyon!Close
  <2>2. cache[h] = s
    BY <2>1 DEF Veyon!Forget, Veyon!PoolInv, Veyon!PoolTypeOK
  <2>3. s \notin sweep'[a]
    BY <2>1 DEF Veyon!PoolInv, PoolIsSound, Veyon!PoolTypeOK
  <2> QED
    BY <2>1, <2>2, <2>3 DEF Veyon!MayClose
<1>3. CASE Veyon!CallStep
  BY <1>3 DEF Veyon!CallStep, Veyon!Use, Veyon!Answered, Veyon!Broken, Veyon!Trim, Veyon!Retry
<1>4. CASE \E k \in Hosts : Veyon!Replaced(k) \/ Veyon!NotAuthenticated(k) \/ Veyon!Full(k)
  BY <1>4 DEF Veyon!Replaced, Veyon!NotAuthenticated, Veyon!Full
<1>5. CASE Veyon!Request \/ Veyon!Timer \/ Veyon!Outside \/ UNCHANGED lab
  BY <1>5 DEF Veyon!Request, Veyon!Timer, Veyon!Outside, Veyon!Ask, Veyon!Tidy, Veyon!Age, lab
<1> QED
  BY <1>1, <1>2, <1>3, <1>4, <1>5, LabTurns DEF Veyon!Step, Veyon!AuthStep

LEMMA LabInit == Init => Veyon!PoolInv
<1> SUFFICES ASSUME Init PROVE Veyon!PoolInv
  OBVIOUS
<1>1. Veyon!Init
  BY DEF Init, RoomInit
<1>2. Veyon!PoolTypeOK
  <2>1. MaxSessions \in Nat
    BY BoundsAssumption
  <2> QED
    BY <1>1, <2>1 DEF Veyon!Init, Veyon!PoolTypeOK
<1>3. Veyon!CallsAreKnown
  BY <1>1, CallFacts DEF Veyon!Init, Veyon!CallsAreKnown
<1>4. Veyon!PlaceIsFree /\ Veyon!NoOrphans
  BY <1>1 DEF Veyon!Init, Veyon!PlaceIsFree, Veyon!NoOrphans
<1> QED
  BY <1>2, <1>3, <1>4 DEF Veyon!PoolInv

\* A session that is open is in the pool, and who makes room closes none that is in use.
THEOREM SessionsKept == Spec => SessionsAreKept
<1>1. Init => Veyon!PoolInv
  BY LabInit
<1>2. Veyon!PoolInv /\ [Next]_vars => Veyon!PoolInv'
  BY LabTurns, PoolKept, CallsKept DEF Veyon!PoolInv, PoolIsSound
<1>3. Veyon!PoolInv => Veyon!NoOrphans
  BY DEF Veyon!PoolInv
<1>4. Veyon!PoolInv /\ [Next]_vars =>
        [\A h \in Hosts : cache[h] # Veyon!None /\ cache'[h] # cache[h] =>
            \/ Veyon!Unused(cache[h]) \/ Veyon!Restart
            \/ \E a \in Veyon!Actors : ~Veyon!MakesRoom(a) /\ cache[h] \in sweep[a] \ sweep'[a]]_cache
  BY InUseStays
<1> QED
  BY <1>1, <1>2, <1>3, <1>4, PTL DEF Spec, SessionsAreKept, Veyon!InUseIsKept

------------------------------------------------------------------------------
(* The grading of writing.                                                 *)

LEMMA LearningFacts ==
    /\ Learning!None \notin Learning!Rows /\ Learning!None \notin Learning!Reviews
        /\ Learning!None \notin Learning!Jobs
    /\ Learning!None.is = "none"
    /\ \A x \in Learning!Rows : x.fp \in Learning!Writings /\ x.attempts \in 0..2 /\ x.ready \in BOOLEAN
    /\ \A x \in Learning!Reviews : x.fp \in Learning!Writings /\ x.status \in Learning!Statuses
    /\ \A x \in Learning!Jobs : x.fp \in Learning!Writings /\ x.attempts \in 0..2 /\ x.ai \in Graders
    /\ \A x \in Learning!Writings : x.edit \in 0..MaxEdits /\ x.reply \in 0..MaxReplies
    /\ MaxEdits \in Nat /\ MaxReplies \in Nat
BY BoundsAssumption
   DEF Learning!None, Learning!Rows, Learning!Reviews, Learning!Jobs, Learning!Writings

LEMMA LearningMade ==
    /\ \A fp \in Learning!Writings, attempts \in 0..2, ready \in BOOLEAN :
         Learning!Row(fp, attempts, ready) \in Learning!Rows /\ Learning!Row(fp, attempts, ready).fp = fp
    /\ \A fp \in Learning!Writings, status \in Learning!Statuses :
         /\ Learning!Review(fp, status) \in Learning!Reviews
         /\ Learning!Review(fp, status).fp = fp /\ Learning!Review(fp, status).status = status
    /\ \A x \in Learning!Reviews, status \in Learning!Statuses :
         /\ [x EXCEPT !.status = status] \in Learning!Reviews
         /\ [x EXCEPT !.status = status].fp = x.fp /\ [x EXCEPT !.status = status].status = status
    /\ \A status \in Learning!Statuses : [Learning!None EXCEPT !.status = status] = Learning!None
    /\ {"grading", "needs_review", "approved", "unavailable", "superseded"} \subseteq Learning!Statuses
<1>1. \A status : [Learning!None EXCEPT !.status = status] = Learning!None
  BY DEF Learning!None
<1> QED
  BY <1>1 DEF Learning!Row, Learning!Review, Learning!Rows, Learning!Reviews, Learning!Statuses

\* Types are kept, and a review that now says how the writing was graded is of the writing as
\* it is.
GradedWell ==
    review' # review /\ review'.status \in {"needs_review", "approved"} =>
        /\ review'.fp.edit = writing'.edit
        /\ grading' # grading => pending' = Learning!None \/ pending'.fp = review'.fp

LEMMA EnqueueTypes ==
    ASSUME pending \in Learning!Rows \cup {Learning!None}, NEW x \in Learning!Rows, NEW full,
           Learning!Enqueue(x, full)
    PROVE  pending' \in Learning!Rows \cup {Learning!None}
BY DEF Learning!Enqueue

LEMMA AcceptGrades ==
    ASSUME Learning!TypeOK, NEW w \in Learning!Writings, NEW r \in Learning!Reviews \cup {Learning!None}, NEW refused,
           Learning!Accept(w, r, refused), writing' \in Learning!Writings,
           r # review => r.status = "superseded"
    PROVE  Learning!TypeOK' /\ GradedWell
<1>1. pending' \in Learning!Rows \cup {Learning!None}
  <2>1. Learning!Row(w, 0, TRUE) \in Learning!Rows
    BY DEF Learning!Row, Learning!Rows
  <2> QED
    BY <2>1, EnqueueTypes DEF Learning!Accept, Learning!TypeOK, Learning!Removed
<1>2. review' = r \/ review' = Learning!Review(w, "unavailable")
  BY DEF Learning!Accept
<1>3. UNCHANGED <<grading, ai>> /\ accepted' \in {accepted, w}
  BY DEF Learning!Accept
<1> QED
  BY <1>1, <1>2, <1>3, LearningMade DEF Learning!TypeOK, GradedWell

LEMMA LearningRequestGrades ==
    ASSUME Learning!TypeOK, Learning!Request
    PROVE  Learning!TypeOK' /\ GradedWell
<1>1. ASSUME NEW refused \in BOOLEAN, Learning!Edit(refused)
      PROVE  Learning!TypeOK' /\ GradedWell
  <2> DEFINE w == [writing EXCEPT !.edit = @ + 1]
             r == IF review = Learning!None THEN Learning!None ELSE [review EXCEPT !.status = "superseded"]
  <2>1. w \in Learning!Writings
    BY <1>1, LearningFacts DEF Learning!Edit, Learning!TypeOK, Learning!Writings
  <2>2. r \in Learning!Reviews \cup {Learning!None} /\ (r # review => r.status = "superseded")
    BY LearningMade DEF Learning!TypeOK
  <2>3. writing' = w /\ Learning!Accept(w, r, refused)
    BY <1>1 DEF Learning!Edit
  <2> HIDE DEF w, r
  <2> QED
    BY <2>1, <2>2, <2>3, AcceptGrades
<1>2. ASSUME NEW refused \in BOOLEAN, Learning!Post(refused)
      PROVE  Learning!TypeOK' /\ GradedWell
  <2> DEFINE w == [writing EXCEPT !.reply = @ + 1]
  <2>1. w \in Learning!Writings
    BY <1>2, LearningFacts DEF Learning!Post, Learning!TypeOK, Learning!Writings
  <2>2. writing' = w /\ Learning!Accept(w, review, refused) /\ review \in Learning!Reviews \cup {Learning!None}
    BY <1>2 DEF Learning!Post, Learning!TypeOK
  <2> HIDE DEF w
  <2> QED
    BY <2>1, <2>2, AcceptGrades
<1>3. ASSUME NEW refused \in BOOLEAN, Learning!Submit(refused)
      PROVE  Learning!TypeOK' /\ GradedWell
  BY <1>3, AcceptGrades DEF Learning!Submit, Learning!TypeOK
<1>4. CASE Learning!Approve
  <2>1. /\ review \in Learning!Reviews /\ review' = [review EXCEPT !.status = "approved"]
        /\ review.fp.edit = writing.edit /\ UNCHANGED <<writing, pending, grading, ai, accepted>>
    BY <1>4 DEF Learning!Approve, Learning!TypeOK
  <2>2. review' \in Learning!Reviews /\ review'.fp = review.fp
    BY <2>1, LearningMade
  <2> QED
    BY <2>1, <2>2 DEF Learning!TypeOK, GradedWell
<1>5. ASSUME NEW service \in Graders \cup {"off"}, Learning!Configure(service)
      PROVE  Learning!TypeOK' /\ GradedWell
  BY <1>5 DEF Learning!Configure, Learning!TypeOK, GradedWell
<1> QED
  BY <1>1, <1>2, <1>3, <1>4, <1>5 DEF Learning!Request

LEMMA DrainGrades ==
    ASSUME Learning!TypeOK, NEW postponed \in BOOLEAN, Learning!Drain(postponed)
    PROVE  Learning!TypeOK' /\ GradedWell
<1>1. pending \in Learning!Rows /\ ai \in Graders
  BY DEF Learning!Drain, Learning!TypeOK
<1>2. pending' \in Learning!Rows \cup {Learning!None}
  BY <1>1 DEF Learning!Drain, Learning!Rows
<1>3. review' = review \/ review' = Learning!Review(pending.fp, "grading")
  BY DEF Learning!Drain
<1>4. grading' = grading \/ grading' \in Learning!Jobs
  <2>1. pending.fp \in Learning!Writings /\ pending.attempts \in 0..2
    BY <1>1, LearningFacts
  <2>2. \/ grading' = grading
        \/ grading' = [is |-> "grading", fp |-> pending.fp, attempts |-> pending.attempts,
                       ai |-> ai, requeued |-> FALSE]
    BY DEF Learning!Drain
  <2>3. [is |-> "grading", fp |-> pending.fp, attempts |-> pending.attempts, ai |-> ai, requeued |-> FALSE]
          \in Learning!Jobs
    BY <1>1, <2>1 DEF Learning!Jobs
  <2> QED
    BY <2>2, <2>3
<1>5. UNCHANGED <<writing, ai, accepted>>
  BY DEF Learning!Drain
<1>6. review' # review => review' \in Learning!Reviews /\ review'.status = "grading"
  BY <1>1, <1>3, LearningFacts, LearningMade
<1> QED
  BY <1>2, <1>4, <1>5, <1>6 DEF Learning!TypeOK, GradedWell

\* What a grading leaves of the review.
LEMMA Settled ==
    ASSUME Learning!TypeOK, NEW status \in Learning!Statuses, Learning!Settle(status)
    PROVE  /\ review' \in Learning!Reviews \cup {Learning!None}
           /\ review' # review =>
                review'.status = status /\ review'.fp = review.fp /\ review.fp = grading.fp
BY LearningMade DEF Learning!TypeOK, Learning!Settle, Learning!Mine

LEMMA GradedGrades ==
    ASSUME Learning!TypeOK, NEW status \in {"needs_review", "approved"}, Learning!Graded(status)
    PROVE  Learning!TypeOK' /\ GradedWell
<1> DEFINE s == IF Learning!StillWanted THEN status ELSE "unavailable"
<1>1. Learning!Settle(s) /\ s \in Learning!Statuses
  BY LearningMade DEF Learning!Graded
<1>2. grading \in Learning!Jobs
  BY LearningFacts DEF Learning!TypeOK, Learning!Graded
<1>3. grading' \in Learning!Jobs
  BY <1>2 DEF Learning!Graded, Learning!Jobs
<1>4. UNCHANGED <<writing, pending, ai, accepted>>
  BY DEF Learning!Graded
<1>5. s \in {"needs_review", "approved"} =>
        grading.fp.edit = writing.edit /\ (pending = Learning!None \/ pending.fp = grading.fp)
  BY DEF Learning!StillWanted
<1> HIDE DEF s
<1> QED
  BY <1>1, <1>3, <1>4, <1>5, Settled DEF Learning!TypeOK, GradedWell

LEMMA FailedGrades ==
    ASSUME Learning!TypeOK, NEW retryable \in BOOLEAN, NEW full \in BOOLEAN, Learning!GradingFailed(retryable, full)
    PROVE  Learning!TypeOK' /\ GradedWell
<1>1. Learning!Settle("unavailable") /\ "unavailable" \in Learning!Statuses
  BY LearningMade DEF Learning!GradingFailed
<1>2. grading \in Learning!Jobs
  BY LearningFacts DEF Learning!TypeOK, Learning!GradingFailed
<1>3. grading' \in Learning!Jobs
  BY <1>2 DEF Learning!GradingFailed, Learning!Jobs
<1>4. pending' \in Learning!Rows \cup {Learning!None}
  <2>1. CASE UNCHANGED pending
    BY <2>1 DEF Learning!TypeOK
  <2>2. CASE grading.attempts < 2 /\ Learning!Enqueue(Learning!Row(grading.fp, grading.attempts + 1, FALSE), full)
    <3>1. grading.fp \in Learning!Writings /\ grading.attempts + 1 \in 0..2
      BY <1>2, <2>2, LearningFacts
    <3>2. Learning!Row(grading.fp, grading.attempts + 1, FALSE) \in Learning!Rows
      BY <3>1, LearningMade
    <3> QED
      BY <2>2, <3>2, EnqueueTypes DEF Learning!TypeOK
  <2> QED
    BY <2>1, <2>2 DEF Learning!GradingFailed
<1>5. UNCHANGED <<writing, ai, accepted>>
  BY DEF Learning!GradingFailed
<1> QED
  BY <1>1, <1>3, <1>4, <1>5, Settled DEF Learning!TypeOK, GradedWell

LEMMA RestartGrades ==
    ASSUME Learning!TypeOK, Learning!Restart
    PROVE  Learning!TypeOK' /\ GradedWell
<1>1. review' = review \/ (review # Learning!None /\ review' = [review EXCEPT !.status = "unavailable"])
  BY DEF Learning!Restart
<1>2. grading' = Learning!None /\ UNCHANGED <<writing, pending, ai, accepted>>
  BY DEF Learning!Restart
<1>3. review' # review => review' \in Learning!Reviews /\ review'.status = "unavailable"
  <2>1. "unavailable" \in Learning!Statuses
    BY DEF Learning!Statuses
  <2>2. ASSUME review \in Learning!Reviews, review' = [review EXCEPT !.status = "unavailable"]
        PROVE  review' \in Learning!Reviews /\ review'.status = "unavailable"
    BY <2>1, <2>2, LearningMade
  <2> QED
    BY <1>1, <2>2 DEF Learning!TypeOK
<1> QED
  BY <1>2, <1>3 DEF Learning!TypeOK, GradedWell

LEMMA LearningGrades ==
    ASSUME Learning!TypeOK,
           \/ Learning!Request \/ Learning!Due \/ Learning!Timer \/ Learning!Step \/ Learning!Restart
           \/ UNCHANGED learning
    PROVE  Learning!TypeOK' /\ GradedWell
<1>1. CASE Learning!Due
  <2>1. pending' \in Learning!Rows /\ UNCHANGED <<writing, review, grading, ai, accepted>>
    BY <1>1 DEF Learning!Due, Learning!TypeOK, Learning!Rows
  <2> QED
    BY <2>1 DEF Learning!TypeOK, GradedWell
<1>2. CASE Learning!Synced
  <2>1. pending' \in {pending, Learning!None} /\ grading' = Learning!None /\ UNCHANGED <<writing, review, ai,
        accepted>>
    BY <1>2 DEF Learning!Synced, Learning!Removed
  <2> QED
    BY <2>1 DEF Learning!TypeOK, GradedWell
<1>3. CASE UNCHANGED learning
  BY <1>3 DEF learning, Learning!TypeOK, GradedWell
<1> QED
  BY <1>1, <1>2, <1>3, LearningRequestGrades, DrainGrades, GradedGrades, FailedGrades, RestartGrades
     DEF Learning!Timer, Learning!Step

LEMMA LearningTurns ==
    ASSUME [Next]_vars
    PROVE  \/ Learning!Request \/ Learning!Due \/ Learning!Timer \/ Learning!Step \/ Learning!Restart
           \/ UNCHANGED learning
<1>1. ASSUME NEW service \in {"uploads", "updates", "sports", "music", "displays", "slides", "lab"}, Only(service)
      PROVE  UNCHANGED learning
  BY <1>1 DEF Only
<1>2. CASE Requests
  BY <1>1, <1>2 DEF Requests, UploadRequest, LearningRequest, UpdatesRequest, SportsRequest, MusicRequest,
     DisplaysRequest, SlidesRequest, LabRequest, AskExport, Quiet
<1>3. CASE Timers
  BY <1>1, <1>3 DEF Timers, UploadCleanup, GradingTimer, UpdatesTimer, SportsTimer, MusicTimer, SlidesTimer, LabTimer
<1>4. CASE Steps
  BY <1>1, <1>4 DEF Steps, UploadStep, FileStep, GradingStep, TickStep, InstallStep, SportsStep, MusicStep,
     DisplaysStep, SlidesStep, LabStep, ExportAnswered, Thaw, Quiet
<1>5. CASE Elapse \/ Outside
  BY <1>1, <1>5 DEF Elapse, Outside
<1>6. CASE Restart \/ UNCHANGED vars
  BY <1>6 DEF Restart, vars
<1> QED
  BY <1>2, <1>3, <1>4, <1>5, <1>6 DEF Next

LEMMA LearningInit == Init => Learning!TypeOK
<1> SUFFICES ASSUME Learning!Init PROVE Learning!TypeOK
  BY DEF Init
<1>1. writing \in Learning!Writings
  BY LearningFacts DEF Learning!Init, Learning!Writings
<1> QED
  BY <1>1 DEF Learning!Init, Learning!TypeOK

------------------------------------------------------------------------------
(* The sports workspace.                                                   *)

LEMMA ConfigFacts ==
    /\ MaxSaves \in Nat /\ MaxData \in Nat
    /\ Sports!None.is = "none" /\ Sports!None \notin Sports!Configs /\ Sports!None \notin Sports!Refreshes
    /\ \A c \in Sports!Configs :
         /\ c.revision \in Nat /\ c.edit \in 0..MaxSaves /\ c.data \in [Sources -> 0..MaxData]
         /\ \A s \in Sources : c.data[s] \in 0..MaxData
    /\ \A r \in Sports!Refreshes :
         /\ r.revision \in Nat /\ r.edit \in 0..MaxSaves /\ r.working \in [Sources -> 0..MaxData]
         /\ r.status \in [Sources -> Sports!Outcomes] /\ r.changed \in BOOLEAN /\ r.todo \in SUBSET Sources
         /\ \A s \in Sources : r.working[s] \in 0..MaxData
BY BoundsAssumption DEF Sports!None, Sports!Configs, Sports!Refreshes

LEMMA SportsTypes ==
    ASSUME Sports!SportsInv
    PROVE  /\ stored.now = config /\ config.edit = newest.edit
           /\ config \in Sports!Configs /\ page \in Sports!Configs
           /\ stored \in [now : Sports!Configs, previous : Sports!Configs \cup {Sports!None}]
           /\ stored.previous \in Sports!Configs \cup {Sports!None}
           /\ statuses \in [Sources -> Sports!Outcomes] /\ refresh \in Sports!Refreshes \cup {Sports!None}
           /\ newest \in [edit : 0..MaxSaves, saves : 0..MaxSaves]
           /\ newest.edit \in 0..MaxSaves /\ newest.saves \in 0..MaxSaves
BY DEF Sports!SportsInv, Sports!TypeOK, Sports!NewestIsSaved

\* What a commit makes.
LEMMA Committed ==
    ASSUME Sports!SportsInv, NEW edit \in 0..MaxSaves, NEW data \in [Sources -> 0..MaxData],
           NEW remember \in BOOLEAN, Sports!Commit(edit, data, remember)
    PROVE  /\ config' \in Sports!Configs /\ stored'.now = config'
           /\ config'.revision = config.revision + 1 /\ config'.edit = edit /\ config'.data = data
           /\ stored' \in [now : Sports!Configs, previous : Sports!Configs \cup {Sports!None}]
<1>1. config' = [revision |-> config.revision + 1, edit |-> edit, data |-> data]
  BY DEF Sports!Commit
<1>2. stored' = [now |-> config', previous |-> IF remember THEN config ELSE stored.previous]
  BY DEF Sports!Commit
<1>3. config' \in Sports!Configs
  BY <1>1, SportsTypes, ConfigFacts DEF Sports!Configs
<1> QED
  BY <1>1, <1>2, <1>3, SportsTypes

\* A step keeps what was acknowledged, and what was published goes back only by an undo.
SportsStepIsSafe ==
    /\ config'.edit = newest'.edit
    /\ (\E s \in Sources : config'.data[s] < config.data[s]) =>
          newest' # newest /\ config'.data = stored.previous.data

\* An operator saves or undoes.
LEMMA SavedSafely ==
    ASSUME Sports!SportsInv, NEW edit \in 0..MaxSaves, NEW data \in [Sources -> 0..MaxData],
           newest.saves < MaxSaves, newest' = [edit |-> edit, saves |-> newest.saves + 1],
           Sports!Commit(edit, data, TRUE), page' = config', UNCHANGED <<statuses, refresh>>,
           data = config.data \/ data = stored.previous.data
    PROVE  Sports!SportsInv' /\ SportsStepIsSafe
<1>1. /\ config' \in Sports!Configs /\ stored'.now = config'
      /\ config'.revision = config.revision + 1 /\ config'.edit = edit /\ config'.data = data
      /\ stored' \in [now : Sports!Configs, previous : Sports!Configs \cup {Sports!None}]
  BY Committed
<1>2. newest' \in [edit : 0..MaxSaves, saves : 0..MaxSaves] /\ newest' # newest /\ newest'.edit = edit
  <2>1. newest.saves + 1 \in 0..MaxSaves /\ newest.saves + 1 # newest.saves
    BY SportsTypes, ConfigFacts
  <2> QED
    BY <2>1
<1>3. Sports!TypeOK' /\ Sports!NewestIsSaved'
  BY <1>1, <1>2, SportsTypes DEF Sports!TypeOK, Sports!NewestIsSaved
<1>4. Sports!PageIsBehind'
  BY <1>1, ConfigFacts DEF Sports!PageIsBehind
<1>5. Sports!RefreshIsBehind'
  <2>1. config.revision \in Nat /\ (refresh # Sports!None => refresh.revision \in Nat)
    BY SportsTypes, ConfigFacts
  <2> QED
    BY <1>1, <2>1 DEF Sports!SportsInv, Sports!RefreshIsBehind
<1>6. SportsStepIsSafe
  BY <1>1, <1>2, SportsTypes, ConfigFacts DEF SportsStepIsSafe
<1> QED
  BY <1>3, <1>4, <1>5, <1>6 DEF Sports!SportsInv

LEMMA RequestIsSafe ==
    ASSUME Sports!SportsInv, Sports!Request
    PROVE  Sports!SportsInv' /\ SportsStepIsSafe
<1>1. CASE Sports!Open
  <2>1. page' = config /\ UNCHANGED <<stored, config, statuses, refresh, newest>>
    BY <1>1 DEF Sports!Open
  <2> QED
    BY <2>1, SportsTypes, ConfigFacts
       DEF Sports!SportsInv, Sports!TypeOK, Sports!NewestIsSaved, Sports!PageIsBehind, Sports!RefreshIsBehind,
           SportsStepIsSafe
<1>2. CASE Sports!Save
  <2>1. page.data = config.data
    BY <1>2 DEF Sports!Save, Sports!SportsInv, Sports!PageIsBehind
  <2>2. page.data \in [Sources -> 0..MaxData] /\ newest.saves + 1 \in 0..MaxSaves
    BY <1>2, SportsTypes, ConfigFacts DEF Sports!Save
  <2>3. /\ newest.saves < MaxSaves /\ newest' = [edit |-> newest.saves + 1, saves |-> newest.saves + 1]
        /\ Sports!Commit(newest.saves + 1, page.data, TRUE) /\ page' = config' /\ UNCHANGED <<statuses, refresh>>
    BY <1>2 DEF Sports!Save
  <2> QED
    BY <2>1, <2>2, <2>3, SavedSafely
<1>3. CASE Sports!Undo
  <2> DEFINE d == stored.previous.data
             e == stored.previous.edit
  <2>1. stored.previous \in Sports!Configs
    BY <1>3, SportsTypes DEF Sports!Undo
  <2>2. d \in [Sources -> 0..MaxData] /\ e \in 0..MaxSaves
    BY <2>1, ConfigFacts
  <2>3. /\ newest.saves < MaxSaves /\ newest' = [edit |-> e, saves |-> newest.saves + 1]
        /\ Sports!Commit(e, d, TRUE) /\ page' = config' /\ UNCHANGED <<statuses, refresh>>
        /\ d = stored.previous.data
    BY <1>3 DEF Sports!Undo
  <2> HIDE DEF d, e
  <2> QED
    BY <2>2, <2>3, SavedSafely
<1> QED
  BY <1>1, <1>2, <1>3 DEF Sports!Request

\* What a refresh has after one more answer.
LEMMA Answers ==
    ASSUME Sports!SportsInv, NEW s \in Sources, NEW outcome \in {"news", "same", "failed"}, refresh # Sports!None,
           outcome = "news" => refresh.working[s] < MaxData, NEW r,
           r = [refresh EXCEPT
                  !.working[s] = IF outcome = "news" THEN @ + 1 ELSE @,
                  !.changed = @ \/ outcome = "news",
                  !.status[s] = IF outcome = "failed" THEN "unavailable" ELSE "ready",
                  !.todo = IF paused THEN {} ELSE @ \ {s}]
    PROVE  /\ r \in Sports!Refreshes /\ r # Sports!None
           /\ r.revision <= config.revision
           /\ r.revision = config.revision =>
                r.edit = config.edit /\ \A x \in Sources : config.data[x] <= r.working[x]
<1> DEFINE working == [refresh.working EXCEPT ![s] = IF outcome = "news" THEN @ + 1 ELSE @]
           status == [refresh.status EXCEPT ![s] = IF outcome = "failed" THEN "unavailable" ELSE "ready"]
           changed == refresh.changed \/ outcome = "news"
           todos == IF paused THEN {} ELSE refresh.todo \ {s}
<1>1. refresh \in Sports!Refreshes
  BY SportsTypes
<1>2. /\ refresh.revision \in Nat /\ refresh.edit \in 0..MaxSaves /\ refresh.working \in [Sources -> 0..MaxData]
      /\ refresh.status \in [Sources -> Sports!Outcomes] /\ refresh.changed \in BOOLEAN
      /\ refresh.todo \in SUBSET Sources /\ refresh.working[s] \in 0..MaxData /\ MaxData \in Nat
  BY <1>1, ConfigFacts
<1>3. /\ working \in [Sources -> 0..MaxData]
      /\ \A x \in Sources : refresh.working[x] <= working[x] /\ refresh.working[x] \in Nat /\ working[x] \in Nat
  BY <1>2
<1>4. status \in [Sources -> Sports!Outcomes]
  BY <1>2 DEF Sports!Outcomes
<1>5. /\ r \in Sports!Refreshes
      /\ r.revision = refresh.revision /\ r.edit = refresh.edit /\ r.working = working
  <2>1. r = [refresh EXCEPT !.working = working, !.changed = changed, !.status = status, !.todo = todos]
    BY <1>1 DEF Sports!Refreshes
  <2>2. changed \in BOOLEAN /\ todos \in SUBSET Sources
    BY <1>2
  <2> HIDE DEF working, status, changed, todos
  <2> QED
    BY <1>1, <1>2, <1>3, <1>4, <2>1, <2>2 DEF Sports!Refreshes
<1> HIDE DEF working, status
<1>6. \A x \in Sources : config.data[x] \in Nat
  BY SportsTypes, ConfigFacts
<1> QED
  BY <1>3, <1>5, <1>6, ConfigFacts DEF Sports!SportsInv, Sports!RefreshIsBehind

LEMMA RefreshIsSafe ==
    ASSUME Sports!SportsInv, NEW s \in Sources, NEW outcome \in {"news", "same", "failed"}, NEW n \in 0..2,
           Sports!Fetched(s, outcome, n)
    PROVE  Sports!SportsInv' /\ SportsStepIsSafe
<1> DEFINE r == [refresh EXCEPT
                   !.working[s] = IF outcome = "news" THEN @ + 1 ELSE @,
                   !.changed = @ \/ outcome = "news",
                   !.status[s] = IF outcome = "failed" THEN "unavailable" ELSE "ready",
                   !.todo = IF paused THEN {} ELSE @ \ {s}]
<1>1. /\ IF r.todo = {} THEN Sports!Finish(r, n)
         ELSE n = 2 /\ refresh' = r /\ UNCHANGED <<stored, config, statuses>>
      /\ UNCHANGED <<page, newest>>
  BY DEF Sports!Fetched
<1>2. refresh # Sports!None /\ (outcome = "news" => refresh.working[s] < MaxData)
  BY DEF Sports!Fetched
<1>3. /\ r \in Sports!Refreshes /\ r # Sports!None
      /\ r.revision <= config.revision
      /\ r.revision = config.revision =>
           r.edit = config.edit /\ \A x \in Sources : config.data[x] <= r.working[x]
  BY <1>2, Answers
<1> HIDE DEF r
<1>4. CASE r.todo # {}
  BY <1>1, <1>3, <1>4, SportsTypes, ConfigFacts
     DEF Sports!SportsInv, Sports!TypeOK, Sports!NewestIsSaved, Sports!PageIsBehind, Sports!RefreshIsBehind,
         SportsStepIsSafe
<1>5. CASE r.todo = {}
  <2>1. refresh' = Sports!None /\ statuses' \in [Sources -> Sports!Outcomes]
    BY <1>1, <1>3, <1>5, SportsTypes, ConfigFacts DEF Sports!Finish
  <2>2. CASE UNCHANGED <<stored, config>>
    BY <1>1, <2>1, <2>2, SportsTypes, ConfigFacts
       DEF Sports!SportsInv, Sports!TypeOK, Sports!NewestIsSaved, Sports!PageIsBehind, Sports!RefreshIsBehind,
           SportsStepIsSafe
  <2>3. CASE config.revision = r.revision /\ Sports!Commit(r.edit, r.working, FALSE)
    <3>1. r.edit \in 0..MaxSaves /\ r.working \in [Sources -> 0..MaxData] /\ r.edit = config.edit
      BY <1>3, <2>3, ConfigFacts
    <3>2. /\ config' \in Sports!Configs /\ stored'.now = config'
          /\ config'.revision = config.revision + 1 /\ config'.edit = r.edit /\ config'.data = r.working
          /\ stored' \in [now : Sports!Configs, previous : Sports!Configs \cup {Sports!None}]
      BY <2>3, <3>1, Committed
    <3>3. \A x \in Sources : config.data[x] <= r.working[x] /\ config.data[x] \in Nat /\ r.working[x] \in Nat
      BY <1>3, <2>3, SportsTypes, ConfigFacts
    <3>4. SportsStepIsSafe
      BY <1>1, <3>1, <3>2, <3>3, SportsTypes DEF SportsStepIsSafe
    <3>5. Sports!TypeOK' /\ Sports!NewestIsSaved'
      BY <1>1, <2>1, <3>1, <3>2, SportsTypes DEF Sports!TypeOK, Sports!NewestIsSaved
    <3>6. Sports!PageIsBehind' /\ Sports!RefreshIsBehind'
      <4>1. page.revision \in Nat /\ config.revision \in Nat /\ page.revision <= config.revision
        BY SportsTypes, ConfigFacts DEF Sports!SportsInv, Sports!PageIsBehind
      <4> QED
        BY <1>1, <2>1, <3>2, <4>1 DEF Sports!PageIsBehind, Sports!RefreshIsBehind
    <3> QED
      BY <3>4, <3>5, <3>6 DEF Sports!SportsInv
  <2> QED
    BY <1>1, <1>5, <2>2, <2>3 DEF Sports!Finish
<1> QED
  BY <1>4, <1>5

LEMMA SportsIsSafe ==
    ASSUME Sports!SportsInv,
           Sports!Request \/ Sports!Start \/ Sports!Step \/ Sports!Restart \/ UNCHANGED sports
    PROVE  Sports!SportsInv' /\ SportsStepIsSafe
<1>1. CASE Sports!Start
  <2>1. /\ refresh' = [is |-> "refresh", revision |-> config.revision, edit |-> config.edit,
                       working |-> config.data, changed |-> FALSE, status |-> statuses, todo |-> Sources]
        /\ UNCHANGED <<stored, config, statuses, page, newest>>
    BY <1>1 DEF Sports!Start
  <2>2. /\ config.revision \in Nat /\ config.edit \in 0..MaxSaves /\ config.data \in [Sources -> 0..MaxData]
        /\ \A s \in Sources : config.data[s] \in 0..MaxData
    BY SportsTypes, ConfigFacts
  <2>3. refresh' \in Sports!Refreshes
    BY <2>1, <2>2, SportsTypes DEF Sports!Refreshes
  <2> QED
    BY <2>1, <2>2, <2>3, SportsTypes
       DEF Sports!SportsInv, Sports!TypeOK, Sports!NewestIsSaved, Sports!PageIsBehind, Sports!RefreshIsBehind,
           SportsStepIsSafe
<1>2. CASE Sports!Restart
  <2>1. config' = config /\ refresh' = Sports!None /\ UNCHANGED <<stored, statuses, page, newest>>
    BY <1>2, SportsTypes DEF Sports!Restart
  <2> QED
    BY <2>1, SportsTypes, ConfigFacts
       DEF Sports!SportsInv, Sports!TypeOK, Sports!NewestIsSaved, Sports!PageIsBehind, Sports!RefreshIsBehind,
           SportsStepIsSafe
<1>3. CASE UNCHANGED sports
  BY <1>3, SportsTypes, ConfigFacts
     DEF sports, Sports!SportsInv, Sports!TypeOK, Sports!NewestIsSaved, Sports!PageIsBehind, Sports!RefreshIsBehind,
         SportsStepIsSafe
<1> QED
  BY <1>1, <1>2, <1>3, RequestIsSafe, RefreshIsSafe DEF Sports!Step

LEMMA SportsTurns ==
    ASSUME [Next]_vars
    PROVE  Sports!Request \/ Sports!Start \/ Sports!Step \/ Sports!Restart \/ UNCHANGED sports
<1>1. ASSUME NEW service \in {"uploads", "learning", "updates", "music", "displays", "slides", "lab"}, Only(service)
      PROVE  UNCHANGED sports
  BY <1>1 DEF Only
<1>2. CASE Requests
  BY <1>1, <1>2 DEF Requests, UploadRequest, LearningRequest, UpdatesRequest, SportsRequest, MusicRequest,
     DisplaysRequest, SlidesRequest, LabRequest, AskExport, Quiet
<1>3. CASE Timers
  BY <1>1, <1>3 DEF Timers, UploadCleanup, GradingTimer, UpdatesTimer, SportsTimer, MusicTimer, SlidesTimer, LabTimer
<1>4. CASE Steps
  BY <1>1, <1>4 DEF Steps, UploadStep, FileStep, GradingStep, TickStep, InstallStep, SportsStep, MusicStep,
     DisplaysStep, SlidesStep, LabStep, ExportAnswered, Thaw, Quiet
<1>5. CASE Elapse \/ Outside
  BY <1>1, <1>5 DEF Elapse, Outside
<1>6. CASE Restart \/ UNCHANGED vars
  BY <1>6 DEF Restart, vars
<1> QED
  BY <1>2, <1>3, <1>4, <1>5, <1>6 DEF Next

LEMMA SportsInit == Init => Sports!SportsInv
<1> SUFFICES ASSUME Sports!Init PROVE Sports!SportsInv
  BY DEF Init
<1>1. Sports!Empty \in Sports!Configs
  BY ConfigFacts DEF Sports!Empty, Sports!Configs
<1>2. newest \in [edit : 0..MaxSaves, saves : 0..MaxSaves] /\ newest.edit = 0 /\ config.edit = 0
  BY ConfigFacts DEF Sports!Init, Sports!Empty
<1> QED
  BY <1>1, <1>2, ConfigFacts
     DEF Sports!Init, Sports!SportsInv, Sports!TypeOK, Sports!NewestIsSaved, Sports!PageIsBehind,
         Sports!RefreshIsBehind, Sports!Outcomes

------------------------------------------------------------------------------
(* Background music.                                                       *)

Runtimes ==
    [active : BOOLEAN, source : {"none", "media", "queue"}, playing : BOOLEAN, paused : BOOLEAN,
     held : BOOLEAN, manual : BOOLEAN, stopped : BOOLEAN, started : Windows \cup {"none"}]

\* What is known of operations in flight: nothing fresh begins, something will silence the
\* player, or at least find out that it plays.
Shaped(W) ==
    /\ W \subseteq Music!Ops
    /\ \A o \in W :
        /\ o.at \in {"plays", "pauses", "stops"} => o.is \in {"start", "resume"}
        /\ o.at = "commands" => o.is \in {"pause", "stop"}
Calm(W) == \A o \in W : o.fresh => o.is \notin {"start", "resume"} /\ (o.is = "tick" => o.at # "asks")
Silencing(W) == \E o \in W : Music!Silences(o)
Looking(W) == \E o \in W : Music!Silences(o) \/ (o.is = "look" /\ o.fresh)

MusicIsGood ==
    /\ player \in Music!Players /\ runtime \in Runtimes /\ priority \in BOOLEAN
    /\ presses \in 0..MaxPresses /\ word \in {"music", "silence", "unknown"}
    /\ Shaped(ops)
    /\ word = "silence" => runtime.stopped /\ Calm(ops)
    /\ player = "playing" =>
        /\ word = "silence" => Silencing(ops)
        /\ word # "unknown" /\ priority => Looking(ops)

LEMMA MusicInvIs == Music!MusicInv <=> MusicIsGood
BY DEF Music!MusicInv, MusicIsGood, Music!TypeOK, Music!OpsAreShaped, Music!SilenceIsKept, Music!SilenceIsComing,
       Runtimes, Shaped, Calm, Silencing, Looking

\* Operations as they are made, grow old, and go on.
Aged(o) == [o EXCEPT !.fresh = FALSE]
Went(o, at) == [o EXCEPT !.at = at]
Awaits == {"asks", "joins", "plays", "commands", "pauses", "stops", "waits"}

LEMMA OpFacts ==
    ASSUME NEW is \in {"start", "resume", "pause", "stop", "look", "tick"}, NEW at \in Awaits,
           NEW why \in {"manual", "priority", "recover", "schedule"}, NEW byTick \in BOOLEAN
    PROVE  /\ Music!Op(is, at, why, byTick) \in Music!Ops
           /\ Music!Op(is, at, why, byTick).is = is /\ Music!Op(is, at, why, byTick).at = at
           /\ Music!Op(is, at, why, byTick).fresh
BY DEF Music!Op, Music!Ops, Awaits

LEMMA TickWaits ==
    /\ Music!Op("tick", "waits", "schedule", FALSE) \in Music!Ops
    /\ Music!Op("tick", "waits", "schedule", FALSE).is = "tick"
    /\ Music!Op("tick", "waits", "schedule", FALSE).at = "waits"
    /\ Music!Op("tick", "asks", "schedule", FALSE) \in Music!Ops
    /\ Music!Op("tick", "asks", "schedule", FALSE).is = "tick"
    /\ Music!Op("tick", "asks", "schedule", FALSE).at = "asks"
BY DEF Music!Op, Music!Ops

LEMMA OneOp ==
    ASSUME NEW o \in Music!Ops
    PROVE  /\ Aged(o) \in Music!Ops /\ ~Aged(o).fresh /\ Aged(o).is = o.is /\ Aged(o).at = o.at
           /\ o.byTick \in BOOLEAN /\ o.fresh \in BOOLEAN /\ o.why \in {"manual", "priority", "recover", "schedule"}
           /\ o.is \in {"start", "resume", "pause", "stop", "look", "tick"} /\ o.at \in Awaits
BY DEF Music!Ops, Aged, Awaits

LEMMA OneOpGoesOn ==
    ASSUME NEW o \in Music!Ops, NEW at \in Awaits
    PROVE  Went(o, at) \in Music!Ops /\ Went(o, at).at = at /\ Went(o, at).is = o.is /\ Went(o, at).fresh = o.fresh
BY DEF Music!Ops, Went, Awaits

LEMMA OlderFacts ==
    ASSUME NEW W, Shaped(W)
    PROVE  /\ Shaped(Music!Older(W)) /\ Calm(Music!Older(W))
           /\ Silencing(W) => Silencing(Music!Older(W))
<1>1. Music!Older(W) = {Aged(x) : x \in W} /\ W \subseteq Music!Ops
  BY DEF Music!Older, Aged, Shaped
<1>2. Shaped(Music!Older(W)) /\ Calm(Music!Older(W))
  BY <1>1, OneOp DEF Shaped, Calm
<1>3. ASSUME Silencing(W) PROVE Silencing(Music!Older(W))
  <2>1. PICK x \in W : Music!Silences(x)
    BY <1>3 DEF Silencing
  <2>2. Aged(x) \in Music!Older(W) /\ Aged(x).at = x.at
    BY <1>1, OneOp
  <2> QED
    BY <2>1, <2>2 DEF Silencing, Music!Silences
<1> QED
  BY <1>2, <1>3

LEMMA EndedFacts ==
    ASSUME NEW W, Shaped(W), NEW byTick
    PROVE  /\ Shaped(Music!Ended(W, byTick))
           /\ Calm(W) => Calm(Music!Ended(W, byTick))
           /\ Silencing(W) => Silencing(Music!Ended(W, byTick))
           /\ Looking(W) => Looking(Music!Ended(W, byTick))
<1>1. Music!Ended(W, byTick) \subseteq W
  BY DEF Music!Ended
<1>2. \A o \in W : Music!Silences(o) \/ o.is = "look" => o \in Music!Ended(W, byTick)
  BY DEF Music!Ended, Music!Silences, Shaped
<1> QED
  BY <1>1, <1>2 DEF Shaped, Calm, Silencing, Looking

LEMMA AwaitedFacts ==
    ASSUME NEW W, Shaped(W), NEW byTick \in BOOLEAN
    PROVE  /\ Shaped(Music!Awaited(W, byTick)) /\ W \subseteq Music!Awaited(W, byTick)
           /\ Calm(W) => Calm(Music!Awaited(W, byTick))
<1>1. \A o \in Music!Awaited(W, byTick) : o \in W \/ o = Music!Op("tick", "waits", "schedule", FALSE)
  BY DEF Music!Awaited
<1>2. W \subseteq Music!Awaited(W, byTick)
  BY DEF Music!Awaited
<1> QED
  BY <1>1, <1>2, TickWaits DEF Shaped, Calm

LEMMA MoreOps ==
    ASSUME NEW V, NEW W, V \subseteq W
    PROVE  (Silencing(V) => Silencing(W)) /\ (Looking(V) => Looking(W)) /\ (Silencing(V) => Looking(V))
BY DEF Silencing, Looking

\* One more operation, of the kind that the tick may await.
LEMMA Begun ==
    ASSUME NEW V, Shaped(V), NEW is \in {"start", "resume", "pause", "stop", "look"},
           NEW at \in {"asks", "joins", "plays", "commands"},
           at = "plays" => is \in {"start", "resume"}, at = "commands" <=> is \in {"pause", "stop"},
           NEW why \in {"manual", "priority", "recover", "schedule"}, NEW byTick \in BOOLEAN, NEW W,
           W = Music!Awaited(V, byTick) \cup {Music!Op(is, at, why, byTick)}
    PROVE  /\ Shaped(W) /\ V \subseteq W
           /\ is \notin {"start", "resume"} /\ Calm(V) => Calm(W)
           /\ is \in {"pause", "stop"} => Silencing(W)
           /\ is = "look" => Looking(W)
<1> DEFINE o == Music!Op(is, at, why, byTick)
<1>1. o \in Music!Ops /\ o.is = is /\ o.at = at /\ o.fresh
  BY OpFacts DEF Awaits
<1> HIDE DEF o
<1>2. W = Music!Awaited(V, byTick) \cup {o}
  BY DEF o
<1>3. /\ Shaped(Music!Awaited(V, byTick)) /\ V \subseteq Music!Awaited(V, byTick)
      /\ Calm(V) => Calm(Music!Awaited(V, byTick))
  BY AwaitedFacts
<1> QED
  BY <1>1, <1>2, <1>3 DEF Shaped, Calm, Silencing, Looking, Music!Silences

LEMMA HaltFacts ==
    ASSUME NEW W, Shaped(W), NEW is \in {"pause", "stop"}, NEW why \in {"manual", "priority", "schedule"},
           NEW byTick \in BOOLEAN, Music!Halt(W, is, why, byTick)
    PROVE  Shaped(ops') /\ Calm(ops') /\ Silencing(ops') /\ Looking(ops')
<1>1. ops' = Music!Awaited(Music!Older(W), byTick) \cup {Music!Op(is, "commands", why, byTick)}
  BY DEF Music!Halt
<1>2. Shaped(Music!Older(W)) /\ Calm(Music!Older(W))
  BY OlderFacts
<1> DEFINE V == Music!Older(W)
<1> HIDE DEF V
<1>3. ops' = Music!Awaited(V, byTick) \cup {Music!Op(is, "commands", why, byTick)} /\ Shaped(V) /\ Calm(V)
  BY <1>1, <1>2 DEF V
<1>4. Shaped(ops') /\ Calm(ops') /\ Silencing(ops')
  BY <1>3, Begun
<1> QED
  BY <1>4, MoreOps

LEMMA ResumeFacts ==
    ASSUME NEW W, Shaped(W), NEW r \in Runtimes, NEW why \in {"manual", "priority", "recover"},
           NEW byTick \in BOOLEAN, Music!Resume(W, r, why, byTick)
    PROVE  /\ Shaped(ops') /\ (Silencing(W) => Silencing(ops'))
           /\ runtime' \in Runtimes /\ (why # "manual" => runtime' = r)
<1>1. CASE ops' = Music!Ended(W, byTick) /\ runtime' = r
  BY <1>1, EndedFacts
<1>2. CASE \E at \in {"asks", "plays"} :
             ops' = Music!Awaited(Music!Older(W), byTick) \cup {Music!Op("resume", at, why, byTick)}
  <2>1. Shaped(ops') /\ Music!Older(W) \subseteq ops'
    <3>1. PICK at \in {"asks", "plays"} :
            ops' = Music!Awaited(Music!Older(W), byTick) \cup {Music!Op("resume", at, why, byTick)}
      BY <1>2
    <3>2. Shaped(Music!Older(W))
      BY OlderFacts
    <3> DEFINE o == Music!Op("resume", at, why, byTick)
               V == Music!Older(W)
    <3>3. o \in Music!Ops /\ o.is = "resume" /\ o.at = at
      BY <3>1, OpFacts DEF Awaits
    <3>4. Shaped(Music!Awaited(V, byTick)) /\ V \subseteq Music!Awaited(V, byTick)
      BY <3>2, AwaitedFacts
    <3> HIDE DEF o
    <3>5. ops' = Music!Awaited(V, byTick) \cup {o}
      BY <3>1 DEF o
    <3> QED
      BY <3>1, <3>3, <3>4, <3>5 DEF Shaped
  <2>2. runtime' = r \/ (why = "manual" /\ runtime' = [r EXCEPT !.stopped = FALSE])
    BY <1>2 DEF Music!Resume
  <2>3. [r EXCEPT !.stopped = FALSE] \in Runtimes
    BY DEF Runtimes
  <2> QED
    BY <2>1, <2>2, <2>3, OlderFacts, MoreOps
<1> QED
  BY <1>1, <1>2 DEF Music!Resume

LEMMA StartFacts ==
    ASSUME NEW W, Shaped(W), NEW why \in {"manual", "recover", "schedule"},
           NEW byTick \in BOOLEAN, Music!Start(W, why, byTick)
    PROVE  Shaped(ops')
<1>1. \/ ops' = Music!Ended(W, byTick)
      \/ ops' = Music!Awaited(Music!Older(W), byTick) \cup {Music!Op("start", "asks", why, byTick)}
  BY DEF Music!Start
<1> QED
  BY <1>1, OlderFacts, EndedFacts, Begun

LEMMA ReconcileFacts ==
    ASSUME NEW W, Shaped(W), NEW r \in Runtimes, NEW byTick \in BOOLEAN, Music!Reconcile(W, r, byTick)
    PROVE  /\ Shaped(ops') /\ runtime' = r
           /\ Calm(W) /\ r.stopped => Calm(ops')
           /\ Silencing(W) => Silencing(ops')
           /\ priority' => Looking(ops')
<1>1. CASE /\ \E at \in {"asks", "joins"} :
                ops' = Music!Awaited(W, byTick) \cup {Music!Op("look", at, "priority", byTick)}
           /\ runtime' = r
  BY <1>1, Begun, MoreOps
<1>2. CASE Music!Halt(W, "pause", "priority", byTick) /\ runtime' = r
  BY <1>2, HaltFacts
<1>3. CASE ~priority' /\ ~r.stopped /\ Music!Resume(W, r, "priority", byTick)
  BY <1>3, ResumeFacts
<1>4. CASE ~priority' /\ ops' = Music!Ended(W, byTick) /\ runtime' = r
  BY <1>4, EndedFacts
<1> QED
  BY <1>1, <1>2, <1>3, <1>4 DEF Music!Reconcile

LEMMA MusicRequestGood ==
    ASSUME MusicIsGood, Music!Request
    PROVE  MusicIsGood'
<1> USE DEF MusicIsGood
<1>1. presses' \in 0..MaxPresses /\ player' = player
  <2>1. MaxPresses \in Nat
    BY BoundsAssumption
  <2> QED
    BY <2>1 DEF Music!Request
<1>2. CASE /\ ~priority /\ UNCHANGED priority /\ word' = IF word = "silence" THEN "music" ELSE word
           /\ (Music!Start(ops, "manual", FALSE) /\ UNCHANGED runtime) \/ Music!Resume(ops, runtime, "manual", FALSE)
  <2>1. Shaped(ops') /\ runtime' \in Runtimes
    BY <1>2, StartFacts, ResumeFacts
  <2> QED
    BY <1>1, <1>2, <2>1
<1>3. CASE \E is \in {"pause", "stop"} :
             /\ runtime' = [runtime EXCEPT !.stopped = TRUE]
             /\ Music!Halt(ops, is, "manual", FALSE)
             /\ word' = IF word = "music" THEN "silence" ELSE word
             /\ UNCHANGED priority
  <2>1. Shaped(ops') /\ Calm(ops') /\ Silencing(ops') /\ Looking(ops')
    BY <1>3, HaltFacts
  <2>2. runtime' \in Runtimes /\ runtime'.stopped
    BY <1>3 DEF Runtimes
  <2> QED
    BY <1>1, <1>3, <2>1, <2>2
<1>4. CASE priority' = TRUE /\ Music!Reconcile(ops, runtime, FALSE) /\ UNCHANGED word
  BY <1>1, <1>4, ReconcileFacts
<1> QED
  BY <1>2, <1>3, <1>4 DEF Music!Request

LEMMA ReleaseGood ==
    ASSUME MusicIsGood, Music!Release
    PROVE  MusicIsGood'
BY ReconcileFacts DEF MusicIsGood, Music!Release

LEMMA TickGood ==
    ASSUME MusicIsGood, Music!Tick
    PROVE  MusicIsGood'
<1> USE DEF MusicIsGood
<1>1. UNCHANGED <<player, presses, priority>>
  BY DEF Music!Tick
<1>2. CASE Music!TickOutside
  BY <1>1, <1>2, HaltFacts DEF Music!TickOutside
<1>3. ASSUME NEW key \in Windows \cup {"none"}, Music!TickInside(key)
      PROVE  MusicIsGood'
  <2> DEFINE r == IF key # "none" /\ runtime.started # key
                  THEN [runtime EXCEPT !.started = key, !.stopped = FALSE] ELSE runtime
  <2>1. r \in Runtimes /\ (r = runtime \/ ~r.stopped)
    BY DEF Runtimes
  <2>2. /\ word' = IF r # runtime /\ word = "silence" THEN "music" ELSE word
        /\ \/ r # runtime /\ runtime' = r /\ UNCHANGED ops
           \/ ~r.stopped /\ priority /\ Music!Reconcile(ops, r, TRUE)
           \/ /\ ~r.stopped /\ ~priority /\ runtime' = r
              /\ ops' = ops \cup {Music!Op("tick", "asks", "schedule", FALSE)}
    BY <1>3 DEF Music!TickInside
  <2> HIDE DEF r
  <2>3. word' # "silence" /\ (word = "unknown" => word' = "unknown") /\ word' \in {"music", "unknown"}
    BY <2>1, <2>2
  <2>4. CASE r # runtime /\ runtime' = r /\ UNCHANGED ops
    BY <1>1, <2>1, <2>3, <2>4
  <2>5. CASE ~r.stopped /\ priority /\ Music!Reconcile(ops, r, TRUE)
    BY <1>1, <2>1, <2>3, <2>5, ReconcileFacts
  <2>6. CASE ~priority /\ runtime' = r /\ ops' = ops \cup {Music!Op("tick", "asks", "schedule", FALSE)}
    <3>1. Shaped(ops')
      BY <2>6, TickWaits DEF Shaped
    <3> QED
      BY <1>1, <2>1, <2>3, <2>6, <3>1
  <2> QED
    BY <2>2, <2>4, <2>5, <2>6
<1> QED
  BY <1>2, <1>3 DEF Music!Tick

\* Without one operation.
LEMMA LessOne ==
    ASSUME NEW o \in ops, Shaped(ops)
    PROVE  /\ Shaped(ops \ {o}) /\ (Calm(ops) => Calm(ops \ {o})) /\ o \in Music!Ops
           /\ ~Music!Silences(o) => (Silencing(ops) => Silencing(ops \ {o}))
           /\ ~Music!Silences(o) /\ ~(o.is = "look" /\ o.fresh) => (Looking(ops) => Looking(ops \ {o}))
BY DEF Shaped, Calm, Silencing, Looking

LEMMA TickSeesGood ==
    ASSUME MusicIsGood, NEW o \in ops, o.is = "tick", o.at = "asks", NEW seen,
           UNCHANGED <<player, priority, word, presses>>, Music!TickSees(o, seen)
    PROVE  MusicIsGood'
<1> DEFINE W == ops \ {o}
           observed == [runtime EXCEPT !.playing = (seen = "playing"), !.paused = (seen = "paused")]
<1>1. /\ Shaped(W) /\ (Calm(ops) => Calm(W)) /\ (Silencing(ops) => Silencing(W)) /\ (Looking(ops) => Looking(W))
      /\ o.fresh \in BOOLEAN
  BY LessOne, OneOp DEF MusicIsGood, Music!Silences
<1>2. observed \in Runtimes /\ runtime \in Runtimes
  BY DEF MusicIsGood, Runtimes
<1>3. \A r \in Runtimes :
        /\ [r EXCEPT !.active = TRUE] \in Runtimes /\ [r EXCEPT !.stopped = TRUE, !.manual = FALSE] \in Runtimes
        /\ [r EXCEPT !.playing = FALSE] \in Runtimes
  BY DEF Runtimes
<1>4. word = "silence" => ~o.fresh
  BY DEF MusicIsGood, Calm
<1>5. ASSUME NEW r, Music!Quit(W, r)
      PROVE  ops' = Music!Ended(W, TRUE) /\ runtime' = r
  BY <1>5 DEF Music!Quit
<1>6. ASSUME NEW r \in Runtimes, Music!Recover(W, r)
      PROVE  Shaped(ops') /\ runtime' \in Runtimes
  <2>1. CASE Music!Resume(W, r, "recover", TRUE)
    BY <1>1, <2>1, ResumeFacts
  <2>2. CASE (\E why \in {"recover", "schedule"} : Music!Start(W, why, TRUE)) /\ runtime' = r
    BY <1>1, <2>2, StartFacts
  <2> QED
    BY <1>6, <2>1, <2>2 DEF Music!Recover
<1> HIDE DEF W, observed
<1>7. CASE ~o.fresh
  <2>1. ops' = Music!Ended(W, TRUE) /\ runtime' = runtime
    BY <1>5, <1>7 DEF Music!TickSees, W
  <2> QED
    BY <1>1, <2>1, EndedFacts DEF MusicIsGood
<1>8. CASE o.fresh /\ priority
  <2>1. Music!Reconcile(W, runtime, TRUE)
    BY <1>8 DEF Music!TickSees, W
  <2> QED
    BY <1>1, <1>4, <1>8, <2>1, ReconcileFacts DEF MusicIsGood
<1>9. CASE o.fresh /\ ~priority
  <2> DEFINE left == {[runtime EXCEPT !.playing = FALSE], runtime, [observed EXCEPT !.active = TRUE], observed,
                      [observed EXCEPT !.stopped = TRUE, !.manual = FALSE]}
  <2>1. \/ \E r \in left : Music!Quit(W, r)
        \/ Music!Resume(W, runtime, "priority", TRUE)
        \/ Music!Recover(W, [observed EXCEPT !.playing = FALSE]) \/ Music!Recover(W, observed)
    BY <1>9 DEF Music!TickSees, W, observed
  <2>2. Shaped(ops') /\ runtime' \in Runtimes
    <3>1. CASE \E r \in left : Music!Quit(W, r)
      <4>1. left \subseteq Runtimes
        BY <1>2, <1>3
      <4>2. PICK r \in left : ops' = Music!Ended(W, TRUE) /\ runtime' = r
        BY <1>5, <3>1
      <4> HIDE DEF left
      <4> QED
        BY <1>1, <4>1, <4>2, EndedFacts
    <3>2. CASE Music!Resume(W, runtime, "priority", TRUE)
      BY <1>1, <3>2, ResumeFacts DEF MusicIsGood
    <3> QED
      BY <1>2, <1>3, <1>6, <2>1, <3>1, <3>2
  <2> QED
    BY <1>4, <1>9, <2>2 DEF MusicIsGood
<1> QED
  BY <1>1, <1>7, <1>8, <1>9 DEF MusicIsGood

LEMMA AskedGood ==
    ASSUME MusicIsGood, NEW o \in ops, NEW found, Music!Asked(o, found), UNCHANGED <<priority, presses>>
    PROVE  MusicIsGood'
<1>1. /\ Shaped(ops \ {o}) /\ (Calm(ops) => Calm(ops \ {o})) /\ (Silencing(ops) => Silencing(ops \ {o}))
      /\ (Looking(ops) => Looking(ops \ {o})) /\ o \in Music!Ops
  BY LessOne DEF MusicIsGood, Music!Silences, Music!Asked
<1>2. UNCHANGED <<player, word>> /\ o.is \in {"start", "resume"}
  BY DEF Music!Asked
<1>3. CASE o.fresh /\ ~priority /\ found
  <2>1. ops' = (ops \ {o}) \cup {Went(o, "plays")} /\ "plays" \in Awaits
    BY <1>3 DEF Music!Asked, Went, Awaits
  <2>2. Shaped(ops')
    BY <1>1, <1>2, <2>1, OneOpGoesOn DEF Shaped
  <2>3. word # "silence"
    BY <1>2, <1>3 DEF MusicIsGood, Calm
  <2>4. Music!Adopted(runtime, o.why) \in Runtimes
    BY DEF MusicIsGood, Music!Adopted, Runtimes
  <2>5. \A r \in Runtimes : [r EXCEPT !.stopped = @ /\ o.why # "manual"] \in Runtimes
    BY DEF Runtimes
  <2>6. [runtime EXCEPT !.active = TRUE, !.source = "media",
                        !.manual = IF o.why = "recover" THEN @ ELSE o.why = "manual"] \in Runtimes
    BY DEF MusicIsGood, Runtimes
  <2>7. runtime' \in Runtimes
    BY <1>3, <2>4, <2>5, <2>6 DEF Music!Asked
  <2> QED
    BY <1>2, <1>3, <2>2, <2>3, <2>7 DEF MusicIsGood
<1>4. CASE ~(o.fresh /\ ~priority /\ found)
  <2>1. ops' = Music!Ended(ops \ {o}, o.byTick) /\ UNCHANGED runtime
    BY <1>4 DEF Music!Asked
  <2> QED
    BY <1>1, <1>2, <2>1, EndedFacts DEF MusicIsGood
<1> QED
  BY <1>3, <1>4

LEMMA PlayedGood ==
    ASSUME MusicIsGood, NEW o \in ops, Music!Played(o), UNCHANGED <<priority, presses>>
    PROVE  MusicIsGood'
<1>1. Shaped(ops \ {o}) /\ (Calm(ops) => Calm(ops \ {o})) /\ o \in Music!Ops
  BY LessOne DEF MusicIsGood
<1>2. player' = "playing" /\ word' = word /\ o.is \in {"start", "resume"}
  BY DEF Music!Played, MusicIsGood, Shaped
<1>3. CASE o.fresh /\ ~priority
  <2>1. ops' = Music!Ended(ops \ {o}, o.byTick)
    BY <1>3 DEF Music!Played
  <2>2. word # "silence"
    BY <1>2, <1>3 DEF MusicIsGood, Calm
  <2>3. runtime' \in Runtimes
    BY <1>3 DEF Music!Played, MusicIsGood, Runtimes
  <2> QED
    BY <1>1, <1>2, <1>3, <2>1, <2>2, <2>3, EndedFacts DEF MusicIsGood, Music!Players
<1>4. CASE ~(o.fresh /\ ~priority)
  <2>1. UNCHANGED runtime
    BY <1>4 DEF Music!Played
  <2>2. CASE \E at \in {"pauses", "stops"} : ops' = (ops \ {o}) \cup {Went(o, at)}
    <3>1. PICK at \in {"pauses", "stops"} : ops' = (ops \ {o}) \cup {Went(o, at)}
      BY <2>2
    <3> DEFINE x == Went(o, at)
    <3>2. x \in Music!Ops /\ x.at = at /\ x.is = o.is /\ x.fresh = o.fresh /\ ops' = (ops \ {o}) \cup {x}
      BY <1>1, <3>1, OneOpGoesOn DEF Awaits
    <3> HIDE DEF x
    <3>3. Shaped(ops') /\ Silencing(ops') /\ Looking(ops')
      BY <1>1, <1>2, <3>2 DEF Shaped, Silencing, Looking, Music!Silences
    <3>4. Calm(ops) => Calm(ops')
      BY <1>1, <1>2, <3>2 DEF Calm
    <3> QED
      BY <1>2, <2>1, <3>3, <3>4 DEF MusicIsGood, Music!Players
  <2>3. CASE ~priority /\ ~runtime.stopped /\ ops' = Music!Ended(ops \ {o}, o.byTick)
    BY <1>1, <1>2, <2>1, <2>3, EndedFacts DEF MusicIsGood, Music!Players
  <2> QED
    BY <1>4, <2>2, <2>3 DEF Music!Played, Went
<1> QED
  BY <1>3, <1>4

LEMMA SilencedGood ==
    ASSUME MusicIsGood, NEW o \in ops, Music!Undone(o) \/ Music!Halted(o), UNCHANGED <<priority, presses>>
    PROVE  MusicIsGood'
<1>1. Shaped(ops \ {o}) /\ (Calm(ops) => Calm(ops \ {o})) /\ o \in Music!Ops
  BY LessOne DEF MusicIsGood
<1>2. player' \in Music!Players /\ player' # "playing"
  BY DEF MusicIsGood, Music!Undone, Music!Halted, Music!Silenced, Music!Players
<1>3. ops' = Music!Ended(ops \ {o}, o.byTick) /\ word' = word
  BY DEF Music!Undone, Music!Halted
<1>4. runtime' \in Runtimes /\ runtime'.stopped = runtime.stopped
  <2>1. CASE Music!Undone(o)
    BY <2>1 DEF Music!Undone, MusicIsGood, Runtimes
  <2>2. CASE Music!Halted(o)
    BY <2>2 DEF Music!Halted, MusicIsGood, Runtimes, Music!Idle
  <2> QED
    BY <2>1, <2>2
<1> QED
  BY <1>1, <1>2, <1>3, <1>4, EndedFacts DEF MusicIsGood

LEMMA UnansweredGood ==
    ASSUME MusicIsGood, NEW o \in ops, Music!Unanswered(o), UNCHANGED <<priority, presses>>
    PROVE  MusicIsGood'
<1>1. Shaped(ops \ {o})
  BY LessOne DEF MusicIsGood
<1>2. player' \in Music!Players
  BY DEF MusicIsGood, Music!Unanswered, Music!Silenced, Music!Players
<1>3. ops' = Music!Ended(ops \ {o}, o.byTick) /\ word' = "unknown"
  BY DEF Music!Unanswered
<1>4. runtime' \in Runtimes
  BY DEF Music!Unanswered, MusicIsGood, Runtimes
<1> QED
  BY <1>1, <1>2, <1>3, <1>4, EndedFacts DEF MusicIsGood

LEMMA LookedGood ==
    ASSUME MusicIsGood, NEW o \in ops, NEW seen, Music!Looked(o, seen), UNCHANGED <<priority, presses>>
    PROVE  MusicIsGood'
<1>1. /\ Shaped(ops \ {o}) /\ (Calm(ops) => Calm(ops \ {o})) /\ o \in Music!Ops /\ ~Music!Silences(o)
      /\ Silencing(ops) => Silencing(ops \ {o})
      /\ ~o.fresh /\ Looking(ops) => Looking(ops \ {o})
  BY LessOne DEF MusicIsGood, Music!Looked, Music!Silences, Shaped
<1>2. UNCHANGED player /\ word' = IF seen = player THEN word ELSE "unknown"
  BY DEF Music!Looked
<1>3. CASE o.fresh /\ priority /\ (seen = "playing" \/ runtime.playing)
  <2>1. Music!Halt(ops \ {o}, "pause", "priority", o.byTick)
    BY <1>3 DEF Music!Looked
  <2>2. o.byTick \in BOOLEAN
    BY <1>1, OneOp
  <2>4. Shaped(ops') /\ Calm(ops') /\ Silencing(ops') /\ Looking(ops')
    BY <1>1, <2>1, <2>2, HaltFacts
  <2>3. runtime' \in Runtimes /\ runtime'.stopped = runtime.stopped
    BY <1>3 DEF Music!Looked, MusicIsGood, Runtimes
  <2> QED
    BY <1>2, <2>3, <2>4 DEF MusicIsGood
<1>4. CASE ~(o.fresh /\ priority /\ (seen = "playing" \/ runtime.playing))
  <2>1. ops' = Music!Ended(ops \ {o}, o.byTick) /\ UNCHANGED runtime
    BY <1>4 DEF Music!Looked
  <2>2. player = "playing" /\ word' # "unknown" /\ priority => ~o.fresh
    BY <1>2, <1>4
  <2> QED
    BY <1>1, <1>2, <2>1, <2>2, EndedFacts DEF MusicIsGood
<1> QED
  BY <1>3, <1>4

LEMMA MusicStepGood ==
    ASSUME MusicIsGood, Music!Step
    PROVE  MusicIsGood'
<1> PICK o \in ops :
      \/ \E found \in BOOLEAN : Music!Asked(o, found)
      \/ Music!Played(o) \/ Music!Undone(o) \/ Music!Halted(o) \/ Music!Unanswered(o)
      \/ \E seen \in IF o.at = "joins" THEN Music!Players ELSE {player} : Music!Looked(o, seen)
      \/ /\ o.is = "tick" /\ o.at = "asks" /\ UNCHANGED <<player, priority, word>>
         /\ \E seen \in Music!Players \cup {"missing"} : Music!TickSees(o, seen)
  BY DEF Music!Step
<1>1. UNCHANGED <<priority, presses>>
  BY DEF Music!Step
<1>2. CASE \E found \in BOOLEAN : Music!Asked(o, found)
  BY <1>1, <1>2, AskedGood
<1>3. CASE \E seen \in IF o.at = "joins" THEN Music!Players ELSE {player} : Music!Looked(o, seen)
  BY <1>1, <1>3, LookedGood
<1>4. CASE /\ o.is = "tick" /\ o.at = "asks" /\ UNCHANGED <<player, priority, word>>
           /\ \E seen \in Music!Players \cup {"missing"} : Music!TickSees(o, seen)
  BY <1>1, <1>4, TickSeesGood
<1> QED
  BY <1>1, <1>2, <1>3, <1>4, PlayedGood, SilencedGood, UnansweredGood

LEMMA MusicGood ==
    ASSUME MusicIsGood,
           \/ Music!Request \/ Music!Release \/ Music!Tick \/ Music!Step \/ Music!PlayerEnds \/ Music!Restart
           \/ UNCHANGED music
    PROVE  MusicIsGood'
<1>1. CASE Music!PlayerEnds
  BY <1>1 DEF MusicIsGood, Music!PlayerEnds, Music!Players
<1>2. CASE Music!Restart
  BY <1>2 DEF MusicIsGood, Music!Restart, Music!Idle, Runtimes, Shaped
<1>3. CASE UNCHANGED music
  BY <1>3 DEF music, MusicIsGood
<1> QED
  BY <1>1, <1>2, <1>3, MusicRequestGood, ReleaseGood, TickGood, MusicStepGood

LEMMA MusicTurns ==
    ASSUME [Next]_vars
    PROVE  \/ Music!Request \/ Music!Release \/ Music!Tick \/ Music!Step \/ Music!PlayerEnds \/ Music!Restart
           \/ UNCHANGED music
<1>1. ASSUME NEW service \in {"uploads", "learning", "updates", "sports", "displays", "slides", "lab"}, Only(service)
      PROVE  UNCHANGED music
  BY <1>1 DEF Only
<1>2. CASE Requests
  BY <1>1, <1>2 DEF Requests, UploadRequest, LearningRequest, UpdatesRequest, SportsRequest, MusicRequest,
     DisplaysRequest, SlidesRequest, LabRequest, AskExport, Quiet
<1>3. CASE Timers
  BY <1>1, <1>3 DEF Timers, UploadCleanup, GradingTimer, UpdatesTimer, SportsTimer, MusicTimer, SlidesTimer, LabTimer
<1>4. CASE Steps
  BY <1>1, <1>4 DEF Steps, UploadStep, FileStep, GradingStep, TickStep, InstallStep, SportsStep, MusicStep,
     DisplaysStep, SlidesStep, LabStep, ExportAnswered, Thaw, Quiet
<1>5. CASE Elapse \/ Outside
  BY <1>1, <1>5 DEF Elapse, Outside
<1>6. CASE Restart \/ UNCHANGED vars
  BY <1>6 DEF Restart, vars
<1> QED
  BY <1>2, <1>3, <1>4, <1>5, <1>6 DEF Next

LEMMA MusicKept ==
    ASSUME Music!MusicInv, [Next]_vars
    PROVE  Music!MusicInv'
<1>1. MusicIsGood'
  BY MusicInvIs, MusicTurns, MusicGood
<1> QED
  BY <1>1 DEF Music!MusicInv, MusicIsGood, Music!TypeOK, Music!OpsAreShaped, Music!SilenceIsKept,
     Music!SilenceIsComing, Runtimes, Shaped, Calm, Silencing, Looking

LEMMA MusicInit == Init => Music!MusicInv
<1> SUFFICES ASSUME Music!Init PROVE MusicIsGood
  BY MusicInvIs DEF Init
<1>1. MaxPresses \in Nat
  BY BoundsAssumption
<1>2. runtime \in Runtimes
  BY DEF Music!Init, Music!Idle, Runtimes
<1>3. Shaped(ops)
  BY DEF Music!Init, Shaped
<1>4. presses \in 0..MaxPresses
  BY <1>1 DEF Music!Init
<1>5. /\ player = "quiet" /\ player \in Music!Players /\ priority = FALSE /\ priority \in BOOLEAN
      /\ word = "music"
  BY DEF Music!Init, Music!Players
<1> QED
  BY <1>2, <1>3, <1>4, <1>5 DEF MusicIsGood

------------------------------------------------------------------------------
\* What was asked for earlier does not replace what came later: grades are of the writing as
\* it is, an operator's edit outlives a refresh in flight, and music that was being started
\* when silence was asked for does not play on.
THEOREM NewerKept == Spec => NewerWorkIsKept
<1>1. Init => Learning!TypeOK /\ Sports!SportsInv /\ Music!MusicInv
  BY LearningInit, SportsInit, MusicInit
<1>2. Learning!TypeOK /\ [Next]_vars => Learning!TypeOK' /\ GradedWell
  BY LearningTurns, LearningGrades
<1>3. Sports!SportsInv /\ [Next]_vars => Sports!SportsInv' /\ SportsStepIsSafe
  BY SportsTurns, SportsIsSafe
<1>4. Music!MusicInv /\ [Next]_vars => Music!MusicInv'
  BY MusicKept
<1>5. Music!MusicInv => Music!LastWordIsQuiet
  BY MusicInvIs DEF MusicIsGood, Silencing, Looking, Music!LastWordIsQuiet
<1>6. Learning!TypeOK /\ [Next]_vars =>
        [review' # review /\ review'.status \in {"needs_review", "approved"} =>
            /\ review'.fp.edit = writing'.edit
            /\ grading' # grading => pending' = Learning!None \/ pending'.fp = review'.fp]_Learning!vars
  BY <1>2 DEF GradedWell
<1>7. Sports!SportsInv /\ [Next]_vars =>
        [/\ config'.edit = newest'.edit
         /\ (\E s \in Sources : config'.data[s] < config.data[s]) =>
               newest' # newest /\ config'.data = stored.previous.data]_<<config, stored, newest>>
  BY <1>3 DEF SportsStepIsSafe
<1> QED
  BY <1>1, <1>2, <1>3, <1>4, <1>5, <1>6, <1>7, PTL
     DEF Spec, NewerWorkIsKept, Learning!GradesAreOfThisWriting, Sports!EditsSurvive

------------------------------------------------------------------------------
(* The router of commands to the displays.                                 *)

\* A command writes what it shows, or what clears the screen for it.
LEMMA WriterFacts ==
    ASSUME NEW n \in Nat, n > 0
    PROVE  /\ Display!Writer(Display!Content(n)) = kinds[n] /\ Display!Writer(Display!Clearing(n)) = kinds[n]
           /\ n <= MaxCommands => Display!Content(n) \in Display!Contents /\ Display!Clearing(n) \in Display!Contents
<1>1. MaxCommands \in Nat
  BY BoundsAssumption
<1>2. /\ 2 * n # 0 /\ 2 * n - 1 # 0 /\ (2 * n + 1) \div 2 = n /\ ((2 * n - 1) + 1) \div 2 = n
      /\ n <= MaxCommands => 2 * n \in 0..(2 * MaxCommands) /\ 2 * n - 1 \in 0..(2 * MaxCommands)
  BY <1>1
<1> QED
  BY <1>2 DEF Display!Writer, Display!Content, Display!Clearing, Display!Contents

LEMMA KindsFacts ==
    ASSUME Display!TypeOK, NEW n \in DOMAIN kinds
    PROVE  n \in Nat /\ n > 0 /\ n <= MaxCommands /\ n \in 1..MaxCommands /\ kinds[n] \in Display!Kinds
<1>1. MaxCommands \in Nat
  BY BoundsAssumption
<1> QED
  BY <1>1 DEF Display!TypeOK

\* What the streams of announcements show.
Streams == {Display!Content(n) : n \in {m \in DOMAIN kinds : kinds[m] = "stream"}}

LEMMA StreamsFacts ==
    ASSUME Display!TypeOK
    PROVE  Streams \subseteq Display!Contents /\ \A x \in Streams : Display!Writer(x) = "stream"
BY KindsFacts, WriterFacts DEF Streams

CommandIsKnown(c) ==
    /\ c.n \in DOMAIN kinds
    /\ c.pc \in {"clear", "clearing"} => kinds[c.n] = "media"
    /\ c.owns \subseteq Streams

LEMMA KnownCommands ==
    ASSUME Display!DisplaysInv, NEW c \in commands
    PROVE  /\ c \in Display!Commands /\ CommandIsKnown(c)
           /\ c.targets \subseteq Displays /\ c.left \subseteq Displays
           /\ c.n \in DOMAIN kinds /\ c.n \in 1..MaxCommands /\ c.n \in Nat /\ c.n > 0 /\ c.n <= MaxCommands
           /\ kinds[c.n] \in Display!Kinds
BY KindsFacts
   DEF Display!DisplaysInv, Display!TypeOK, Display!CommandsAreKnown, Display!Commands, CommandIsKnown, Streams

\* A command that goes on.
LEMMA CommandEdits ==
    ASSUME NEW c \in Display!Commands, CommandIsKnown(c)
    PROVE  /\ \A pc \in {"clearing", "publish"}, left \in SUBSET Displays :
                (pc = "clearing" => kinds[c.n] = "media") =>
                   /\ [c EXCEPT !.pc = pc, !.left = left] \in Display!Commands
                   /\ CommandIsKnown([c EXCEPT !.pc = pc, !.left = left])
           /\ \A targets \in SUBSET Displays : kinds[c.n] = "media" =>
                   /\ [c EXCEPT !.targets = targets, !.pc = "clear"] \in Display!Commands
                   /\ CommandIsKnown([c EXCEPT !.targets = targets, !.pc = "clear"])
           /\ \A left \in SUBSET Displays :
                   /\ [c EXCEPT !.left = left] \in Display!Commands
                   /\ CommandIsKnown([c EXCEPT !.left = left])
BY DEF Display!Commands, CommandIsKnown

\* One command goes on or ends, and no command comes.
LEMMA CommandsGoOn ==
    ASSUME Display!DisplaysInv, kinds' = kinds,
           \A x \in commands' : x \in commands \/ (x \in Display!Commands /\ CommandIsKnown(x))
    PROVE  commands' \subseteq Display!Commands /\ Display!CommandsAreKnown'
<1>1. \A x \in commands' : x \in Display!Commands /\ CommandIsKnown(x)
  BY KnownCommands
<1> QED
  BY <1>1 DEF Display!CommandsAreKnown, CommandIsKnown, Streams

\* The displays are as they were, or a receiver connects or goes.
LEMMA DisplaysStay ==
    ASSUME Display!DisplaysInv, UNCHANGED <<content, mqtt, kinds>>,
           commands' \subseteq Display!Commands, Display!CommandsAreKnown',
           online' \subseteq Displays, lock' \subseteq Displays, reserved' \subseteq Displays,
           phase' \in {"none", "playing", "releasing"},
           screens' \in [Displays -> Display!Contents \cup {Display!Waiting}],
           \A d \in online' : screens'[d] \in {content[d], Display!Waiting}
    PROVE  Display!DisplaysInv'
BY DEF Display!DisplaysInv, Display!TypeOK, Display!ReceiversFollow

LEMMA WriteKeeps ==
    ASSUME Display!DisplaysInv, NEW c \in commands, NEW id \in Display!Contents, NEW targets \in SUBSET Displays,
           NEW pc \in {"clearing", "publish"}, pc = "clearing" => kinds[c.n] = "media",
           Display!Write(c, id, targets, pc), UNCHANGED <<online, lock, phase, reserved, kinds>>
    PROVE  Display!DisplaysInv'
<1>1. commands' \subseteq Display!Commands /\ Display!CommandsAreKnown'
  <2>1. PICK left \in {{}, targets} : commands' = (commands \ {c}) \cup {[c EXCEPT !.pc = pc, !.left = left]}
    BY DEF Display!Write, Display!Replace
  <2> DEFINE x == [c EXCEPT !.pc = pc, !.left = left]
  <2>2. x \in Display!Commands /\ CommandIsKnown(x)
    BY KnownCommands, CommandEdits
  <2> HIDE DEF x
  <2>3. commands' = (commands \ {c}) \cup {x}
    BY <2>1 DEF x
  <2> QED
    BY <2>2, <2>3, CommandsGoOn
<1>2. /\ content' = [d \in Displays |-> IF d \in targets THEN id ELSE content[d]]
      /\ screens' = [d \in Displays |-> IF d \in targets \cap online THEN id ELSE screens[d]]
      /\ mqtt' = mqtt
  BY DEF Display!Write
<1> QED
  BY <1>1, <1>2 DEF Display!DisplaysInv, Display!TypeOK, Display!ReceiversFollow

\* Who may write a display, and who may write its MQTT receiver.
Respected(d) ==
    /\ d \in lock \cap lock' /\ content'[d] # content[d] =>
         Display!Writer(content'[d]) \in {"stream", "release", "text"}
    /\ d \in reserved /\ content'[d] # content[d] => Display!Writer(content'[d]) = "media"
    /\ mqtt'[d] # mqtt[d] => d \notin reserved
    /\ content'[d] # content[d] /\ Display!Writer(content'[d]) = "release" => Display!Writer(content[d]) = "stream"
    /\ mqtt'[d] # mqtt[d] /\ Display!Writer(mqtt'[d]) = "release" => content[d] = mqtt'[d]

LEMMA DropKeeps ==
    ASSUME Display!DisplaysInv, NEW c \in commands, Display!Drop(c), UNCHANGED <<online, lock, phase, reserved,
           kinds>>
    PROVE  Display!DisplaysInv' /\ \A d \in Displays : Respected(d)
<1>1. UNCHANGED <<content, screens, mqtt>> /\ commands' = commands \ {c}
  BY DEF Display!Drop
<1>2. commands' \subseteq Display!Commands /\ Display!CommandsAreKnown'
  BY <1>1, CommandsGoOn
<1>3. Display!DisplaysInv'
  BY <1>1, <1>2 DEF Display!DisplaysInv, Display!TypeOK, Display!ReceiversFollow
<1> QED
  BY <1>1, <1>3 DEF Respected

LEMMA DispatchKeeps ==
    ASSUME Display!DisplaysInv, NEW c \in commands, Display!Dispatch(c)
    PROVE  Display!DisplaysInv' /\ \A d \in Displays : Respected(d)
<1> DEFINE targets == c.targets \ reserved
           mine == {d \in targets : content[d] \in c.owns}
<1>1. UNCHANGED <<online, lock, phase, reserved, kinds>>
  BY DEF Display!Dispatch
<1>2. /\ targets \in SUBSET Displays /\ mine \in SUBSET Displays /\ c.owns \subseteq Streams
      /\ Display!Content(c.n) \in Display!Contents /\ Display!Writer(Display!Content(c.n)) = kinds[c.n]
      /\ kinds[c.n] \in Display!Kinds
  BY KnownCommands, WriterFacts DEF CommandIsKnown
<1>3. CASE Display!Drop(c)
  BY <1>1, <1>3, DropKeeps
<1>4. CASE kinds[c.n] = "release" /\ Display!Write(c, Display!Content(c.n), mine, "publish")
  <2>1. Display!DisplaysInv'
    BY <1>1, <1>2, <1>4, WriteKeeps
  <2>2. /\ content' = [d \in Displays |-> IF d \in mine THEN Display!Content(c.n) ELSE content[d]] /\ mqtt' = mqtt
    BY <1>4 DEF Display!Write
  <2>3. \A d \in mine : d \notin reserved /\ Display!Writer(content[d]) = "stream"
    BY <1>2, StreamsFacts DEF Display!DisplaysInv
  <2> HIDE DEF mine
  <2> QED
    BY <1>2, <1>4, <2>1, <2>2, <2>3 DEF Respected
<1>5. CASE /\ kinds[c.n] = "media" /\ Display!Replace(c, [c EXCEPT !.targets = targets, !.pc = "clear"])
           /\ UNCHANGED <<content, screens, mqtt>>
  <2> DEFINE x == [c EXCEPT !.targets = targets, !.pc = "clear"]
  <2>1. x \in Display!Commands /\ CommandIsKnown(x)
    BY <1>2, <1>5, KnownCommands, CommandEdits
  <2> HIDE DEF x
  <2>2. commands' = (commands \ {c}) \cup {x}
    BY <1>5 DEF Display!Replace, x
  <2>3. commands' \subseteq Display!Commands /\ Display!CommandsAreKnown'
    BY <1>1, <2>1, <2>2, CommandsGoOn
  <2>4. Display!DisplaysInv'
    BY <1>1, <1>5, <2>3 DEF Display!DisplaysInv, Display!TypeOK, Display!ReceiversFollow
  <2> QED
    BY <1>5, <2>4 DEF Respected
<1>6. CASE /\ kinds[c.n] \notin {"release", "media"} /\ ~(Display!Protects(c) /\ targets \cap lock # {})
           /\ Display!Write(c, Display!Content(c.n), targets, "publish")
  <2>1. Display!DisplaysInv'
    BY <1>1, <1>2, <1>6, WriteKeeps
  <2>2. content' = [d \in Displays |-> IF d \in targets THEN Display!Content(c.n) ELSE content[d]] /\ mqtt' = mqtt
    BY <1>6 DEF Display!Write
  <2>3. kinds[c.n] \in {"automation", "text", "stream"}
    BY <1>2, <1>6 DEF Display!Kinds
  <2>4. kinds[c.n] = "automation" => \A d \in targets : d \notin lock
    BY <1>6 DEF Display!Protects
  <2>5. \A d \in targets : d \notin reserved
    OBVIOUS
  <2> HIDE DEF targets
  <2> QED
    BY <1>2, <2>1, <2>2, <2>3, <2>4, <2>5 DEF Respected
<1> QED
  BY <1>3, <1>4, <1>5, <1>6 DEF Display!Dispatch

LEMMA ClearKeeps ==
    ASSUME Display!DisplaysInv, NEW c \in commands, Display!Clear(c)
    PROVE  Display!DisplaysInv' /\ \A d \in Displays : Respected(d)
<1> DEFINE targets == c.targets \ reserved
<1>1. UNCHANGED <<online, lock, phase, reserved, kinds>>
  BY DEF Display!Clear
<1>2. /\ targets \in SUBSET Displays /\ kinds[c.n] = "media"
      /\ Display!Clearing(c.n) \in Display!Contents /\ Display!Writer(Display!Clearing(c.n)) = kinds[c.n]
  BY KnownCommands, WriterFacts DEF CommandIsKnown, Display!Clear
<1>3. CASE Display!Drop(c)
  BY <1>1, <1>3, DropKeeps
<1>4. CASE targets \cap lock = {} /\ Display!Write(c, Display!Clearing(c.n), targets, "clearing")
  <2>1. Display!DisplaysInv'
    BY <1>1, <1>2, <1>4, WriteKeeps
  <2>2. content' = [d \in Displays |-> IF d \in targets THEN Display!Clearing(c.n) ELSE content[d]] /\ mqtt' = mqtt
    BY <1>4 DEF Display!Write
  <2>3. \A d \in targets : d \notin lock
    BY <1>4
  <2> HIDE DEF targets
  <2> QED
    BY <1>2, <2>1, <2>2, <2>3 DEF Respected
<1> QED
  BY <1>3, <1>4 DEF Display!Clear

LEMMA ShowKeeps ==
    ASSUME Display!DisplaysInv, NEW c \in commands, Display!Show(c)
    PROVE  Display!DisplaysInv' /\ \A d \in Displays : Respected(d)
<1>1. UNCHANGED <<online, lock, phase, reserved, kinds>>
  BY DEF Display!Show
<1>2. /\ c.targets \in SUBSET Displays /\ kinds[c.n] = "media"
      /\ Display!Content(c.n) \in Display!Contents /\ Display!Writer(Display!Content(c.n)) = kinds[c.n]
  BY KnownCommands, WriterFacts DEF CommandIsKnown, Display!Show
<1>3. CASE Display!Drop(c)
  BY <1>1, <1>3, DropKeeps
<1>4. CASE c.targets \cap lock = {} /\ Display!Write(c, Display!Content(c.n), c.targets, "publish")
  <2>1. Display!DisplaysInv'
    BY <1>1, <1>2, <1>4, WriteKeeps
  <2>2. content' = [d \in Displays |-> IF d \in c.targets THEN Display!Content(c.n) ELSE content[d]] /\ mqtt' = mqtt
    BY <1>4 DEF Display!Write
  <2>3. \A d \in c.targets : d \notin lock
    BY <1>4
  <2> QED
    BY <1>2, <2>1, <2>2, <2>3 DEF Respected
<1> QED
  BY <1>3, <1>4 DEF Display!Show

LEMMA PublishKeeps ==
    ASSUME Display!DisplaysInv, NEW c \in commands, NEW e \in Displays, Display!Publish(c, e)
    PROVE  Display!DisplaysInv' /\ \A d \in Displays : Respected(d)
<1>1. UNCHANGED <<content, online, screens, lock, phase, reserved, kinds>>
  BY DEF Display!Publish
<1> DEFINE x == [c EXCEPT !.left = c.left \ {e}]
           shown == IF c.pc = "publish" THEN Display!Content(c.n) ELSE Display!Clearing(c.n)
<1>2. x \in Display!Commands /\ CommandIsKnown(x)
  BY KnownCommands, CommandEdits
<1>3. /\ shown \in Display!Contents /\ Display!Writer(shown) = kinds[c.n]
      /\ kinds[c.n] = "release" => c.pc = "publish" /\ shown = Display!Content(c.n)
  BY KnownCommands, WriterFacts DEF CommandIsKnown, Display!Publish
<1>4. /\ commands' = (commands \ {c}) \cup {x}
      /\ mqtt' = IF e \in reserved \/ ~Display!StillOwns(c, e) THEN mqtt ELSE [mqtt EXCEPT ![e] = shown]
  BY DEF Display!Publish, Display!Replace
<1> HIDE DEF x, shown
<1>5. commands' \subseteq Display!Commands /\ Display!CommandsAreKnown'
  BY <1>1, <1>2, <1>4, CommandsGoOn
<1>6. Display!DisplaysInv'
  BY <1>1, <1>3, <1>4, <1>5 DEF Display!DisplaysInv, Display!TypeOK, Display!ReceiversFollow
<1>7. ASSUME NEW d \in Displays, mqtt'[d] # mqtt[d]
      PROVE  d = e /\ e \notin reserved /\ Display!StillOwns(c, e) /\ mqtt'[d] = shown
  BY <1>4, <1>7 DEF Display!DisplaysInv, Display!TypeOK
<1> QED
  BY <1>1, <1>3, <1>6, <1>7 DEF Respected, Display!StillOwns

LEMMA DisplayStepKeeps ==
    ASSUME Display!DisplaysInv, Display!Step
    PROVE  Display!DisplaysInv' /\ \A d \in Displays : Respected(d)
<1>1. ASSUME NEW c \in commands, Display!PublishFails(c) \/ Display!Done(c)
      PROVE  Display!DisplaysInv' /\ \A d \in Displays : Respected(d)
  BY <1>1, DropKeeps DEF Display!PublishFails, Display!Done
<1> QED
  BY <1>1, DispatchKeeps, ClearKeeps, ShowKeeps, PublishKeeps DEF Display!Step

\* Commands come.
LEMMA AdmitKeeps ==
    ASSUME Display!DisplaysInv, NEW kind \in Display!Kinds, NEW targets \in SUBSET Displays,
           NEW owns \in SUBSET Streams, Display!Admit(kind, targets, owns),
           UNCHANGED <<content, online, screens, mqtt, reserved>>,
           lock' \subseteq Displays, phase' \in {"none", "playing", "releasing"}
    PROVE  Display!DisplaysInv'
<1> DEFINE n == Len(kinds) + 1
           x == [n |-> n, targets |-> targets \ reserved, pc |-> "begin", left |-> {}, owns |-> owns]
<1>1. MaxCommands \in Nat /\ kinds \in Seq(Display!Kinds) /\ Len(kinds) < MaxCommands /\ Len(kinds) \in Nat
  BY BoundsAssumption DEF Display!Admit, Display!DisplaysInv, Display!TypeOK
<1>2. kinds' = Append(kinds, kind)
  BY DEF Display!Admit
<1>3. /\ kinds' \in Seq(Display!Kinds) /\ Len(kinds') = n /\ n \in 1..MaxCommands /\ Len(kinds') <= MaxCommands
      /\ DOMAIN kinds' = 1..n /\ DOMAIN kinds = 1..Len(kinds)
      /\ \A m \in DOMAIN kinds : m \in DOMAIN kinds' /\ kinds'[m] = kinds[m]
  BY <1>1, <1>2
<1>4. commands' = commands \cup {x}
  BY <1>3 DEF Display!Admit
<1>5. x \in Display!Commands /\ x.n = n /\ n \in DOMAIN kinds' /\ x.pc = "begin" /\ x.owns = owns
  BY <1>3, StreamsFacts DEF Display!Commands, Display!DisplaysInv
<1> HIDE DEF x, n
<1>6. Streams \subseteq Streams'
  BY <1>3 DEF Streams
<1>7. \A c \in commands : CommandIsKnown(c)
  BY KnownCommands
<1>8. \A c \in commands' : CommandIsKnown(c)'
  BY <1>3, <1>4, <1>5, <1>6, <1>7 DEF CommandIsKnown
<1>9. Display!CommandsAreKnown'
  BY <1>8 DEF Display!CommandsAreKnown, CommandIsKnown, Streams
<1> QED
  BY <1>3, <1>4, <1>5, <1>9 DEF Display!DisplaysInv, Display!TypeOK, Display!ReceiversFollow

LEMMA DisplaysKept ==
    ASSUME Display!DisplaysInv,
           \/ Display!Request \/ Display!Announcements \/ Display!Receivers \/ Display!Step \/ Display!Restart
           \/ UNCHANGED displays
    PROVE  Display!DisplaysInv' /\ \A d \in Displays : Respected(d)
<1> USE DEF Display!DisplaysInv
<1>1. ASSUME NEW targets \in SUBSET Displays, NEW kind \in {"automation", "media", "text"},
      Display!Send(kind, targets)
      PROVE  Display!DisplaysInv' /\ \A d \in Displays : Respected(d)
  <2>1. kind \in Display!Kinds /\ {} \in SUBSET Streams
    BY DEF Display!Kinds
  <2>2. Display!Admit(kind, targets, {}) /\ UNCHANGED <<content, online, screens, mqtt, lock, phase, reserved>>
    BY <1>1 DEF Display!Send
  <2>3. Display!DisplaysInv'
    BY <2>1, <2>2, AdmitKeeps DEF Display!TypeOK
  <2> QED
    BY <2>2, <2>3 DEF Respected
<1>2. ASSUME NEW targets \in SUBSET Displays, Display!AnnouncementStarts(targets)
      PROVE  Display!DisplaysInv' /\ \A d \in Displays : Respected(d)
  <2>1. "stream" \in Display!Kinds /\ {} \in SUBSET Streams
    BY DEF Display!Kinds
  <2>2. /\ Display!Admit("stream", targets, {}) /\ UNCHANGED <<content, online, screens, mqtt, reserved>>
        /\ lock' \subseteq Displays /\ phase' = "playing"
    BY <1>2 DEF Display!AnnouncementStarts
  <2>3. Display!DisplaysInv'
    BY <2>1, <2>2, AdmitKeeps
  <2> QED
    BY <2>2, <2>3 DEF Respected
<1>3. CASE Display!AnnouncementReleases
  <2>1. "release" \in Display!Kinds
    BY DEF Display!Kinds
  <2>2. /\ Display!Admit("release", lock, Streams) /\ UNCHANGED <<content, online, screens, mqtt, lock, reserved>>
        /\ phase' = "releasing"
    BY <1>3 DEF Display!AnnouncementReleases, Streams
  <2>3. Display!DisplaysInv'
    BY <2>1, <2>2, AdmitKeeps DEF Display!TypeOK
  <2> QED
    BY <2>2, <2>3 DEF Respected
<1>4. CASE Display!AnnouncementEnds
  <2>1. /\ phase' = "none" /\ lock' = {} /\ UNCHANGED <<content, online, screens, mqtt, reserved, commands, kinds>>
    BY <1>4 DEF Display!AnnouncementEnds
  <2> QED
    BY <2>1 DEF Display!TypeOK, Display!CommandsAreKnown, Display!ReceiversFollow, Respected
<1>5. ASSUME NEW targets \in SUBSET Displays, Display!Dedicate(targets)
      PROVE  Display!DisplaysInv' /\ \A d \in Displays : Respected(d)
  BY <1>5 DEF Display!Dedicate, Display!TypeOK, Display!CommandsAreKnown, Display!ReceiversFollow, Respected
<1>6. ASSUME NEW e \in Displays, Display!Connect(e) \/ Display!Disconnect(e)
      PROVE  Display!DisplaysInv' /\ \A d \in Displays : Respected(d)
  <2>1. 0 \in Display!Contents
    BY BoundsAssumption DEF Display!Contents
  <2>2. UNCHANGED <<content, mqtt, lock, phase, reserved, commands, kinds>>
    BY <1>6 DEF Display!Connect, Display!Disconnect
  <2>3. CASE Display!Connect(e)
    BY <2>2, <2>3 DEF Display!Connect, Display!TypeOK, Display!CommandsAreKnown, Display!ReceiversFollow, Respected
  <2>4. CASE Display!Disconnect(e)
    BY <2>1, <2>2, <2>4
       DEF Display!Disconnect, Display!TypeOK, Display!CommandsAreKnown, Display!ReceiversFollow, Respected
  <2> QED
    BY <1>6, <2>3, <2>4
<1>7. CASE Display!Restart
  <2>1. 0 \in Display!Contents
    BY BoundsAssumption DEF Display!Contents
  <2> QED
    BY <1>7, <2>1
       DEF Display!Restart, Display!TypeOK, Display!CommandsAreKnown, Display!ReceiversFollow, Respected
<1>8. CASE UNCHANGED displays
  BY <1>8 DEF displays, Display!TypeOK, Display!CommandsAreKnown, Display!ReceiversFollow, Respected
<1> QED
  BY <1>1, <1>2, <1>3, <1>4, <1>5, <1>6, <1>7, <1>8, DisplayStepKeeps
     DEF Display!Request, Display!Announcements, Display!Receivers

LEMMA DisplaysTurns ==
    ASSUME [Next]_vars
    PROVE  \/ Display!Request \/ Display!Announcements \/ Display!Receivers \/ Display!Step \/ Display!Restart
           \/ UNCHANGED displays
<1>1. ASSUME NEW service \in {"uploads", "learning", "updates", "sports", "music", "slides", "lab"}, Only(service)
      PROVE  UNCHANGED displays
  BY <1>1 DEF Only, OnlyInRoom
<1>2. CASE Requests
  BY <1>1, <1>2 DEF Requests, UploadRequest, LearningRequest, UpdatesRequest, SportsRequest, MusicRequest,
     DisplaysRequest, SlidesRequest, LabRequest, AskExport, Quiet, room
<1>3. CASE Timers
  BY <1>1, <1>3 DEF Timers, UploadCleanup, GradingTimer, UpdatesTimer, SportsTimer, MusicTimer, SlidesTimer, LabTimer
<1>4. CASE Steps
  BY <1>1, <1>4 DEF Steps, UploadStep, FileStep, GradingStep, TickStep, InstallStep, SportsStep, MusicStep,
     DisplaysStep, SlidesStep, LabStep, ExportAnswered, Thaw, Quiet, room
<1>5. CASE Elapse \/ Outside
  BY <1>1, <1>5 DEF Elapse, Outside
<1>6. CASE Restart \/ UNCHANGED vars
  BY <1>6 DEF Restart, vars, room
<1> QED
  BY <1>2, <1>3, <1>4, <1>5, <1>6 DEF Next

LEMMA DisplaysInit == Init => Display!DisplaysInv
<1> SUFFICES ASSUME Display!Init PROVE Display!DisplaysInv
  BY DEF Init, RoomInit
<1>1. MaxCommands \in Nat /\ 0 \in Display!Contents
  BY BoundsAssumption DEF Display!Contents
<1>2. kinds \in Seq(Display!Kinds) /\ Len(kinds) <= MaxCommands
  BY <1>1 DEF Display!Init
<1> QED
  BY <1>1, <1>2 DEF Display!Init, Display!DisplaysInv, Display!TypeOK, Display!CommandsAreKnown,
      Display!ReceiversFollow

------------------------------------------------------------------------------
(* Slides.                                                                 *)

LEMMA LiveFacts ==
    /\ Deck!None \notin Deck!Live /\ Deck!Idle \notin Seq(Deck!Sends) /\ Deck!Idle # <<>>
    /\ \A s \in Deck!Live :
         /\ s.deck \in Decks /\ s.id \in Nat /\ s.slide \in Nat /\ s.mark \in Nat
         /\ s.paused \in BOOLEAN /\ s.black \in BOOLEAN /\ s.auto \in BOOLEAN /\ s.loop \in BOOLEAN
             /\ s.due \in BOOLEAN
<1>1. Deck!Idle \notin Seq(Deck!Sends) /\ Deck!Idle # <<>>
  <2>1. Deck!Is("idle") \notin Deck!Sends
    BY DEF Deck!Is, Deck!Sends
  <2> HIDE DEF Deck!Is
  <2>2. Len(Deck!Idle) = 1 /\ Deck!Idle[1] = Deck!Is("idle")
    BY DEF Deck!Idle
  <2> QED
    BY <2>1, <2>2
<1> QED
  BY <1>1 DEF Deck!None, Deck!Live

LEMMA SlidesTypes ==
    ASSUME Deck!SlidesTypeOK
    PROVE  /\ deck \in [Decks -> {"new", "kept", "removed"}]
           /\ live \in Deck!Live \cup {Deck!None} /\ liveSaved \in Deck!Live \cup {Deck!None}
           /\ tasks \in Seq(Deck!Tasks) /\ todo \in Seq(Deck!Sends) \cup {Deck!Idle}
           /\ trusted \in BOOLEAN /\ unsaved \in BOOLEAN /\ taskCount \in Nat
           /\ tasks # <<>> => Head(tasks) \in Deck!Tasks /\ Tail(tasks) \in Seq(Deck!Tasks)
BY DEF Deck!SlidesTypeOK

\* What a session shows.
Shows(s) == IF s.black THEN Deck!Is("black") ELSE Deck!Slide(s.deck, s.slide)

LEMMA ExpectedIs == Deck!Expected = Shows(live)
BY DEF Deck!Expected, Shows

\* What is sent first, and then.
LEMMA Sequel ==
    ASSUME NEW S, NEW a \in Seq(S), NEW b \in Seq(S)
    PROVE  /\ a \o b \in Seq(S)
           /\ b # <<>> => a \o b # <<>> /\ (a \o b)[Len(a \o b)] = b[Len(b)]
           /\ a # <<>> /\ b = <<>> => a \o b # <<>> /\ (a \o b)[Len(a \o b)] = a[Len(a)]
<1>1. a \o b \in Seq(S) /\ Len(a \o b) = Len(a) + Len(b) /\ Len(a) \in Nat /\ Len(b) \in Nat
  OBVIOUS
<1>2. /\ a # <<>> => Len(a) > 0
      /\ b # <<>> => Len(b) > 0
      /\ b = <<>> => Len(b) = 0
  OBVIOUS
<1>3. \A i \in 1..Len(a) + Len(b) : (a \o b)[i] = IF i <= Len(a) THEN a[i] ELSE b[i - Len(a)]
  OBVIOUS
<1> QED
  BY <1>1, <1>2, <1>3

\* What is sent for a session ends with what it shows.
LEMMA ShownFacts ==
    ASSUME NEW s \in Deck!Live
    PROVE  /\ Deck!Shown(s) \in Seq(Deck!Sends) /\ Deck!Shown(s) # <<>>
           /\ Deck!Shown(s)[Len(Deck!Shown(s))] = Shows(s)
           /\ <<Deck!Is("blank")>> \o Deck!Shown(s) \in Seq(Deck!Sends)
           /\ <<Deck!Is("blank")>> \o Deck!Shown(s) # <<>>
           /\ (<<Deck!Is("blank")>> \o Deck!Shown(s))[Len(<<Deck!Is("blank")>> \o Deck!Shown(s))] = Shows(s)
           /\ s.black => Shows(s) = Deck!Is("black")
<1> DEFINE x == Deck!Slide(s.deck, s.slide)
           y == Deck!Is("black")
           z == Deck!Is("blank")
<1>1. x \in Deck!Sends /\ y \in Deck!Sends /\ z \in Deck!Sends
  BY LiveFacts DEF Deck!Sends, Deck!Slide, Deck!Is
<1>2. /\ Deck!Shown(s) = <<x>> \o (IF s.black THEN <<y>> ELSE <<>>)
      /\ Shows(s) = IF s.black THEN y ELSE x
  BY DEF Deck!Shown, Shows
<1> HIDE DEF x, y, z
<1>3. /\ <<x>> \in Seq(Deck!Sends) /\ <<x>> # <<>> /\ <<x>>[Len(<<x>>)] = x
      /\ <<y>> \in Seq(Deck!Sends) /\ <<y>> # <<>> /\ <<y>>[Len(<<y>>)] = y
      /\ <<z>> \in Seq(Deck!Sends) /\ <<>> \in Seq(Deck!Sends)
  BY <1>1
<1>4. Deck!Shown(s) \in Seq(Deck!Sends) /\ Deck!Shown(s) # <<>> /\ Deck!Shown(s)[Len(Deck!Shown(s))] = Shows(s)
  <2>1. CASE s.black
    <3>1. Deck!Shown(s) = <<x>> \o <<y>> /\ Shows(s) = y
      BY <1>2, <2>1
    <3> QED
      BY <1>3, <3>1, Sequel
  <2>2. CASE ~s.black
    <3>1. Deck!Shown(s) = <<x>> \o <<>> /\ Shows(s) = x
      BY <1>2, <2>2
    <3> QED
      BY <1>3, <3>1, Sequel
  <2> QED
    BY <2>1, <2>2
<1>5. /\ <<z>> \o Deck!Shown(s) \in Seq(Deck!Sends) /\ <<z>> \o Deck!Shown(s) # <<>>
      /\ (<<z>> \o Deck!Shown(s))[Len(<<z>> \o Deck!Shown(s))] = Shows(s)
  BY <1>3, <1>4, Sequel
<1> QED
  BY <1>2, <1>4, <1>5 DEF y, z

\* A session that changes.
LEMMA AtFacts ==
    ASSUME NEW s \in Deck!Live, NEW n \in Nat
    PROVE  /\ Deck!At(s, n) \in Deck!Live /\ Deck!At(s, n).deck = s.deck /\ Deck!At(s, n).slide = n
           /\ Deck!At(s, n).black = s.black
<1> DEFINE m == s.mark + 1
           t == [s EXCEPT !.slide = n, !.paused = FALSE, !.due = FALSE, !.mark = m]
<1>1. m \in Nat
  BY LiveFacts
<1>2. Deck!At(s, n) = t
  BY DEF Deck!Live, Deck!At
<1> HIDE DEF m
<1>3. t \in Deck!Live /\ t.deck = s.deck /\ t.slide = n /\ t.black = s.black
  BY <1>1 DEF Deck!Live
<1> QED
  BY <1>2, <1>3

LEMMA LiveEdits ==
    ASSUME NEW s \in Deck!Live, NEW b \in BOOLEAN
    PROVE  /\ [s EXCEPT !.paused = b] \in Deck!Live /\ [s EXCEPT !.paused = b].deck = s.deck
           /\ Shows([s EXCEPT !.paused = b]) = Shows(s)
           /\ [s EXCEPT !.black = b] \in Deck!Live /\ [s EXCEPT !.black = b].deck = s.deck
           /\ [s EXCEPT !.black = b].black = b
           /\ [s EXCEPT !.auto = b] \in Deck!Live /\ [s EXCEPT !.auto = b].deck = s.deck
           /\ Shows([s EXCEPT !.auto = b]) = Shows(s)
           /\ [s EXCEPT !.loop = b] \in Deck!Live /\ [s EXCEPT !.loop = b].deck = s.deck
           /\ Shows([s EXCEPT !.loop = b]) = Shows(s)
           /\ [s EXCEPT !.due = b] \in Deck!Live /\ [s EXCEPT !.due = b].deck = s.deck
           /\ Shows([s EXCEPT !.due = b]) = Shows(s)
<1>1. /\ [s EXCEPT !.paused = b] \in Deck!Live /\ [s EXCEPT !.paused = b].deck = s.deck
      /\ Shows([s EXCEPT !.paused = b]) = Shows(s)
  BY DEF Deck!Live, Shows
<1>2. [s EXCEPT !.black = b] \in Deck!Live /\ [s EXCEPT !.black = b].deck = s.deck /\ [s EXCEPT !.black = b].black = b
  BY DEF Deck!Live
<1>3. /\ [s EXCEPT !.auto = b] \in Deck!Live /\ [s EXCEPT !.auto = b].deck = s.deck
      /\ Shows([s EXCEPT !.auto = b]) = Shows(s)
  BY DEF Deck!Live, Shows
<1>4. /\ [s EXCEPT !.loop = b] \in Deck!Live /\ [s EXCEPT !.loop = b].deck = s.deck
      /\ Shows([s EXCEPT !.loop = b]) = Shows(s)
  BY DEF Deck!Live, Shows
<1>5. /\ [s EXCEPT !.due = b] \in Deck!Live /\ [s EXCEPT !.due = b].deck = s.deck
      /\ Shows([s EXCEPT !.due = b]) = Shows(s)
  BY DEF Deck!Live, Shows
<1> QED
  BY <1>1, <1>2, <1>3, <1>4, <1>5

LEMMA ResumedFacts ==
    ASSUME NEW s \in Deck!Live, NEW m \in Nat, NEW t, t = [s EXCEPT !.paused = FALSE, !.mark = m]
    PROVE  t \in Deck!Live /\ t.deck = s.deck /\ Shows(t) = Shows(s)
BY DEF Deck!Live, Shows

\* What a task leaves of the session, and what it sends for it.
LeavesWell(r, task) ==
    /\ r.session \in Deck!Live \cup {Deck!None} /\ r.todo \in Seq(Deck!Sends)
    /\ ~r.saves => r.session = live /\ r.todo = <<>>
    /\ r.session # Deck!None =>
        /\ r.todo # <<>> => r.todo[Len(r.todo)] = Shows(r.session)
        /\ r.todo = <<>> => live # Deck!None /\ Shows(r.session) = Shows(live)
        /\ task.do # "start" => live # Deck!None /\ r.session.deck = live.deck
        /\ task.do = "start" /\ r.saves => deck[r.session.deck] # "removed"
        /\ task.do = "delete" => r.session.deck # task.deck

LEMMA NothingIsWell ==
    ASSUME Deck!SlidesTypeOK, NEW task, task.do = "delete" /\ live # Deck!None => live.deck # task.deck
    PROVE  LeavesWell(Deck!Nothing, task)
BY SlidesTypes DEF LeavesWell, Deck!Nothing

LEMMA GotoIsWell ==
    ASSUME live \in Deck!Live, NEW n \in Nat, NEW task, task.do \notin {"start", "delete"}
    PROVE  LeavesWell(Deck!Goto(n), task)
<1> DEFINE s == Deck!At(live, n)
<1>1. s \in Deck!Live /\ s.deck = live.deck
  BY AtFacts
<1> HIDE DEF s
<1>2. Deck!Goto(n) = [session |-> s, todo |-> Deck!Shown(s), saves |-> TRUE]
  BY DEF Deck!Goto, Deck!Leaves, s
<1> QED
  BY <1>1, <1>2, ShownFacts, LiveFacts DEF LeavesWell

\* A change that sends nothing.
LEMMA QuietIsWell ==
    ASSUME live \in Deck!Live, NEW s \in Deck!Live, s.deck = live.deck, Shows(s) = Shows(live),
           NEW task, task.do \notin {"start", "delete"}
    PROVE  LeavesWell(Deck!Leaves(s, <<>>), task)
BY LiveFacts DEF LeavesWell, Deck!Leaves

LEMMA ForwardIsWell ==
    ASSUME live \in Deck!Live, NEW task, task.do \notin {"start", "delete"}
    PROVE  LeavesWell(Deck!Forward, task)
<1>1. live.slide + 1 \in Nat /\ 1 \in Nat
  BY LiveFacts
<1>2. [live EXCEPT !.paused = TRUE] \in Deck!Live /\ [live EXCEPT !.paused = TRUE].deck = live.deck
      /\ Shows([live EXCEPT !.paused = TRUE]) = Shows(live)
  BY LiveEdits
<1> DEFINE s == [live EXCEPT !.paused = TRUE]
<1> HIDE DEF s
<1>3. LeavesWell(Deck!Leaves(s, <<>>), task)
  BY <1>2, QuietIsWell DEF s
<1> QED
  BY <1>1, <1>3, GotoIsWell DEF Deck!Forward, s

\* The end of a session.
LEMMA StopIsWell ==
    ASSUME NEW task
    PROVE  LeavesWell(Deck!Leaves(Deck!None, <<Deck!Is("blank")>>), task)
<1>1. Deck!Is("blank") \in Deck!Sends
  BY DEF Deck!Is, Deck!Sends
<1> QED
  BY <1>1 DEF LeavesWell, Deck!Leaves

LEMMA ControlIsWell ==
    ASSUME live \in Deck!Live, NEW task, task.do \in Deck!Controls
    PROVE  LeavesWell(Deck!Control(task.do), task)
<1> DEFINE c == task.do
<1>0. c \notin {"start", "delete"} /\ c = task.do
  BY DEF Deck!Controls
<1> HIDE DEF c
<1>1. CASE c = "next"
  BY <1>0, <1>1, ForwardIsWell DEF Deck!Control
<1>2. CASE c = "previous"
  <2>1. (IF live.slide > 1 THEN live.slide - 1 ELSE 1) \in Nat
    BY LiveFacts
  <2> QED
    BY <1>0, <1>2, <2>1, GotoIsWell DEF Deck!Control
<1>3. CASE c = "restart-timer"
  <2> DEFINE s == Deck!At(live, live.slide)
  <2>1. s \in Deck!Live /\ s.deck = live.deck /\ Shows(s) = Shows(live)
    BY LiveFacts, AtFacts DEF Shows
  <2> HIDE DEF s
  <2>2. Deck!Control(c) = Deck!Leaves(s, <<>>)
    BY <1>3 DEF Deck!Control, s
  <2> QED
    BY <1>0, <2>1, <2>2, QuietIsWell
<1>4. CASE c = "pause"
  <2> DEFINE s == [live EXCEPT !.paused = TRUE]
  <2>1. s \in Deck!Live /\ s.deck = live.deck /\ Shows(s) = Shows(live)
    BY LiveEdits
  <2> HIDE DEF s
  <2>2. Deck!Control(c) = Deck!Leaves(s, <<>>)
    BY <1>4 DEF Deck!Control, s
  <2> QED
    BY <1>0, <2>1, <2>2, QuietIsWell
<1>5. CASE c = "resume"
  <2> DEFINE m == IF live.paused THEN live.mark + 1 ELSE live.mark
             s == [live EXCEPT !.paused = FALSE, !.mark = m]
  <2>0. m \in Nat
    BY LiveFacts
  <2>3. s = [live EXCEPT !.paused = FALSE, !.mark = IF live.paused THEN @ + 1 ELSE @]
    BY DEF Deck!Live
  <2> HIDE DEF m
  <2>1. s \in Deck!Live /\ s.deck = live.deck /\ Shows(s) = Shows(live)
    BY <2>0, ResumedFacts
  <2> HIDE DEF s
  <2>2. Deck!Control(c) = Deck!Leaves(s, <<>>)
    BY <1>5, <2>3 DEF Deck!Control
  <2> QED
    BY <1>0, <2>1, <2>2, QuietIsWell
<1>6. CASE c = "black"
  <2> DEFINE s == [live EXCEPT !.black = TRUE]
             x == Deck!Is("black")
  <2>1. s \in Deck!Live /\ s.deck = live.deck /\ s.black
    BY LiveEdits
  <2>2. x \in Deck!Sends
    BY DEF Deck!Is, Deck!Sends
  <2> HIDE DEF s
  <2>3. Shows(s) = x
    BY <2>1 DEF Shows
  <2>4. Deck!Control(c) = [session |-> s, todo |-> <<x>>, saves |-> TRUE]
    BY <1>6 DEF Deck!Control, Deck!Leaves, s
  <2> HIDE DEF x
  <2> QED
    BY <1>0, <2>1, <2>2, <2>3, <2>4, LiveFacts DEF LeavesWell
<1>7. CASE c = "unblack"
  <2> DEFINE s == [live EXCEPT !.black = FALSE]
  <2>1. s \in Deck!Live /\ s.deck = live.deck
    BY LiveEdits
  <2> HIDE DEF s
  <2>2. Deck!Control(c) = [session |-> s, todo |-> Deck!Shown(s), saves |-> TRUE]
    BY <1>7 DEF Deck!Control, Deck!Leaves, s
  <2> QED
    BY <1>0, <2>1, <2>2, ShownFacts, LiveFacts DEF LeavesWell
<1>8. CASE c = "auto"
  <2> DEFINE b == ~live.auto
             s == [live EXCEPT !.auto = b]
  <2>1. b \in BOOLEAN /\ s = [live EXCEPT !.auto = ~@]
    BY LiveFacts DEF Deck!Live
  <2> HIDE DEF b
  <2>2. s \in Deck!Live /\ s.deck = live.deck /\ Shows(s) = Shows(live)
    BY <2>1, LiveEdits
  <2> HIDE DEF s
  <2>3. Deck!Control(c) = Deck!Leaves(s, <<>>)
    BY <1>8, <2>1 DEF Deck!Control
  <2> QED
    BY <1>0, <2>2, <2>3, QuietIsWell
<1>9. CASE c = "loop"
  <2> DEFINE b == ~live.loop
             s == [live EXCEPT !.loop = b]
  <2>1. b \in BOOLEAN /\ s = [live EXCEPT !.loop = ~@]
    BY LiveFacts DEF Deck!Live
  <2> HIDE DEF b
  <2>2. s \in Deck!Live /\ s.deck = live.deck /\ Shows(s) = Shows(live)
    BY <2>1, LiveEdits
  <2> HIDE DEF s
  <2>3. Deck!Control(c) = Deck!Leaves(s, <<>>)
    BY <1>9, <2>1 DEF Deck!Control
  <2> QED
    BY <1>0, <2>2, <2>3, QuietIsWell
<1>10. CASE c = "stop"
  BY <1>0, <1>10, StopIsWell DEF Deck!Control
<1> QED
  BY <1>0, <1>1, <1>2, <1>3, <1>4, <1>5, <1>6, <1>7, <1>8, <1>9, <1>10 DEF Deck!Controls

LEMMA ResultIsWell ==
    ASSUME Deck!SlidesTypeOK, NEW task \in Deck!Tasks
    PROVE  LeavesWell(Deck!Result(task), task)
<1>0. live # Deck!None => live \in Deck!Live
  BY SlidesTypes
<1>1. CASE task.do = "start"
  <2>1. CASE ~(Deck!Ready(task.deck) /\ ~held)
    BY <1>1, <2>1, NothingIsWell DEF Deck!Result
  <2>2. CASE Deck!Ready(task.deck) /\ ~held
    <3> DEFINE s == Deck!Running(task.deck, taskCount)
    <3>1. task.deck \in Decks
      BY <1>1 DEF Deck!Tasks, Deck!Controls
    <3>2. s \in Deck!Live /\ s.deck = task.deck
      BY <3>1, SlidesTypes DEF Deck!Running, Deck!Live
    <3>3. deck[task.deck] = "kept"
      BY <2>2 DEF Deck!Ready
    <3> HIDE DEF s
    <3>4. Deck!Result(task) = [session |-> s, todo |-> <<Deck!Is("blank")>> \o Deck!Shown(s), saves |-> TRUE]
      BY <1>1, <2>2 DEF Deck!Result, Deck!Leaves, s
    <3> QED
      BY <1>1, <3>2, <3>3, <3>4, ShownFacts DEF LeavesWell
  <2> QED
    BY <2>1, <2>2
<1>2. CASE task.do = "delete"
  BY <1>2, NothingIsWell, StopIsWell DEF Deck!Result, Deck!Active
<1>3. CASE task.do = "advance"
  BY <1>0, <1>3, NothingIsWell, ForwardIsWell DEF Deck!Result, Deck!StillDue, Deck!Current, Deck!Active
<1>4. CASE task.do \in Deck!Controls
  <2>1. task.do \notin {"start", "delete", "advance"}
    BY <1>4 DEF Deck!Controls
  <2> QED
    BY <1>0, <1>4, <2>1, NothingIsWell, ControlIsWell DEF Deck!Result, Deck!Current, Deck!Active
<1> QED
  BY <1>1, <1>2, <1>3, <1>4 DEF Deck!Tasks

\* The tasks that wait, without the first, or with one more.
LEMMA TasksFacts ==
    ASSUME Deck!SlidesTypeOK
    PROVE  /\ \A x \in Deck!Tasks :
                /\ Append(tasks, x) \in Seq(Deck!Tasks) /\ Append(tasks, x) # <<>>
                /\ tasks # <<>> => Head(Append(tasks, x)) = Head(tasks)
           /\ tasks # <<>> => Head(tasks) \in Deck!Tasks /\ Tail(tasks) \in Seq(Deck!Tasks)
BY SlidesTypes

\* Steps that leave the session and what is to be sent.
LEMMA SessionStays ==
    ASSUME Deck!SlidesInv, UNCHANGED <<live, liveSaved, todo, unsaved>>,
           deck' \in [Decks -> {"new", "kept", "removed"}],
           \A d \in Decks : deck'[d] = "removed" => deck[d] = "removed",
           tasks' \in Seq(Deck!Tasks), tasks # <<>> => tasks' # <<>> /\ Head(tasks') = Head(tasks),
           taskCount' \in Nat, trusted' \in BOOLEAN, trusted' => trusted /\ screen' = screen
    PROVE  Deck!SlidesInv'
<1>1. Deck!SlidesTypeOK'
  BY DEF Deck!SlidesInv, Deck!SlidesTypeOK
<1>2. Deck!SlideIsComing'
  BY ExpectedIs DEF Deck!SlidesInv, Deck!SlideIsComing, Deck!Active, Deck!Expected
<1>3. Deck!SavedIsSession'
  BY DEF Deck!SlidesInv, Deck!SavedIsSession, Deck!SlideIsComing
<1>4. Deck!SessionHasDeck'
  <2>1. \A s \in {live, liveSaved} : s # Deck!None => s.deck \in Decks
    BY SlidesTypes, LiveFacts DEF Deck!SlidesInv
  <2> QED
    BY <2>1 DEF Deck!SlidesInv, Deck!SessionHasDeck
<1> QED
  BY <1>1, <1>2, <1>3, <1>4 DEF Deck!SlidesInv

LEMMA SlidesRequestKeeps ==
    ASSUME Deck!SlidesInv, Deck!Request
    PROVE  Deck!SlidesInv'
<1>0. taskCount + 1 \in Nat
  BY SlidesTypes DEF Deck!SlidesInv
<1>1. ASSUME NEW d \in Decks, Deck!Build(d)
      PROVE  Deck!SlidesInv'
  <2>1. /\ deck' = [deck EXCEPT ![d] = "kept"] /\ taskCount' = taskCount + 1
        /\ UNCHANGED <<live, liveSaved, tasks, todo, screen, held, trusted, unsaved>>
    BY <1>1 DEF Deck!Build
  <2> QED
    BY <1>0, <2>1, SessionStays, SlidesTypes DEF Deck!SlidesInv
<1>2. ASSUME NEW x \in Deck!Tasks, Deck!Ask(x)
      PROVE  Deck!SlidesInv'
  <2>1. /\ tasks' = Append(tasks, x) /\ taskCount' = taskCount + 1
        /\ UNCHANGED <<deck, live, liveSaved, todo, screen, trusted, unsaved>>
    BY <1>2 DEF Deck!Ask
  <2> QED
    BY <1>0, <2>1, SessionStays, SlidesTypes, TasksFacts DEF Deck!SlidesInv
<1>3. \A d \in Decks : [do |-> "start", deck |-> d] \in Deck!Tasks /\ [do |-> "delete", deck |-> d] \in Deck!Tasks
  BY DEF Deck!Tasks
<1>4. Deck!Active => \A c \in Deck!Controls : [do |-> c, of |-> live.id] \in Deck!Tasks
  BY SlidesTypes, LiveFacts DEF Deck!Tasks, Deck!Active, Deck!SlidesInv
<1> QED
  BY <1>1, <1>2, <1>3, <1>4 DEF Deck!Request

LEMMA TickKeepsSlides ==
    ASSUME Deck!SlidesInv, Deck!Tick
    PROVE  Deck!SlidesInv'
<1> DEFINE x == [do |-> "advance", of |-> live.id, slide |-> live.slide, mark |-> live.mark]
<1>1. x \in Deck!Tasks
  BY SlidesTypes, LiveFacts DEF Deck!Tasks, Deck!Tick, Deck!Active, Deck!SlidesInv
<1>2. tasks' = Append(tasks, x) /\ UNCHANGED <<deck, live, liveSaved, todo, screen, trusted, unsaved, taskCount>>
  BY DEF Deck!Tick
<1> HIDE DEF x
<1> QED
  BY <1>1, <1>2, SessionStays, SlidesTypes, TasksFacts DEF Deck!SlidesInv

\* A slide has been up for its time, which changes nothing that is shown.
LEMMA ElapseKeepsSlides ==
    ASSUME Deck!SlidesInv, Deck!Elapse
    PROVE  Deck!SlidesInv'
<1>1. /\ live \in Deck!Live /\ live' = [live EXCEPT !.due = TRUE]
      /\ UNCHANGED <<deck, liveSaved, tasks, todo, screen, trusted, unsaved, taskCount>>
  BY SlidesTypes DEF Deck!Elapse, Deck!Active, Deck!SlidesInv
<1>2. live' \in Deck!Live /\ live'.deck = live.deck /\ Shows(live') = Shows(live)
  BY <1>1, LiveEdits
<1>3. live # Deck!None /\ live' # Deck!None
  BY <1>1, <1>2, LiveFacts
<1>4. Deck!Expected = Shows(live) /\ Deck!Expected' = Shows(live')
  BY DEF Deck!Expected, Shows
<1>5. Deck!SlidesTypeOK'
  BY <1>1, <1>2 DEF Deck!SlidesInv, Deck!SlidesTypeOK
<1>6. Deck!SlideIsComing'
  BY <1>1, <1>2, <1>3, <1>4 DEF Deck!SlidesInv, Deck!SlideIsComing, Deck!Active
<1>7. Deck!SavedIsSession' /\ Deck!SessionHasDeck'
  BY <1>1, <1>2, <1>3 DEF Deck!SlidesInv, Deck!SavedIsSession, Deck!SessionHasDeck
<1> QED
  BY <1>5, <1>6, <1>7 DEF Deck!SlidesInv

\* A task up to its first await.
LEMMA BeginKeepsSlides ==
    ASSUME Deck!SlidesInv, Deck!Begin
    PROVE  Deck!SlidesInv'
<1> DEFINE task == Head(tasks)
           r == Deck!Result(task)
<1>1. /\ tasks # <<>> /\ todo = Deck!Idle /\ live' = r.session /\ todo' = r.todo
      /\ liveSaved' = IF r.saves /\ ~Deck!SavesLast(task) THEN r.session ELSE liveSaved
      /\ UNCHANGED <<deck, tasks, screen, trusted, unsaved, taskCount>>
  BY DEF Deck!Begin
<1>2. LeavesWell(r, task) /\ task \in Deck!Tasks
  BY <1>1, SlidesTypes, ResultIsWell DEF Deck!SlidesInv
<1>3. Deck!SavesLast(task) => live # Deck!None /\ r.session # Deck!None /\ task.do # "start" /\ task.do # "delete"
  <2>1. ASSUME Deck!SavesLast(task) PROVE r.session # Deck!None
    <3>1. r = Deck!Control(task.do) /\ live # Deck!None /\ task.do \in {"black", "unblack"}
      BY <2>1 DEF Deck!SavesLast, Deck!Result, Deck!Current, Deck!Active
    <3>2. live \in Deck!Live
      BY <3>1, SlidesTypes DEF Deck!SlidesInv
    <3>3. \A b \in BOOLEAN : [live EXCEPT !.black = b] \in Deck!Live
      BY <3>2, LiveEdits
    <3>4. \E b \in BOOLEAN : r.session = [live EXCEPT !.black = b]
      <4> DEFINE c == task.do
      <4>0. r = Deck!Control(c) /\ c \in {"black", "unblack"}
        BY <3>1
      <4> HIDE DEF c, r, task
      <4>1. CASE c = "black"
        <5> DEFINE s == [live EXCEPT !.black = TRUE]
                   x == Deck!Is("black")
        <5>1. s = [live EXCEPT !.black = TRUE]
          OBVIOUS
        <5> HIDE DEF s, x
        <5>2. Deck!Control(c) = [session |-> s, todo |-> <<x>>, saves |-> TRUE]
          BY <4>1 DEF Deck!Control, Deck!Leaves, s, x
        <5>3. r.session = s
          BY <4>0, <5>2
        <5> QED
          BY <5>1, <5>3
      <4>2. CASE c = "unblack"
        <5> DEFINE s == [live EXCEPT !.black = FALSE]
        <5>1. s = [live EXCEPT !.black = FALSE]
          OBVIOUS
        <5> HIDE DEF s
        <5>2. Deck!Control(c) = [session |-> s, todo |-> Deck!Shown(s), saves |-> TRUE]
          BY <4>2 DEF Deck!Control, Deck!Leaves, s
        <5>3. r.session = s
          BY <4>0, <5>2
        <5> QED
          BY <5>1, <5>3
      <4> QED
        BY <4>0, <4>1, <4>2
    <3> QED
      BY <3>3, <3>4, LiveFacts
  <2> QED
    BY <2>1 DEF Deck!SavesLast, Deck!Current, Deck!Active
<1> HIDE DEF r, task
<1>4. Deck!SlidesTypeOK'
  BY <1>1, <1>2 DEF LeavesWell, Deck!SlidesInv, Deck!SlidesTypeOK
<1>5. r.todo # Deck!Idle
  BY <1>2, LiveFacts DEF LeavesWell
<1>6. Deck!Expected = Shows(live) /\ Deck!Expected' = Shows(live')
  BY DEF Deck!Expected, Shows
<1>7. Deck!SlideIsComing'
  <2>1. live' # Deck!None /\ todo' # <<>> => todo'[Len(todo')] = Deck!Expected'
    BY <1>1, <1>2, <1>6 DEF LeavesWell
  <2>2. live' # Deck!None /\ trusted' /\ todo' = <<>> => screen' = Deck!Expected'
    BY <1>1, <1>2, <1>6 DEF LeavesWell, Deck!SlidesInv, Deck!SlideIsComing, Deck!Active
  <2> QED
    BY <1>1, <1>5, <2>1, <2>2 DEF Deck!SlideIsComing, Deck!Active
<1>8. Deck!SavedIsSession'
  <2>1. ASSUME ~unsaved
        PROVE  /\ live' = Deck!None <=> liveSaved' = Deck!None
               /\ live' # Deck!None => live'.deck = liveSaved'.deck
               /\ Head(tasks').do = "delete" /\ live' # Deck!None => live'.deck # Head(tasks').deck
    <3>1. (live = Deck!None <=> liveSaved = Deck!None) /\ (live # Deck!None => live.deck = liveSaved.deck)
      BY <2>1 DEF Deck!SlidesInv, Deck!SavedIsSession
    <3>2. Head(tasks') = task
      BY <1>1 DEF task
    <3>3. CASE r.saves /\ ~Deck!SavesLast(task)
      BY <1>1, <1>2, <3>2, <3>3 DEF LeavesWell
    <3>4. CASE ~r.saves
      BY <1>1, <1>2, <3>1, <3>2, <3>4 DEF LeavesWell
    <3>5. CASE r.saves /\ Deck!SavesLast(task)
      BY <1>1, <1>2, <1>3, <3>1, <3>2, <3>5 DEF LeavesWell
    <3> QED
      BY <3>3, <3>4, <3>5
  <2> QED
    BY <1>1, <2>1 DEF Deck!SavedIsSession
<1>9. Deck!SessionHasDeck'
  <2>1. ASSUME ~unsaved, r.session # Deck!None
        PROVE  deck[r.session.deck] # "removed"
    <3>1. CASE task.do = "start" /\ r.saves
      BY <1>2, <2>1, <3>1 DEF LeavesWell
    <3>2. CASE ~r.saves
      BY <1>2, <2>1, <3>2 DEF LeavesWell, Deck!SlidesInv, Deck!SessionHasDeck
    <3>3. CASE task.do # "start"
      BY <1>2, <2>1, <3>3 DEF LeavesWell, Deck!SlidesInv, Deck!SessionHasDeck
    <3> QED
      BY <1>2, <3>1, <3>2, <3>3 DEF LeavesWell
  <2> QED
    BY <1>1, <2>1 DEF Deck!SlidesInv, Deck!SessionHasDeck
<1> QED
  BY <1>4, <1>7, <1>8, <1>9 DEF Deck!SlidesInv

LEMMA BeginFailsKeepsSlides ==
    ASSUME Deck!SlidesInv, Deck!BeginFails
    PROVE  Deck!SlidesInv'
<1> DEFINE task == Head(tasks)
           r == Deck!Result(task)
<1>1. /\ tasks # <<>> /\ todo = Deck!Idle /\ todo' = todo /\ tasks' = Tail(tasks) /\ trusted' = FALSE
      /\ unsaved' = TRUE
      /\ live' \in {r.session, Deck!None} /\ liveSaved' \in {Deck!None, liveSaved}
      /\ UNCHANGED <<deck, taskCount>>
  BY DEF Deck!BeginFails
<1>2. LeavesWell(r, task)
  BY <1>1, SlidesTypes, ResultIsWell DEF Deck!SlidesInv
<1> HIDE DEF r
<1>3. Deck!SlidesTypeOK'
  <2>1. live' \in Deck!Live \cup {Deck!None}
    BY <1>1, <1>2 DEF LeavesWell
  <2>2. tasks' \in Seq(Deck!Tasks)
    BY <1>1, SlidesTypes DEF Deck!SlidesInv
  <2> QED
    BY <1>1, <2>1, <2>2, SlidesTypes DEF Deck!SlidesInv, Deck!SlidesTypeOK
<1>4. Deck!SlideIsComing' /\ Deck!SavedIsSession' /\ Deck!SessionHasDeck'
  BY <1>1, LiveFacts DEF Deck!SlideIsComing, Deck!SavedIsSession, Deck!SessionHasDeck
<1> QED
  BY <1>3, <1>4 DEF Deck!SlidesInv

\* What is left to send, without the first.
LEMMA TodoFacts ==
    ASSUME NEW q \in Seq(Deck!Sends), q # <<>>
    PROVE  /\ Tail(q) \in Seq(Deck!Sends)
           /\ Tail(q) = <<>> => q[Len(q)] = Head(q)
           /\ Tail(q) # <<>> => Tail(q)[Len(Tail(q))] = q[Len(q)]
<1>1. Len(q) \in Nat /\ Len(q) > 0 /\ Tail(q) \in Seq(Deck!Sends) /\ Len(Tail(q)) = Len(q) - 1 /\ Head(q) = q[1]
  OBVIOUS
<1>2. \A i \in 1..Len(q) - 1 : Tail(q)[i] = q[i + 1]
  OBVIOUS
<1>3. Tail(q) = <<>> <=> Len(Tail(q)) = 0
  <2>1. \A t \in Seq(Deck!Sends) : t = <<>> <=> Len(t) = 0
    OBVIOUS
  <2> QED
    BY <1>1, <2>1
<1> QED
  BY <1>1, <1>2, <1>3

LEMMA SendKeepsSlides ==
    ASSUME Deck!SlidesInv, NEW ok \in BOOLEAN, Deck!Send(ok)
    PROVE  Deck!SlidesInv'
<1>1. /\ todo # Deck!Idle /\ todo # <<>> /\ todo \in Seq(Deck!Sends) /\ tasks # <<>>
      /\ UNCHANGED <<deck, live, liveSaved, unsaved, taskCount>>
  BY SlidesTypes DEF Deck!Send, Deck!SlidesInv, Deck!SlideIsComing
<1>2. Deck!Expected' = Deck!Expected
  BY <1>1 DEF Deck!Expected
<1>3. Deck!SessionHasDeck'
  BY <1>1 DEF Deck!SlidesInv, Deck!SessionHasDeck
<1>4. CASE ok
  <2>1. screen' = Head(todo) /\ todo' = Tail(todo) /\ tasks' = tasks /\ trusted' \in BOOLEAN
    BY <1>4 DEF Deck!Send
  <2>2. /\ todo' \in Seq(Deck!Sends) /\ todo' # Deck!Idle
        /\ todo' = <<>> => todo[Len(todo)] = Head(todo)
        /\ todo' # <<>> => todo'[Len(todo')] = todo[Len(todo)]
    BY <1>1, <2>1, TodoFacts, LiveFacts
  <2>3. Deck!SlidesTypeOK'
    BY <1>1, <2>1, <2>2 DEF Deck!SlidesInv, Deck!SlidesTypeOK
  <2>4. Deck!SlideIsComing'
    BY <1>1, <1>2, <2>1, <2>2 DEF Deck!SlidesInv, Deck!SlideIsComing, Deck!Active
  <2>5. Deck!SavedIsSession'
    BY <1>1, <2>1, <2>2 DEF Deck!SlidesInv, Deck!SavedIsSession
  <2> QED
    BY <1>3, <2>3, <2>4, <2>5 DEF Deck!SlidesInv
<1>5. CASE ~ok
  <2>1. todo' = Deck!Idle /\ tasks' = Tail(tasks) /\ trusted' = FALSE
    BY <1>5 DEF Deck!Send
  <2>2. tasks' \in Seq(Deck!Tasks)
    BY <1>1, <2>1, SlidesTypes DEF Deck!SlidesInv
  <2>3. Deck!SlidesTypeOK'
    BY <1>1, <2>1, <2>2 DEF Deck!SlidesInv, Deck!SlidesTypeOK
  <2>4. Deck!SlideIsComing' /\ Deck!SavedIsSession'
    BY <1>1, <2>1, LiveFacts DEF Deck!SlidesInv, Deck!SlideIsComing, Deck!SavedIsSession
  <2> QED
    BY <1>3, <2>3, <2>4 DEF Deck!SlidesInv
<1> QED
  BY <1>4, <1>5

\* The end of a task.
LEMMA EndKeepsSlides ==
    ASSUME Deck!SlidesInv, Deck!End
    PROVE  Deck!SlidesInv'
<1> DEFINE task == Head(tasks)
<1>1. /\ todo = <<>> /\ todo # Deck!Idle /\ tasks # <<>> /\ deck' = Deck!Removed(task)
      /\ liveSaved' \in {live, liveSaved} /\ todo' = Deck!Idle /\ tasks' = Tail(tasks)
      /\ UNCHANGED <<live, screen, trusted, unsaved, taskCount>>
  BY LiveFacts DEF Deck!End, Deck!SlidesInv, Deck!SlideIsComing
<1>2. task \in Deck!Tasks /\ tasks' \in Seq(Deck!Tasks)
  BY <1>1, SlidesTypes DEF Deck!SlidesInv
<1> HIDE DEF task
<1>3. /\ deck' \in [Decks -> {"new", "kept", "removed"}]
      /\ \A d \in Decks : deck'[d] # deck[d] => task.do = "delete" /\ d = task.deck
  BY <1>1, SlidesTypes DEF Deck!Removed, Deck!SlidesInv
<1>4. Deck!SlidesTypeOK'
  BY <1>1, <1>2, <1>3 DEF Deck!SlidesInv, Deck!SlidesTypeOK
<1>5. Deck!Expected' = Deck!Expected
  BY <1>1 DEF Deck!Expected
<1>6. Deck!SlideIsComing'
  BY <1>1, <1>5, LiveFacts DEF Deck!SlidesInv, Deck!SlideIsComing, Deck!Active
<1>7. Deck!SavedIsSession'
  BY <1>1 DEF Deck!SlidesInv, Deck!SavedIsSession
<1>8. Deck!SessionHasDeck'
  <2>1. ASSUME ~unsaved, NEW s \in {live, liveSaved}, s # Deck!None
        PROVE  deck'[s.deck] # "removed"
    <3>1. live # Deck!None /\ s.deck = live.deck /\ s.deck \in Decks
      BY <2>1, SlidesTypes, LiveFacts DEF Deck!SlidesInv, Deck!SavedIsSession
    <3>2. task.do = "delete" => live.deck # task.deck
      BY <1>1, <2>1, <3>1 DEF Deck!SlidesInv, Deck!SavedIsSession, task
    <3>3. deck[s.deck] # "removed"
      BY <2>1 DEF Deck!SlidesInv, Deck!SessionHasDeck
    <3> QED
      BY <1>3, <3>1, <3>2, <3>3
  <2> QED
    BY <1>1, <2>1 DEF Deck!SessionHasDeck
<1> QED
  BY <1>4, <1>6, <1>7, <1>8 DEF Deck!SlidesInv

LEMMA SlidesKept ==
    ASSUME Deck!SlidesInv,
           \/ Deck!Request \/ Deck!Elapse \/ Deck!Tick \/ Deck!Step \/ Deck!Renders \/ Deck!Others \/ Deck!Restart
           \/ UNCHANGED slides
    PROVE  Deck!SlidesInv'
<1>1. CASE Deck!Renders \/ Deck!Others \/ UNCHANGED slides
  <2>1. UNCHANGED <<live, liveSaved, tasks, todo, unsaved, taskCount>>
    BY <1>1 DEF Deck!Renders, Deck!BuildEnds, Deck!Others, slides
  <2>2. Deck!SlidesTypeOK
    BY DEF Deck!SlidesInv
  <2>3. /\ deck' \in [Decks -> {"new", "kept", "removed"}]
        /\ \A d \in Decks : deck'[d] = "removed" => deck[d] = "removed"
    BY <1>1, <2>2, SlidesTypes DEF Deck!Renders, Deck!BuildEnds, Deck!Others, slides
  <2>4. trusted' \in BOOLEAN /\ (trusted' => trusted /\ screen' = screen)
    <3>1. trusted' = FALSE \/ (trusted' = trusted /\ screen' = screen)
      BY <1>1 DEF Deck!Renders, Deck!BuildEnds, Deck!Others, slides
    <3>2. trusted \in BOOLEAN
      BY <2>2, SlidesTypes
    <3>3. CASE trusted' = FALSE
      <4>1. trusted' \in BOOLEAN
        BY <3>3
      <4>2. ~trusted'
        BY <3>3
      <4> QED
        BY <4>1, <4>2
    <3>4. CASE trusted' = trusted /\ screen' = screen
      <4>1. trusted' \in BOOLEAN
        BY <3>2, <3>4
      <4> QED
        BY <3>4, <4>1, Zenon
    <3> QED
      BY <3>1, <3>3, <3>4
  <2>5. /\ tasks' \in Seq(Deck!Tasks) /\ taskCount' \in Nat
        /\ (tasks # <<>> => tasks' # <<>> /\ Head(tasks') = Head(tasks))
    BY <2>1, <2>2, SlidesTypes
  <2> QED
    BY <2>1, <2>3, <2>4, <2>5, SessionStays
<1>2. CASE Deck!Restart
  <2>1. /\ live' = liveSaved /\ tasks' = <<>> /\ todo' = Deck!Idle /\ trusted' = FALSE
        /\ UNCHANGED <<deck, liveSaved, unsaved, taskCount>>
    BY <1>2 DEF Deck!Restart
  <2>2. Deck!SlidesTypeOK'
    <3>1. tasks' \in Seq(Deck!Tasks) /\ todo' \in {Deck!Idle} /\ trusted' \in BOOLEAN
      <4>1. <<>> \in Seq(Deck!Tasks)
        OBVIOUS
      <4> QED
        BY <2>1, <4>1
    <3>2. live' \in Deck!Live \cup {Deck!None}
      BY <2>1, SlidesTypes DEF Deck!SlidesInv
    <3> QED
      BY <2>1, <3>1, <3>2 DEF Deck!SlidesInv, Deck!SlidesTypeOK
  <2>3. Deck!SlideIsComing' /\ Deck!SavedIsSession' /\ Deck!SessionHasDeck'
    BY <2>1, LiveFacts
       DEF Deck!SlidesInv, Deck!SlideIsComing, Deck!SavedIsSession, Deck!SessionHasDeck
  <2> QED
    BY <2>2, <2>3 DEF Deck!SlidesInv
<1> QED
  BY <1>1, <1>2, SlidesRequestKeeps, TickKeepsSlides, ElapseKeepsSlides, BeginKeepsSlides, BeginFailsKeepsSlides,
     SendKeepsSlides, EndKeepsSlides DEF Deck!Step

\* Slides advance by themselves only when the one that is up has had its time.
LEMMA AdvanceIsDue ==
    ASSUME Deck!SlidesInv,
           \/ Deck!Request \/ Deck!Elapse \/ Deck!Tick \/ Deck!Step \/ Deck!Renders \/ Deck!Others \/ Deck!Restart
           \/ UNCHANGED slides,
           live # Deck!None, live'.slide # live.slide, tasks # <<>>, Head(tasks).do = "advance", ~Deck!Restart
    PROVE  live.due /\ ~live.paused /\ live.slide = Head(tasks).slide
<1>1. live' # live
  OBVIOUS
<1>2. ~Deck!Elapse
  <2>1. live \in Deck!Live
    BY SlidesTypes DEF Deck!SlidesInv
  <2> QED
    BY <2>1 DEF Deck!Elapse, Deck!Live
<1>3. Deck!Begin \/ Deck!BeginFails
  BY <1>1, <1>2 DEF Deck!Request, Deck!Build, Deck!Ask, Deck!Tick, Deck!Step, Deck!Send, Deck!End, Deck!Renders,
     Deck!BuildEnds, Deck!Others, slides
<1>4. live' = Deck!Result(Head(tasks)).session
  BY <1>3 DEF Deck!Begin, Deck!BeginFails
<1>5. Deck!StillDue(Head(tasks))
  BY <1>1, <1>4 DEF Deck!Result, Deck!Nothing
<1> QED
  BY <1>5 DEF Deck!StillDue

LEMMA SlidesTurns ==
    ASSUME [Next]_vars
    PROVE  \/ Deck!Request \/ Deck!Elapse \/ Deck!Tick \/ Deck!Step \/ Deck!Renders \/ Deck!Others \/ Deck!Restart
           \/ UNCHANGED slides
<1>1. ASSUME NEW service \in {"uploads", "learning", "updates", "sports", "music", "displays", "lab"}, Only(service)
      PROVE  UNCHANGED slides
  BY <1>1 DEF Only, OnlyInRoom
<1>2. CASE Requests
  BY <1>1, <1>2 DEF Requests, UploadRequest, LearningRequest, UpdatesRequest, SportsRequest, MusicRequest,
     DisplaysRequest, SlidesRequest, LabRequest, AskExport, Quiet, room
<1>3. CASE Timers
  BY <1>1, <1>3 DEF Timers, UploadCleanup, GradingTimer, UpdatesTimer, SportsTimer, MusicTimer, SlidesTimer, LabTimer
<1>4. CASE Steps
  BY <1>1, <1>4 DEF Steps, UploadStep, FileStep, GradingStep, TickStep, InstallStep, SportsStep, MusicStep,
     DisplaysStep, SlidesStep, LabStep, ExportAnswered, Thaw, Quiet, room
<1>5. CASE Elapse \/ Outside
  BY <1>1, <1>5 DEF Elapse, Outside
<1>6. CASE Restart \/ UNCHANGED vars
  BY <1>6 DEF Restart, vars, room
<1> QED
  BY <1>2, <1>3, <1>4, <1>5, <1>6 DEF Next

LEMMA SlidesInit == Init => Deck!SlidesInv
<1> SUFFICES ASSUME Deck!Init PROVE Deck!SlidesInv
  BY DEF Init, RoomInit
<1>1. /\ deck = [d \in Decks |-> "new"] /\ live = Deck!None /\ liveSaved = Deck!None /\ tasks = <<>>
      /\ todo = Deck!Idle /\ trusted = FALSE /\ unsaved = FALSE /\ taskCount = 0
  BY DEF Deck!Init
<1>2. 0 \in Nat /\ <<>> \in Seq(Deck!Tasks)
  OBVIOUS
<1>3. deck \in [Decks -> {"new", "kept", "removed"}]
  BY <1>1
<1>4. Deck!SlidesTypeOK
  BY <1>1, <1>2, <1>3 DEF Deck!SlidesTypeOK
<1>5. Deck!SlideIsComing /\ Deck!SavedIsSession /\ Deck!SessionHasDeck
  BY <1>1 DEF Deck!SlideIsComing, Deck!Active, Deck!SavedIsSession, Deck!SessionHasDeck
<1> QED
  BY <1>4, <1>5 DEF Deck!SlidesInv

------------------------------------------------------------------------------
\* What the displays show is what their owners, and the session of the slides, want.
THEOREM DisplaysAreRight == Spec => DisplaysShowWhatTheyShould
<1>1. Init => Display!DisplaysInv /\ Deck!SlidesInv
  BY DisplaysInit, SlidesInit
<1>2. Display!DisplaysInv /\ [Next]_vars => Display!DisplaysInv' /\ \A d \in Displays : Respected(d)
  BY DisplaysTurns, DisplaysKept
<1>3. Deck!SlidesInv /\ [Next]_vars => Deck!SlidesInv'
  BY SlidesTurns, SlidesKept
<1>4. Display!DisplaysInv => Display!ReceiversFollow
  BY DEF Display!DisplaysInv
<1>5. Deck!SlidesInv => Deck!SlideIsShown /\ Deck!SessionHasDeck
  BY DEF Deck!SlidesInv, Deck!SlideIsComing, Deck!SlideIsShown, Deck!Expected
<1>6. Display!DisplaysInv /\ [Next]_vars =>
        [\A d \in Displays :
          /\ d \in lock \cap lock' /\ content'[d] # content[d] =>
               Display!Writer(content'[d]) \in {"stream", "release", "text"}
          /\ d \in reserved /\ content'[d] # content[d] => Display!Writer(content'[d]) = "media"
          /\ mqtt'[d] # mqtt[d] => d \notin reserved
          /\ content'[d] # content[d] /\ Display!Writer(content'[d]) = "release" =>
               Display!Writer(content[d]) = "stream"
          /\ mqtt'[d] # mqtt[d] /\ Display!Writer(mqtt'[d]) = "release" => content[d] = mqtt'[d]]_<<content, mqtt>>
  BY <1>2 DEF Respected
<1>7. Deck!SlidesInv /\ [Next]_vars =>
        [/\ Deck!Active /\ live' # Deck!None /\ live'.slide # live.slide
         /\ tasks # <<>> /\ Head(tasks).do = "advance" /\ ~Deck!Restart
         => live.due /\ ~live.paused /\ live.slide = Head(tasks).slide]_live
  BY SlidesTurns, AdvanceIsDue DEF Deck!Active
<1> QED
  BY <1>1, <1>2, <1>3, <1>4, <1>5, <1>6, <1>7, PTL
     DEF Spec, DisplaysShowWhatTheyShould, Display!OwnersAreRespected, Deck!AdvancesInTime

------------------------------------------------------------------------------
(* The full export.                                                        *)

\* What the export waits for.
Awaited ==
    <<requests, fileWork, grading, install, hostRunning, saved, tick, refresh, ops, commands, tasks, builds>>

LEMMA StaysDrained ==
    ASSUME Drained, UNCHANGED Awaited, \A d \in Devices : aged[d] => aged'[d]
    PROVE  Drained'
<1>1. ~Updates!Active'
  BY DEF Drained, Awaited, Updates!Active
<1> QED
  BY <1>1 DEF Drained, Awaited

\* What a step leaves alone that is neither awaited nor saved does not matter.
LEMMA StillIs ==
    ASSUME UNCHANGED <<file, record, session, parts, writing, review, ai, pending, saved, policy, stored, statuses,
                       content, reserved, deck, made, liveSaved>>
    PROVE  UNCHANGED Durable
BY DEF Durable

\* The time of a queued row comes.
LEMMA DueIsStill ==
    ASSUME Learning!TypeOK, Learning!Due,
           UNCHANGED <<file, record, session, parts, saved, policy, stored, statuses,
                       content, reserved, deck, made, liveSaved>>
    PROVE  UNCHANGED Durable
<1> DEFINE Soon(row) == IF row = Learning!None THEN row ELSE [row EXCEPT !.ready = TRUE]
<1>1. UNCHANGED <<writing, review, ai>> /\ pending \in Learning!Rows /\ pending' = [pending EXCEPT !.ready = TRUE]
  BY DEF Learning!Due, Learning!TypeOK
<1>2. pending # Learning!None /\ pending' # Learning!None
  BY <1>1 DEF Learning!Rows, Learning!None
<1>3. [pending' EXCEPT !.ready = TRUE] = [pending EXCEPT !.ready = TRUE]
  BY <1>1 DEF Learning!Rows
<1> QED
  BY <1>1, <1>2, <1>3 DEF Durable

\* While the data is copied no request, no timer and no step of work goes on, but for those
\* that neither change what is saved nor begin what the export has waited for.
LEMMA FrozenIsStill ==
    ASSUME Upload!UploadsInv, Learning!TypeOK, Updates!UpdatesInv, Deck!SlidesInv, Drained, freeze = "frozen",
           freeze' = "frozen", Next
    PROVE  Drained' /\ (UNCHANGED Durable \/ UploadCleanup)
<1>0. paused
  BY DEF paused
<1>1. ASSUME NEW service, Only(service)
      PROVE  /\ service # "uploads" => UNCHANGED uploads
             /\ service # "learning" => UNCHANGED learning
             /\ service # "updates" => UNCHANGED updates
             /\ service # "sports" => UNCHANGED sports
             /\ service # "music" => UNCHANGED music
             /\ service # "displays" => UNCHANGED displays
             /\ service # "slides" => UNCHANGED slides
  BY <1>1 DEF Only, OnlyInRoom
<1> DEFINE Harmless == UNCHANGED Awaited /\ (\A d \in Devices : aged[d] => aged'[d])
                       /\ (UNCHANGED Durable \/ UploadCleanup)
<1>2. Requests => Harmless
  <2>1. ~UploadRequest /\ ~LearningRequest /\ ~SportsRequest /\ ~MusicRequest /\ ~AskExport
    BY <1>0 DEF UploadRequest, LearningRequest, SportsRequest, MusicRequest, AskExport
  <2>2. ~UpdatesRequest /\ ~SlidesRequest
    BY <1>0 DEF UpdatesRequest, SlidesRequest, Updates!Request, Updates!Configure, Updates!Install,
       Deck!Request, Deck!Build, Deck!Ask
  <2>3. ASSUME DisplaysRequest PROVE Harmless
    <3>1. UNCHANGED <<content, reserved, commands>>
      BY <1>0, <2>3 DEF DisplaysRequest, Display!Request, Display!Send, Display!Dedicate,
         Display!Announcements, Display!AnnouncementStarts, Display!AnnouncementReleases, Display!AnnouncementEnds
    <3>2. UNCHANGED <<uploads, learning, updates, sports, music, slides>>
      BY <1>1, <2>3 DEF DisplaysRequest
    <3> QED
      BY <3>1, <3>2, StillIs DEF Awaited, uploads, learning, updates, sports, music, slides
  <2>4. ASSUME LabRequest PROVE Harmless
    <3>1. UNCHANGED <<uploads, learning, updates, sports, music, displays, slides>>
      BY <1>1, <2>4 DEF LabRequest
    <3> QED
      BY <3>1, StillIs DEF Awaited, uploads, learning, updates, sports, music, displays, slides
  <2> QED
    BY <2>1, <2>2, <2>3, <2>4 DEF Requests
<1>3. Timers => Harmless
  <2>1. ASSUME UploadCleanup PROVE Harmless
    <3>1. UNCHANGED <<requests, fileWork>>
      BY <2>1 DEF UploadCleanup, Upload!Cleanup, Upload!locks
    <3>2. UNCHANGED <<learning, updates, sports, music, displays, slides>>
      BY <1>1, <2>1 DEF UploadCleanup
    <3> QED
      BY <2>1, <3>1, <3>2 DEF Awaited, learning, updates, sports, music, displays, slides
  <2>2. ~GradingTimer /\ ~UpdatesTimer /\ ~SportsTimer /\ ~MusicTimer /\ ~SlidesTimer
    BY <1>0 DEF GradingTimer, UpdatesTimer, SportsTimer, MusicTimer, SlidesTimer,
       Updates!Timer, Updates!Tick, Sports!Start, Music!Tick, Deck!Tick
  <2>3. ASSUME LabTimer PROVE Harmless
    <3>1. UNCHANGED <<uploads, learning, updates, sports, music, displays, slides>>
      BY <1>1, <2>3 DEF LabTimer
    <3> QED
      BY <3>1, StillIs DEF Awaited, uploads, learning, updates, sports, music, displays, slides
  <2> QED
    BY <2>1, <2>2, <2>3 DEF Timers
<1>4. Steps => Harmless
  <2>1. ~UploadStep
    <3>1. ASSUME NEW u \in Uploads PROVE ~Upload!RequestStep(u)
      <4>1. requests[u] = <<>> /\ job[u] = Upload!Idle
        BY DEF Drained, Upload!UploadsInv, Upload!OwnsSession
      <4>2. job[u].pc = "idle"
        BY <4>1 DEF Upload!Idle
      <4> QED
        BY <4>1, <4>2 DEF Upload!RequestStep, Upload!PutChunk, Upload!ChunkArrives, Upload!Complete, Upload!Assemble,
           Upload!FinishReceipt, Upload!Cancel, Upload!Ready
    <3> QED
      BY <3>1 DEF UploadStep
  <2>2. ~FileStep
    BY DEF FileStep, Drained, Upload!FileStep, Upload!Replay, Upload!Register, Upload!Discard, Upload!Delete,
       Upload!Convert, Upload!OwnsFile
  <2>3. ~GradingStep
    BY DEF GradingStep, Drained, Learning!Step, Learning!Graded, Learning!GradingFailed, Learning!Synced,
        Learning!None
  <2>4. ~TickStep /\ ~InstallStep
    <3>1. tick = "off" /\ install.pc = "idle"
      BY DEF Drained, Updates!Active, Updates!Idle
    <3>2. ~Updates!TickStep
      BY <3>1 DEF Updates!TickStep, Updates!TickJob, Updates!TickIdle, Updates!TickCheck, Updates!TickUnknown,
         Updates!TickRecover
    <3>3. ~Updates!InstallStep
      BY <3>1 DEF Updates!InstallStep, Updates!Asked, Updates!Checked, Updates!Claim, Updates!Send, Updates!Answered
    <3> QED
      BY <3>2, <3>3 DEF TickStep, InstallStep
  <2>5. ~MusicStep /\ ~DisplaysStep
    BY DEF Drained, MusicStep, DisplaysStep, Music!Step, Display!Step
  <2>6. ~SportsStep
    BY DEF Drained, SportsStep, Sports!Step, Sports!Fetched, Sports!Finish
  <2>7. ASSUME SlidesStep PROVE FALSE
    <3>1. tasks = <<>> /\ todo = Deck!Idle /\ todo # <<>> /\ builds = {}
      BY LiveFacts DEF Drained, Deck!SlidesInv, Deck!SlideIsComing
    <3> QED
      BY <2>7, <3>1 DEF SlidesStep, Deck!Step, Deck!Begin, Deck!BeginFails, Deck!Send, Deck!End, Deck!Renders,
         Deck!BuildEnds
  <2>8. ASSUME LabStep PROVE Harmless
    <3>1. UNCHANGED <<uploads, learning, updates, sports, music, displays, slides>>
      BY <1>1, <2>8 DEF LabStep
    <3> QED
      BY <3>1, StillIs DEF Awaited, uploads, learning, updates, sports, music, displays, slides
  <2>9. ~ExportAnswered /\ ~Thaw
    BY DEF ExportAnswered, Thaw
  <2> QED
    BY <2>1, <2>2, <2>3, <2>4, <2>5, <2>6, <2>7, <2>8, <2>9 DEF Steps
<1>5. Elapse => Harmless
  <2>1. ASSUME Only("uploads"), NEW u \in Uploads, Upload!Expire(u) PROVE Harmless
    <3>1. UNCHANGED <<requests, fileWork, session, parts, file, record>>
      BY <2>1 DEF Upload!Expire, Upload!library, Upload!locks
    <3>2. UNCHANGED <<learning, updates, sports, music, displays, slides>>
      BY <1>1, <2>1
    <3> QED
      BY <3>1, <3>2, StillIs DEF Awaited, learning, updates, sports, music, displays, slides
  <2>2. ASSUME Only("learning"), Learning!Due PROVE Harmless
    <3>1. UNCHANGED <<uploads, updates, sports, music, displays, slides>>
      BY <1>1, <2>2
    <3>2. UNCHANGED grading
      BY <2>2 DEF Learning!Due
    <3> QED
      BY <2>2, <3>1, <3>2, DueIsStill DEF Awaited, uploads, updates, sports, music, displays, slides
  <2>3. ASSUME Only("slides"), Deck!Elapse PROVE Harmless
    <3>1. UNCHANGED <<uploads, learning, updates, sports, music, displays>>
      BY <1>1, <2>3
    <3>2. UNCHANGED <<tasks, builds, deck, made, liveSaved>>
      BY <2>3 DEF Deck!Elapse
    <3> QED
      BY <3>1, <3>2, StillIs DEF Awaited, uploads, learning, updates, sports, music, displays
  <2>4. ASSUME Only("lab") PROVE Harmless
    <3>1. UNCHANGED <<uploads, learning, updates, sports, music, displays, slides>>
      BY <1>1, <2>4
    <3> QED
      BY <3>1, StillIs DEF Awaited, uploads, learning, updates, sports, music, displays, slides
  <2> QED
    BY <2>1, <2>2, <2>3, <2>4 DEF Elapse
<1>6. Outside => Harmless
  <2>1. ASSUME Only("updates"), Updates!Outside PROVE Harmless
    <3>1. UNCHANGED <<uploads, learning, sports, music, displays, slides>>
      BY <1>1, <2>1
    <3>2. UNCHANGED <<saved, policy, install, tick, hostRunning>>
      BY <2>1 DEF Updates!Outside, Updates!Release, Updates!Flash, Updates!HostEnds, Updates!Age, Updates!CoolDown,
         Updates!store
    <3>3. \A d \in Devices : aged[d] => aged'[d]
      <4>1. aged' = aged \/ \E d \in Devices : aged' = [aged EXCEPT ![d] = TRUE]
        BY <2>1 DEF Updates!Outside, Updates!Release, Updates!Flash, Updates!HostEnds, Updates!Age, Updates!CoolDown
      <4>2. aged \in [Devices -> BOOLEAN]
        BY DEF Updates!UpdatesInv, Updates!TypeOK
      <4> QED
        BY <4>1, <4>2
    <3> QED
      BY <3>1, <3>2, <3>3, StillIs DEF Awaited, uploads, learning, sports, music, displays, slides
  <2>2. ASSUME Only("music"), Music!PlayerEnds PROVE Harmless
    <3>1. UNCHANGED <<uploads, learning, updates, sports, displays, slides>>
      BY <1>1, <2>2
    <3>2. UNCHANGED ops
      BY <2>2 DEF Music!PlayerEnds
    <3> QED
      BY <3>1, <3>2, StillIs DEF Awaited, uploads, learning, updates, sports, displays, slides
  <2>3. ASSUME Only("displays"), Display!Receivers PROVE Harmless
    <3>1. UNCHANGED <<uploads, learning, updates, sports, music, slides>>
      BY <1>1, <2>3
    <3>2. UNCHANGED <<content, reserved, commands>>
      BY <2>3 DEF Display!Receivers, Display!Connect, Display!Disconnect
    <3> QED
      BY <3>1, <3>2, StillIs DEF Awaited, uploads, learning, updates, sports, music, slides
  <2>4. ASSUME Only("slides"), Deck!Others PROVE Harmless
    <3>1. UNCHANGED <<uploads, learning, updates, sports, music, displays>>
      BY <1>1, <2>4
    <3>2. UNCHANGED <<tasks, builds, deck, made, liveSaved>>
      BY <2>4 DEF Deck!Others
    <3> QED
      BY <3>1, <3>2, StillIs DEF Awaited, uploads, learning, updates, sports, music, displays
  <2> QED
    BY <2>1, <2>2, <2>3, <2>4 DEF Outside
<1>7. ~Restart
  BY DEF Restart
<1>8. Harmless
  BY <1>2, <1>3, <1>4, <1>5, <1>6, <1>7 DEF Next
<1> QED
  BY <1>8, StaysDrained

\* The export begins to copy only when what it waited for has ended.
LEMMA FrozenOnceDrained ==
    ASSUME FrozenIsDrained, freeze # "frozen", Next
    PROVE  FrozenIsDrained'
<1>1. ASSUME NEW service, Only(service) PROVE freeze' = freeze
  BY <1>1 DEF Only
<1>2. ASSUME freeze' = "frozen" PROVE ExportAnswered
  <2>1. ~Requests
    BY <1>1, <1>2 DEF Requests, UploadRequest, LearningRequest, UpdatesRequest, SportsRequest, MusicRequest,
       DisplaysRequest, SlidesRequest, LabRequest, AskExport
  <2>2. ~Timers
    BY <1>1, <1>2 DEF Timers, UploadCleanup, GradingTimer, UpdatesTimer, SportsTimer, MusicTimer, SlidesTimer,
        LabTimer
  <2>3. ~Elapse /\ ~Outside /\ ~Restart
    BY <1>1, <1>2 DEF Elapse, Outside, Restart
  <2>4. Steps => ExportAnswered
    BY <1>1, <1>2 DEF Steps, UploadStep, FileStep, GradingStep, TickStep, InstallStep, SportsStep, MusicStep,
       DisplaysStep, SlidesStep, LabStep, Thaw
  <2> QED
    BY <2>1, <2>2, <2>3, <2>4 DEF Next
<1>3. ASSUME freeze' = "frozen" PROVE Drained'
  <2>1. Drained /\ Quiet
    BY <1>2, <1>3 DEF ExportAnswered
  <2> QED
    BY <2>1, StaysDrained
       DEF Quiet, Awaited, room, uploads, learning, updates, sports, music, displays, slides
<1> QED
  BY <1>3 DEF FrozenIsDrained

\* The services, and the export, are as they should be.
THEOREM ServicesAreWell == Spec => []ServicesInv
<1>1. Init => ServicesInv
  <2>1. Init => FrozenIsDrained
    BY DEF Init, FrozenIsDrained
  <2>2. Init => Upload!UploadsInv /\ Updates!UpdatesInv
    BY UploadsInit, UpdatesInit DEF Init
  <2> QED
    BY <2>1, <2>2, LearningInit, SportsInit, MusicInit, DisplaysInit, SlidesInit, LabInit DEF ServicesInv
<1>2. ServicesInv /\ [Next]_vars => ServicesInv'
  <2> SUFFICES ASSUME ServicesInv, [Next]_vars PROVE ServicesInv'
    OBVIOUS
  <2>1. Upload!UploadsInv' /\ Updates!UpdatesInv'
    BY UploadsKept, UpdatesTurns, UpdatesKept DEF ServicesInv
  <2>2. Learning!TypeOK' /\ Sports!SportsInv' /\ Music!MusicInv'
    BY LearningTurns, LearningGrades, SportsTurns, SportsIsSafe, MusicKept DEF ServicesInv
  <2>3. Display!DisplaysInv' /\ Deck!SlidesInv'
    BY DisplaysTurns, DisplaysKept, SlidesTurns, SlidesKept DEF ServicesInv
  <2>4. Veyon!PoolInv'
    BY LabTurns, PoolKept, CallsKept DEF ServicesInv, Veyon!PoolInv, PoolIsSound
  <2>5. FrozenIsDrained'
    <3>1. CASE Next /\ freeze = "frozen"
      BY <3>1, FrozenIsStill DEF ServicesInv, FrozenIsDrained
    <3>2. CASE Next /\ freeze # "frozen"
      BY <3>2, FrozenOnceDrained DEF ServicesInv
    <3>3. CASE UNCHANGED vars
      BY <3>3, StaysDrained
         DEF ServicesInv, FrozenIsDrained, vars, Awaited, room,
             uploads, learning, updates, sports, music, displays, slides
    <3> QED
      BY <3>1, <3>2, <3>3
  <2> QED
    BY <2>1, <2>2, <2>3, <2>4, <2>5 DEF ServicesInv
<1> QED
  BY <1>1, <1>2, PTL DEF Spec

------------------------------------------------------------------------------
\* While the full export copies the data nothing that it has saved changes, but for the
\* uploads that the cleanup removes.
THEOREM ExportIsStill == Spec => ExportedDataIsStill
<1>1. Spec => []ServicesInv
  BY ServicesAreWell
<1>2. ServicesInv /\ [Next]_vars =>
        [freeze = "frozen" /\ freeze' = "frozen" => UNCHANGED Durable \/ UploadCleanup]_vars
  BY FrozenIsStill DEF ServicesInv, FrozenIsDrained
<1> QED
  BY <1>1, <1>2, PTL DEF Spec, ExportedDataIsStill

==============================================================================
