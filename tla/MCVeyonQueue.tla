--------------------------- MODULE MCVeyonQueue ---------------------------
(* Small instances of the Veyon command queue. *)
EXTENDS VeyonQueue
CONSTANTS h1, screenLock, demoServer, demoClient
OneHost == {h1}
OneLock == {screenLock}
TwoModes == {demoServer, demoClient}
Nothing == {}
ThreeIds == 1..3

\* Two broadcast features make a large instance; there, commands do not expire, and the
\* computer changes only by what the Hub writes.
Unexpired == (endpoint' # endpoint => hub' # hub) /\ \A i \in Ids : ~job'[i].expired
=============================================================================
