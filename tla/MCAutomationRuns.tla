-------------------------- MODULE MCAutomationRuns --------------------------
(* Small instances of AutomationRuns.  s1 loops continually on a display that  *)
(* every run uses; s2 also uses a TV.                                          *)
EXTENDS AutomationRuns

Resources == [s1 |-> {"display"}, s2 |-> {"display", "tv"},
              m1 |-> {"display"}, t1 |-> {"display"}]

\* A request is handled as soon as it is admitted: the delay matters only to a freeze or a
\* shutdown that comes between.
Prompt == admitted' # "aborted" /\ (admitted = "open" => admitted' = "none")

\* Neither export nor shutdown: a crash may still come at any time.
Calm == Prompt /\ freeze' = "none" /\ life' = "up"

\* Runs are stopped one by one, never all at once for media played by hand.
Ledger == Calm /\ media' = "off"

\* Ownership does not depend on rows the ledger drops, on edits or on saved marks.
Ownership == Calm /\ claimed \subseteq claimed' /\ stale' = {} /\ saved' = marked'

\* Exports and shutdowns: no Resume and no media played by hand, no edits, no dropped rows.
Drain == /\ media' = "off" /\ resume' = "idle" /\ stale' = {}
         /\ claimed \subseteq claimed' /\ saved' = marked'

=============================================================================
