----------------------- MODULE MCMorningAnnouncements -----------------------
(* Small instances of MorningAnnouncements. *)
EXTENDS MorningAnnouncements, TLC

CONSTANTS d1, d2

TwoDisplays == Permutations({d1, d2})

NoOccurrences == <<>>
OneOccurrence == <<{d1, d2}>>
TwoOccurrences == <<{d1}, {d1, d2}>>

Open == Init /\ enabled /\ inWindow

\* What happens to the displays: no diagnostic check, a watch window that is open and
\* stays so; exports as long as no command has failed; the second failure, if any, is of a
\* release retry.
DisplaySpec == Open /\ [][Next]_vars
Undisturbed ==
  /\ check' = 0 /\ inWindow' /\ (freeze' # "off" => used'.failures = 0)
  /\ used.failures = 1 /\ used'.failures = 2 => Kind = "retry"

\* What happens to the watcher: no export; diagnostic checks of the first configuration
\* only, and a window that has closed stays closed.
WatchSpec == Open /\ [][Next]_vars /\ Fairness
Watched == freeze' = "off" /\ check' \in {0, 1} /\ (inWindow' => inWindow)

\* Neither exports nor checks, and nobody resumes the schedule by hand.
Unaided == Undisturbed /\ freeze' = "off" /\ \A i \in DOMAIN tasks' : tasks'[i].kind # "resume"
=============================================================================
