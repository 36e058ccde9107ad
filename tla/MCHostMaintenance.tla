-------------------------- MODULE MCHostMaintenance --------------------------
(* A file that exists and a directory that does not.  An update of the     *)
(* application comes first, or when an upgrade of Music Assistant was      *)
(* interrupted with its snapshot made, and after it comes only an export:  *)
(* what it leaves on disk and what the other changes leave have nothing in *)
(* common, and the lock is all that they share.  The second end of the     *)
(* Host Agent or the host is for a change that is alone.                   *)
EXTENDS HostMaintenance

TwoRoots == <<"env", "data">>
OneExists == {1}

Updated == request # App!None \/ status.phase # "idle"

Apart ==
    /\ jobs > 0 /\ jobs' # jobs =>
          /\ Updated => lock' = "export"
          /\ (Updated' = Updated) \/ (boot = "down" /\ musicJournal.stage = "backed-up")
    /\ jobs' + crashes' <= 3

==============================================================================
