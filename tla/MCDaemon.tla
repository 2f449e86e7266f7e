------------------------------ MODULE MCDaemon -------------------------------
(***************************************************************************)
(* Daemons on one socket path; and, apart from them, the index of one.     *)
(***************************************************************************)
EXTENDS Daemon, SpecIndex

AllPaths == {"git.json", "git.bak"}
JsonPaths == {"git.json"}
Stems == [p \in AllPaths |-> "git"]
TwoVersions == {1, 2}

\* Either is observed while the other stands still: they share nothing.
Init == DaemonInit /\ IndexInit

Untouched == unvisited = Paths /\ changes = 0 /\ Range(directory) = {Absent}

Next ==
  \/ DaemonNext /\ Untouched /\ UNCHANGED indexVars
  \/ IndexNext /\ starts = 0 /\ UNCHANGED daemonVars

Spec == Init /\ [][Next]_<<daemonVars, indexVars>>
==============================================================================
