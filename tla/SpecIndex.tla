------------------------------ MODULE SpecIndex ------------------------------
(***************************************************************************)
(* The daemon's index of specs (spec/loader.rs) and its hot reload         *)
(* (daemon/mod.rs:85-122): the directory is read, some time later the      *)
(* watcher is started, and from then on each change of a file is applied   *)
(* by a task of its own, in any order.                                     *)
(*                                                                         *)
(* A spec is its version; the directory and its watcher are external.  A   *)
(* write, the removal and the two ends of a renaming are events of the     *)
(* kinds Create or Modify, Remove, and Modify.                             *)
(***************************************************************************)
EXTENDS Naturals, Sequences, FiniteSets, SequencesExt

CONSTANTS
  Paths,       \* files in the directory of specs
  Json,        \* those that end in .json
  Stem,        \* the name of each without its extension
  Versions,    \* contents that parse
  Broken,      \* a content that does not, such as a file half written
  Absent,
  MaxChanges   \* bound: changes of the directory

ASSUME SpecAssumption ==
  /\ Json \subseteq Paths
  /\ \A p, q \in Json : Stem[p] = Stem[q] => p = q
  /\ Broken \notin Versions /\ Absent \notin Versions /\ Absent # Broken
  /\ MaxChanges \in Nat

VARIABLES
  directory,   \* the content of each path
  phase,       \* of the daemon: loading, loaded, or watching
  unvisited,   \* the paths that reload_all has not come to
  index,       \* SpecIndex: the spec of each name
  tasks,       \* spawned and waiting for the index's lock, in any order
  changes,     \* how often the directory was changed
  unfollowed   \* history: names whose last change the watcher does not follow

indexVars == <<directory, phase, unvisited, index, tasks, changes, unfollowed>>

Names == {Stem[p] : p \in Paths}
Contents == Versions \cup {Broken, Absent}

IndexInit ==
  /\ directory \in [Paths -> Contents]
  /\ phase = "loading" /\ unvisited = Paths
  /\ index = [n \in Names |-> Absent]
  /\ tasks = <<>> /\ changes = 0 /\ unfollowed = {}

\* Mistaken form of Inserted: a spec that is there is kept.
InsertedOnce(specs, p) ==
  IF p \in Json /\ directory[p] \in Versions /\ specs[Stem[p]] = Absent
  THEN [specs EXCEPT ![Stem[p]] = directory[p]] ELSE specs

\* load_spec_file and the insertion: a file that cannot be read or parsed, and one
\* that is no .json, changes nothing.
Inserted(specs, p) ==
  IF p \in Json /\ directory[p] \in Versions
  THEN [specs EXCEPT ![Stem[p]] = directory[p]] ELSE specs

\* reload_all comes to one entry of the directory.
LoadEntry ==
  /\ phase = "loading"
  /\ \E p \in unvisited :
       /\ index' = Inserted(index, p)
       /\ unvisited' = unvisited \ {p}
  /\ UNCHANGED <<directory, phase, tasks, changes, unfollowed>>

LoadEnd ==
  /\ phase = "loading" /\ unvisited = {}
  /\ phase' = "loaded"
  /\ UNCHANGED <<directory, unvisited, index, tasks, changes, unfollowed>>

\* The socket was bound in between.
WatchStart ==
  /\ phase = "loaded"
  /\ phase' = "watching"
  /\ UNCHANGED <<directory, unvisited, index, tasks, changes, unfollowed>>

\* A task has the write lock: reload_file reads the file as it is by now;
\* remove_file removes the name of any file, .json or not.
RunTask ==
  /\ \E k \in 1 .. Len(tasks) :
       /\ index' = IF tasks[k].kind = "reload" THEN Inserted(index, tasks[k].path)
                   ELSE [index EXCEPT ![Stem[tasks[k].path]] = Absent]
       /\ tasks' = RemoveAt(tasks, k)
  /\ UNCHANGED <<directory, phase, unvisited, changes, unfollowed>>

\* The watcher's callback spawns a task for each path of an event.
Spawned(events) == tasks' = IF phase = "watching" THEN tasks \o events ELSE tasks
ToReload(p) == [kind |-> "reload", path |-> p]
ToRemove(p) == [kind |-> "remove", path |-> p]

\* A change of p is read by reload_all or comes to the watcher; and no removal of
\* its name is still waiting, which may be applied after it.
Followed(p) ==
  \/ phase = "loading" /\ p \in unvisited
  \/ phase = "watching" /\ \A k \in 1 .. Len(tasks) :
       tasks[k].kind = "remove" => Stem[tasks[k].path] # Stem[p]

\* Names with a change that is not followed; a followed one makes up for them.
After(names, p, followed) ==
  IF p \notin Json THEN names
  ELSE IF followed THEN names \ {Stem[p]} ELSE names \cup {Stem[p]}

Change == changes < MaxChanges /\ changes' = changes + 1

Write ==
  /\ Change
  /\ \E p \in Paths, content \in Versions \cup {Broken} :
       /\ directory' = [directory EXCEPT ![p] = content]
       /\ Spawned(<<ToReload(p)>>)
       /\ unfollowed' = After(unfollowed, p, Followed(p))
  /\ UNCHANGED <<phase, unvisited, index>>

\* A name whose .json is there is lost with a file of the same stem.
Delete ==
  /\ Change
  /\ \E p \in Paths :
       /\ directory[p] # Absent
       /\ directory' = [directory EXCEPT ![p] = Absent]
       /\ Spawned(<<ToRemove(p)>>)
       /\ unfollowed' =
            IF p \in Json
            THEN After(unfollowed, p, phase = "watching" \/ Followed(p))
            ELSE unfollowed \cup
                   (IF phase = "watching"
                    THEN {Stem[q] : q \in {r \in Json : directory[r] # Absent}} \cap {Stem[p]}
                    ELSE {})
  /\ UNCHANGED <<phase, unvisited, index>>

\* The name a file is moved away from is reloaded, which changes nothing.
Rename ==
  /\ Change
  /\ \E p, q \in Paths :
       /\ p # q /\ directory[p] # Absent
       /\ directory' = [directory EXCEPT ![p] = Absent, ![q] = directory[p]]
       /\ Spawned(<<ToReload(p), ToReload(q)>>)
       /\ unfollowed' = After(After(unfollowed, p, phase = "loading" /\ Followed(p)),
                              q, Followed(q))
  /\ UNCHANGED <<phase, unvisited, index>>

IndexNext ==
  \/ LoadEntry \/ LoadEnd \/ WatchStart \/ RunTask
  \/ Write \/ Delete \/ Rename

IndexSpec == IndexInit /\ [][IndexNext]_indexVars

-----------------------------------------------------------------------------
\* Once the tasks have run, in whatever order, the index is the directory: a name
\* whose last change was followed has the version its file has, or none if the
\* file is gone.  A file that does not parse says nothing.
IndexFollowsDirectory ==
  phase = "watching" /\ tasks = <<>> =>
    \A p \in Json :
      Stem[p] \notin unfollowed /\ directory[p] # Broken => index[Stem[p]] = directory[p]
==============================================================================
