---------------------------- MODULE DaemonProofs -----------------------------
(***************************************************************************)
(* While no two daemons start or end at the same time, the one that        *)
(* listens is alone and can be reached, and no start is refused but for    *)
(* it: for any number of daemons, of starts and of crashes.                *)
(***************************************************************************)
EXTENDS Daemon, SpecIndex, TLAPS

\* The daemons whose socket the path must name.
Owns(d) == at[d] \in {"listen", "permissions", "pid", "serving", "stopping"}

\* Those that act on the path because they know of nobody who listens.
KnowsNobody(d) == at[d] \in {"remove", "rebind", "removeSocket", "removePid"}

DaemonInv ==
  /\ DaemonTypeOK
  /\ ~overlapped =>
       /\ \A d, e \in Daemons : Changing(d) /\ Changing(e) => d = e
       /\ \A d \in Daemons : Owns(d) => socket = d
       /\ \A d \in Daemons : KnowsNobody(d) => listening = {}
       /\ \A d \in Daemons : at[d] = "rebind" => socket = NoDaemon
       /\ \A d \in Daemons : at[d] \in {"serving", "stopping"} => pidFile = d

\* What one daemon's step says: its own place changes, and the history follows.
DaemonStep(d) ==
  \/ StartStep(d) /\ ended' = ended
  \/ EndStep(d) /\ ended' = TRUE

Overlaps ==
  overlapped' = (overlapped \/ \E d, e \in Daemons : d # e /\ Changing(d)' /\ Changing(e)')

\* Nobody is anywhere at first.
LEMMA DaemonInitInv ==
  DaemonInit => DaemonInv
<1> SUFFICES ASSUME DaemonInit
             PROVE  DaemonInv
  OBVIOUS
<1>1. \A d \in Daemons : at[d] = "off"
  BY DEF DaemonInit
<1>2. /\ at \in [Daemons -> Places] /\ starts \in Nat
      /\ socket \in Daemons \cup {NoDaemon} /\ pidFile \in Daemons \cup {NoDaemon}
  BY DEF DaemonInit, Places
<1>3. overlapped \in BOOLEAN /\ ended \in BOOLEAN
  <2>1. overlapped \in BOOLEAN
    BY DEF DaemonInit
  <2>2. ended \in BOOLEAN
    BY DEF DaemonInit
  <2> QED
    BY <2>1, <2>2
<1>4. listening = {d \in Daemons : at[d] \in {"permissions", "pid", "serving", "stopping"}}
  BY <1>1 DEF DaemonInit
<1> QED
  BY <1>1, <1>2, <1>3, <1>4 DEF DaemonInv, DaemonTypeOK, Changing, Owns, KnowsNobody

\* Every step keeps the types, and the listeners those that are at a place to listen.
LEMMA DaemonTypes ==
  ASSUME DaemonTypeOK, NEW d \in Daemons, DaemonStep(d), Overlaps
  PROVE  DaemonTypeOK'
<1>1. /\ at' \in [Daemons -> Places]
      /\ socket' \in Daemons \cup {NoDaemon}
      /\ pidFile' \in Daemons \cup {NoDaemon}
      /\ starts' \in Nat
  BY DEF DaemonTypeOK, DaemonStep, StartStep, EndStep, Places, Goes, Ends, GivesUp, Start, Bind, Listen, Connect,
         RemoveStale, Rebind, SetPermissions, WritePid, StopRequest, Interrupt,
         ServerEnds, RemoveSocket, RemovePid, Crash
<1>2. overlapped' \in BOOLEAN /\ ended' \in BOOLEAN
  <2>1. overlapped' \in BOOLEAN
    BY DEF DaemonTypeOK, Overlaps
  <2>2. ended' \in BOOLEAN
    BY DEF DaemonTypeOK, DaemonStep
  <2> QED
    BY <2>1, <2>2
<1>3. listening' = {e \in Daemons : at'[e] \in {"permissions", "pid", "serving", "stopping"}}
  BY DEF DaemonTypeOK, DaemonStep, StartStep, EndStep, Places, Goes, Ends, GivesUp, Start, Bind, Listen, Connect,
         RemoveStale, Rebind, SetPermissions, WritePid, StopRequest, Interrupt,
         ServerEnds, RemoveSocket, RemovePid, Crash
<1> QED
  BY <1>1, <1>2, <1>3 DEF DaemonTypeOK

\* Every step keeps the rest.
LEMMA DaemonStepInv ==
  ASSUME DaemonInv, NEW d \in Daemons, DaemonStep(d), Overlaps
  PROVE  DaemonInv'
<1> SUFFICES ASSUME ~overlapped'
             PROVE  /\ \A e, f \in Daemons : Changing(e)' /\ Changing(f)' => e = f
                    /\ \A e \in Daemons : Owns(e)' => socket' = e
                    /\ \A e \in Daemons : KnowsNobody(e)' => listening' = {}
                    /\ \A e \in Daemons : at'[e] = "rebind" => socket' = NoDaemon
                    /\ \A e \in Daemons : at'[e] \in {"serving", "stopping"} => pidFile' = e
  BY DaemonTypes DEF DaemonInv
<1>1. ~overlapped /\ \A e, f \in Daemons : Changing(e)' /\ Changing(f)' => e = f
  BY DEF Overlaps, DaemonInv, DaemonTypeOK
<1>2. /\ \A e, f \in Daemons : Changing(e) /\ Changing(f) => e = f
      /\ \A e \in Daemons : Owns(e) => socket = e
      /\ \A e \in Daemons : KnowsNobody(e) => listening = {}
      /\ \A e \in Daemons : at[e] = "rebind" => socket = NoDaemon
      /\ \A e \in Daemons : at[e] \in {"serving", "stopping"} => pidFile = e
  BY <1>1 DEF DaemonInv
<1>3. /\ DaemonTypeOK /\ DaemonTypeOK' /\ NoDaemon \notin Daemons
  BY DaemonTypes, DaemonAssumption DEF DaemonInv
<1>4. CASE Start(d)
  BY <1>1, <1>2, <1>3, <1>4 DEF Start, Goes, DaemonTypeOK, Changing, Owns, KnowsNobody
<1>5. CASE Bind(d)
  BY <1>1, <1>2, <1>3, <1>5 DEF Bind, Goes, DaemonTypeOK, Changing, Owns, KnowsNobody
<1>6. CASE Listen(d)
  BY <1>1, <1>2, <1>3, <1>6 DEF Listen, Goes, DaemonTypeOK, Changing, Owns, KnowsNobody
<1>7. CASE Connect(d)
  BY <1>1, <1>2, <1>3, <1>7
     DEF Connect, IsLive, Goes, Ends, GivesUp, DaemonTypeOK, Changing, Owns, KnowsNobody
<1>8. CASE RemoveStale(d)
  BY <1>1, <1>2, <1>3, <1>8 DEF RemoveStale, Goes, DaemonTypeOK, Changing, Owns, KnowsNobody
<1>9. CASE Rebind(d)
  BY <1>1, <1>2, <1>3, <1>9
     DEF Rebind, Goes, Ends, GivesUp, DaemonTypeOK, Changing, Owns, KnowsNobody
<1>10. CASE SetPermissions(d)
  BY <1>1, <1>2, <1>3, <1>10
     DEF SetPermissions, Goes, Ends, GivesUp, DaemonTypeOK, Changing, Owns, KnowsNobody
<1>11. CASE WritePid(d)
  BY <1>1, <1>2, <1>3, <1>11 DEF WritePid, Goes, DaemonTypeOK, Changing, Owns, KnowsNobody
<1>12. CASE StopRequest(d)
  BY <1>1, <1>2, <1>3, <1>12 DEF StopRequest, Goes, DaemonTypeOK, Changing, Owns, KnowsNobody
<1>13. CASE Interrupt(d)
  BY <1>1, <1>2, <1>3, <1>13 DEF Interrupt, Goes, DaemonTypeOK, Changing, Owns, KnowsNobody
<1>14. CASE ServerEnds(d)
  BY <1>1, <1>2, <1>3, <1>14 DEF ServerEnds, Goes, DaemonTypeOK, Changing, Owns, KnowsNobody
<1>15. CASE RemoveSocket(d)
  BY <1>1, <1>2, <1>3, <1>15 DEF RemoveSocket, Goes, DaemonTypeOK, Changing, Owns, KnowsNobody
<1>16. CASE RemovePid(d)
  BY <1>1, <1>2, <1>3, <1>16
     DEF RemovePid, Goes, Ends, DaemonTypeOK, Changing, Owns, KnowsNobody
<1>17. CASE Crash(d)
  BY <1>1, <1>2, <1>3, <1>17 DEF Crash, Goes, Ends, DaemonTypeOK, Changing, Owns, KnowsNobody
<1> QED
  BY <1>4, <1>5, <1>6, <1>7, <1>8, <1>9, <1>10, <1>11, <1>12, <1>13, <1>14, <1>15, <1>16, <1>17
     DEF DaemonStep, StartStep, EndStep

\* The invariant is kept by every step and by none.
LEMMA DaemonNextInv ==
  DaemonInv /\ [DaemonNext]_daemonVars => DaemonInv'
<1>1. ASSUME DaemonInv, DaemonNext
      PROVE  DaemonInv'
  <2>1. PICK d \in Daemons : DaemonStep(d)
    BY <1>1 DEF DaemonNext, DaemonStep
  <2>2. Overlaps
    BY <1>1 DEF DaemonNext, Overlaps
  <2> QED
    BY <1>1, <2>1, <2>2, DaemonStepInv
<1>2. ASSUME DaemonInv, UNCHANGED daemonVars
      PROVE  DaemonInv'
  BY <1>2 DEF daemonVars, DaemonInv, DaemonTypeOK, Changing, Owns, KnowsNobody
<1> QED
  BY <1>1, <1>2

\* At most one daemon listens and the path leads to it, while no two of them start
\* or end at the same time: whatever crashed before, and wherever it did.
THEOREM OneDaemonServes ==
  DaemonSpec => []OneServes
<1>1. DaemonInv => OneServes
  BY DEF DaemonInv, DaemonTypeOK, OneServes, Owns
<1> QED
  BY <1>1, DaemonInitInv, DaemonNextInv, PTL DEF DaemonSpec

\* A start is refused only where another daemon listens, under the same condition:
\* a socket left behind by a crash never is in the way.
THEOREM StaleSocketIsTakenOver ==
  DaemonSpec => StartsUnlessServed
<1> DEFINE OK == \A d \in Daemons :
             ~overlapped' /\ at'[d] = "refused" /\ at[d] # "refused" => socket \in listening
<1>1. ASSUME DaemonInv, DaemonNext
      PROVE  OK
  <2> SUFFICES ASSUME NEW d \in Daemons, ~overlapped', at'[d] = "refused", at[d] # "refused"
               PROVE  socket \in listening
    OBVIOUS
  <2>1. PICK e \in Daemons : DaemonStep(e)
    BY <1>1 DEF DaemonNext, DaemonStep
  <2>2. ~overlapped
    BY <1>1 DEF DaemonNext, DaemonInv, DaemonTypeOK
  <2>3. /\ \A f \in Daemons : Owns(f) => socket = f
        /\ \A f \in Daemons : at[f] = "rebind" => socket = NoDaemon
        /\ at \in [Daemons -> Places] /\ NoDaemon \notin Daemons
    BY <1>1, <2>2, DaemonAssumption DEF DaemonInv, DaemonTypeOK
  <2> QED
    BY <2>1, <2>3 DEF DaemonStep, StartStep, EndStep, Places, Owns, IsLive, Goes, Ends, GivesUp, Start, Bind, Listen,
       Connect, RemoveStale, Rebind, SetPermissions, WritePid, StopRequest, Interrupt,
         ServerEnds, RemoveSocket, RemovePid, Crash
<1>2. ASSUME UNCHANGED daemonVars
      PROVE  OK
  BY <1>2 DEF daemonVars
<1>3. DaemonInv /\ [DaemonNext]_daemonVars => [OK]_daemonVars
  BY <1>1, <1>2
<1> QED
  BY <1>3, DaemonInitInv, DaemonNextInv, PTL DEF DaemonSpec, StartsUnlessServed

-----------------------------------------------------------------------------
\* While none has ended, the path leads to one that is on its way to serve, or
\* nobody has it and somebody is about to bind.
Settling ==
  ~ended =>
    /\ \A d \in Daemons : at[d] \notin {"stopping", "removeSocket", "removePid"}
    /\ socket # NoDaemon => at[socket] \in {"listen", "permissions", "pid", "serving"}
    /\ socket = NoDaemon /\ starts > 0 => \E d \in Daemons : at[d] \in {"bind", "rebind"}

StartInv == DaemonTypeOK /\ Settling

\* Every step of a start keeps it.
LEMMA StartStepSettles ==
  ASSUME StartInv, NEW d \in Daemons, StartStep(d), ~ended
  PROVE  Settling'
<1>1. /\ DaemonTypeOK /\ NoDaemon \notin Daemons
      /\ \A e \in Daemons : at[e] \notin {"stopping", "removeSocket", "removePid"}
      /\ socket # NoDaemon => at[socket] \in {"listen", "permissions", "pid", "serving"}
      /\ socket = NoDaemon /\ starts > 0 => \E e \in Daemons : at[e] \in {"bind", "rebind"}
  BY DaemonAssumption DEF StartInv, Settling
<1>2. CASE Start(d)
  BY <1>1, <1>2 DEF Start, Goes, DaemonTypeOK, Settling
<1>3. CASE Bind(d)
  BY <1>1, <1>3 DEF Bind, Goes, DaemonTypeOK, Settling
<1>4. CASE Listen(d)
  BY <1>1, <1>4 DEF Listen, Goes, DaemonTypeOK, Settling
<1>5. CASE Connect(d)
  BY <1>1, <1>5 DEF Connect, IsLive, GivesUp, Ends, Goes, DaemonTypeOK, Settling
<1>6. CASE RemoveStale(d)
  BY <1>1, <1>6 DEF RemoveStale, Goes, DaemonTypeOK, Settling
<1>7. CASE Rebind(d)
  BY <1>1, <1>7 DEF Rebind, GivesUp, Ends, Goes, DaemonTypeOK, Settling
<1>8. CASE SetPermissions(d)
  BY <1>1, <1>8 DEF SetPermissions, GivesUp, Ends, Goes, DaemonTypeOK, Settling
<1>9. CASE WritePid(d)
  BY <1>1, <1>9 DEF WritePid, Goes, DaemonTypeOK, Settling
<1> QED
  BY <1>2, <1>3, <1>4, <1>5, <1>6, <1>7, <1>8, <1>9 DEF StartStep

LEMMA StartNextInv ==
  StartInv /\ [DaemonNext]_daemonVars => StartInv'
<1>1. ASSUME StartInv, DaemonNext
      PROVE  StartInv'
  <2>1. PICK d \in Daemons : DaemonStep(d)
    BY <1>1 DEF DaemonNext, DaemonStep
  <2>2. DaemonTypeOK'
    BY <1>1, <2>1, DaemonTypes DEF DaemonNext, Overlaps, StartInv
  <2>3. Settling'
    <3>1. CASE ended'
      BY <3>1 DEF Settling
    <3>2. CASE ~ended'
      BY <1>1, <2>1, <3>2, StartStepSettles DEF DaemonStep
    <3> QED
      BY <3>1, <3>2
  <2> QED
    BY <2>2, <2>3 DEF StartInv
<1>2. ASSUME StartInv, UNCHANGED daemonVars
      PROVE  StartInv'
  BY <1>2 DEF daemonVars, StartInv, Settling, DaemonTypeOK
<1> QED
  BY <1>1, <1>2

\* Daemons that start together come to one that serves and is reached, however
\* their steps interleave and however many they are.
THEOREM StartsSettle ==
  DaemonSpec => []StartsReachService
<1>1. DaemonInit => StartInv
  BY DaemonInitInv DEF DaemonInit, DaemonInv, StartInv, Settling
<1>2. StartInv => StartsReachService
  BY DEF StartInv, Settling, StartsReachService, Changing, DaemonTypeOK
<1> QED
  BY <1>1, <1>2, StartNextInv, PTL DEF DaemonSpec

-----------------------------------------------------------------------------
(***************************************************************************)
(* The index follows the directory, for any files, versions, changes and   *)
(* any order of the tasks.                                                 *)
(*                                                                         *)
(* What is invariant of a file before the tasks have run: its name holds   *)
(* its version, or a task that reloads it waits and none that removes its  *)
(* name; and when it is gone, its name is empty or such a removal waits.   *)
(***************************************************************************)

Task == [kind : {"reload", "remove"}, path : Paths]

TasksOf(queue) == {queue[k] : k \in 1 .. Len(queue)}

IndexTypes ==
  /\ directory \in [Paths -> Contents]
  /\ unvisited \subseteq Paths
  /\ index \in [Names -> Versions \cup {Absent}]
  /\ tasks \in Seq(Task)

\* Nothing is visited after the load, and no task is spawned before the watch.
InPhase ==
  /\ phase \in {"loading", "loaded", "watching"}
  /\ phase # "loading" => unvisited = {}
  /\ phase # "watching" => tasks = <<>>

Waiting(kind) == {t.path : t \in {u \in TasksOf(tasks) : u.kind = kind}}
RemovalWaits(p) == \E q \in Waiting("remove") : Stem[q] = Stem[p]

FileInv(p) ==
  /\ p \in unvisited => index[Stem[p]] = Absent
  /\ p \notin unvisited /\ Stem[p] \notin unfollowed /\ directory[p] # Broken =>
       IF directory[p] = Absent
       THEN index[Stem[p]] = Absent \/ RemovalWaits(p)
       ELSE /\ ~RemovalWaits(p)
            /\ index[Stem[p]] = directory[p] \/ p \in Waiting("reload")

SpecInv ==
  /\ IndexTypes
  /\ InPhase
  /\ \A p \in Json : FileInv(p)

USE SpecAssumption

-----------------------------------------------------------------------------
\* Queues of tasks as sets.
LEMMA TasksAppended ==
  ASSUME NEW T, NEW s \in Seq(T), NEW t \in Seq(T)
  PROVE  TasksOf(s \o t) = TasksOf(s) \cup TasksOf(t)
<1>1. ASSUME NEW k \in 1 .. Len(s \o t)
      PROVE  (s \o t)[k] \in TasksOf(s) \cup TasksOf(t)
  <2>1. CASE k <= Len(s)
    BY <2>1 DEF TasksOf
  <2>2. CASE k > Len(s)
    <3>1. (s \o t)[k] = t[k - Len(s)] /\ k - Len(s) \in 1 .. Len(t)
      BY <2>2
    <3>2. QED
      BY <3>1 DEF TasksOf
  <2>3. QED
    BY <2>1, <2>2
<1>2. ASSUME NEW k \in 1 .. Len(s) PROVE s[k] \in TasksOf(s \o t)
  <2>1. (s \o t)[k] = s[k] /\ k \in 1 .. Len(s \o t)
    OBVIOUS
  <2>2. QED
    BY <2>1 DEF TasksOf
<1>3. ASSUME NEW k \in 1 .. Len(t) PROVE t[k] \in TasksOf(s \o t)
  <2>1. (s \o t)[k + Len(s)] = t[k] /\ k + Len(s) \in 1 .. Len(s \o t)
    OBVIOUS
  <2>2. QED
    BY <2>1 DEF TasksOf
<1>4. QED
  BY <1>1, <1>2, <1>3 DEF TasksOf

LEMMA TaskRemoved ==
  ASSUME NEW T, NEW s \in Seq(T), NEW k \in 1 .. Len(s)
  PROVE  /\ RemoveAt(s, k) \in Seq(T)
         /\ TasksOf(RemoveAt(s, k)) \subseteq TasksOf(s)
         /\ TasksOf(s) \subseteq TasksOf(RemoveAt(s, k)) \cup {s[k]}
<1> DEFINE before == SubSeq(s, 1, k - 1)
           after == SubSeq(s, k + 1, Len(s))
<1>1. /\ before \in Seq(T) /\ Len(before) = k - 1
      /\ \A j \in 1 .. k - 1 : before[j] = s[j]
  OBVIOUS
<1>2. /\ after \in Seq(T) /\ Len(after) = Len(s) - k
      /\ \A j \in 1 .. Len(s) - k : after[j] = s[j + k]
  OBVIOUS
<1>3. RemoveAt(s, k) = before \o after
  BY DEF RemoveAt
<1> HIDE DEF before, after
<1>4. TasksOf(RemoveAt(s, k)) = TasksOf(before) \cup TasksOf(after)
  BY <1>1, <1>2, <1>3, TasksAppended
<1>5. TasksOf(before) \subseteq TasksOf(s) /\ TasksOf(after) \subseteq TasksOf(s)
  BY <1>1, <1>2 DEF TasksOf
<1>6. ASSUME NEW j \in 1 .. Len(s), j # k PROVE s[j] \in TasksOf(before) \cup TasksOf(after)
  <2>1. CASE j < k
    BY <1>1, <2>1 DEF TasksOf
  <2>2. CASE j > k
    <3>1. after[j - k] = s[j] /\ j - k \in 1 .. Len(after)
      BY <1>2, <2>2
    <3>2. QED
      BY <3>1 DEF TasksOf
  <2>3. QED
    BY <1>6, <2>1, <2>2
<1>7. RemoveAt(s, k) \in Seq(T)
  BY <1>1, <1>2, <1>3
<1>8. TasksOf(s) \subseteq TasksOf(RemoveAt(s, k)) \cup {s[k]}
  BY <1>4, <1>6 DEF TasksOf
<1>9. QED
  BY <1>4, <1>5, <1>7, <1>8

LEMMA OneTask == ASSUME NEW t PROVE TasksOf(<<t>>) = {t}
BY DEF TasksOf

LEMMA TwoTasks == ASSUME NEW t, NEW u PROVE TasksOf(<<t, u>>) = {t, u}
BY DEF TasksOf

-----------------------------------------------------------------------------
\* An insertion touches the name of the file that is read and no other; a file
\* that is gone or broken changes nothing.
LEMMA InsertedKeeps ==
  ASSUME IndexTypes, NEW q \in Paths
  PROVE  /\ Inserted(index, q) \in [Names -> Versions \cup {Absent}]
         /\ \A p \in Json : p # q => Inserted(index, q)[Stem[p]] = index[Stem[p]]
         /\ q \in Json /\ directory[q] \in Versions => Inserted(index, q)[Stem[q]] = directory[q]
         /\ directory[q] \in {Broken, Absent} => Inserted(index, q) = index
<1>1. \A p \in Paths : Stem[p] \in Names
  BY DEF Names
<1>2. index \in [Names -> Versions \cup {Absent}]
  BY DEF IndexTypes
<1>3. CASE q \in Json /\ directory[q] \in Versions
  <2>1. Inserted(index, q) = [index EXCEPT ![Stem[q]] = directory[q]]
    BY <1>3 DEF Inserted
  <2>2. \A p \in Json : p # q => Stem[p] # Stem[q]
    BY <1>3
  <2>3. QED
    BY <1>1, <1>2, <1>3, <2>1, <2>2
<1>4. CASE ~(q \in Json /\ directory[q] \in Versions)
  BY <1>2, <1>4 DEF Inserted
<1>5. QED
  BY <1>3, <1>4

LEMMA ContentCases ==
  ASSUME IndexTypes, NEW p \in Paths, directory[p] # Broken, directory[p] # Absent
  PROVE  directory[p] \in Versions
BY DEF IndexTypes, Contents

\* While the daemon does not watch, no task waits.
LEMMA NoneWaits ==
  ASSUME tasks = <<>>, NEW kind
  PROVE  Waiting(kind) = {}
BY DEF Waiting, TasksOf

LEMMA LoadEntryKeeps ==
  ASSUME SpecInv, LoadEntry
  PROVE  SpecInv'
<1>1. PICK q \in unvisited : index' = Inserted(index, q) /\ unvisited' = unvisited \ {q}
  BY DEF LoadEntry
<1>2. q \in Paths
  BY DEF SpecInv, IndexTypes
<1>3. IndexTypes'
  BY <1>1, <1>2, InsertedKeeps DEF SpecInv, IndexTypes, LoadEntry
<1>4. InPhase'
  BY <1>1 DEF SpecInv, InPhase, LoadEntry
<1>5. tasks = <<>>
  BY DEF SpecInv, InPhase, LoadEntry
<1>6. ASSUME NEW p \in Json PROVE FileInv(p)'
  <2>1. FileInv(p) /\ p \in Paths
    BY DEF SpecInv
  <2>2. ~RemovalWaits(p)
    BY <1>5, NoneWaits DEF RemovalWaits
  <2>3. Waiting("reload")' = Waiting("reload") /\ Waiting("remove")' = Waiting("remove")
    BY DEF LoadEntry, Waiting
  <2>4. UNCHANGED <<directory, unfollowed>>
    BY DEF LoadEntry
  <2>5. CASE p # q
    <3>1. index'[Stem[p]] = index[Stem[p]] /\ (p \in unvisited' <=> p \in unvisited)
      BY <1>1, <1>2, <2>5, InsertedKeeps DEF SpecInv
    <3>2. QED
      BY <2>1, <2>3, <2>4, <3>1 DEF FileInv, RemovalWaits
  <2>6. CASE p = q
    <3>1. index[Stem[p]] = Absent
      BY <1>1, <2>1, <2>6 DEF FileInv
    <3>2. p \notin unvisited'
      BY <1>1, <2>6
    <3>3. directory[p] = Absent => index'[Stem[p]] = Absent
      BY <1>1, <1>2, <2>6, <3>1, InsertedKeeps DEF SpecInv
    <3>4. directory[p] \notin {Broken, Absent} => index'[Stem[p]] = directory[p]
      BY <1>1, <1>2, <2>1, <2>6, InsertedKeeps, ContentCases DEF SpecInv
    <3>5. QED
      BY <2>2, <2>3, <2>4, <3>2, <3>3, <3>4 DEF FileInv, RemovalWaits
  <2>7. QED
    BY <2>5, <2>6
<1>7. QED
  BY <1>3, <1>4, <1>6 DEF SpecInv

LEMMA PhaseKeeps ==
  ASSUME SpecInv, LoadEnd \/ WatchStart
  PROVE  SpecInv'
<1>1. UNCHANGED <<directory, unvisited, index, tasks, unfollowed>>
  BY DEF LoadEnd, WatchStart
<1>2. IndexTypes'
  BY <1>1 DEF SpecInv, IndexTypes
<1>3. InPhase'
  BY <1>1 DEF SpecInv, InPhase, LoadEnd, WatchStart
<1>4. ASSUME NEW p \in Json PROVE FileInv(p)'
  BY <1>1 DEF SpecInv, FileInv, RemovalWaits, Waiting
<1>5. QED
  BY <1>2, <1>3, <1>4 DEF SpecInv

-----------------------------------------------------------------------------
\* A task has run: of what waited only it may be missing.
LEMMA WaitingRemoved ==
  ASSUME IndexTypes, NEW k \in 1 .. Len(tasks), tasks' = RemoveAt(tasks, k), NEW kind
  PROVE  /\ Waiting(kind)' \subseteq Waiting(kind)
         /\ \A q \in Waiting(kind) :
              q \in Waiting(kind)' \/ (tasks[k].kind = kind /\ tasks[k].path = q)
<1>1. /\ TasksOf(tasks)' \subseteq TasksOf(tasks)
      /\ TasksOf(tasks) \subseteq TasksOf(tasks)' \cup {tasks[k]}
  BY TaskRemoved DEF IndexTypes
<1>2. ASSUME NEW q \in Waiting(kind)'
      PROVE  q \in Waiting(kind)
  <2>1. PICK t \in TasksOf(tasks)' : t.kind = kind /\ t.path = q
    BY <1>2 DEF Waiting
  <2>2. QED
    BY <1>1, <2>1 DEF Waiting
<1>3. ASSUME NEW q \in Waiting(kind)
      PROVE  q \in Waiting(kind)' \/ (tasks[k].kind = kind /\ tasks[k].path = q)
  <2>1. PICK t \in TasksOf(tasks) : t.kind = kind /\ t.path = q
    BY <1>3 DEF Waiting
  <2>2. CASE t \in TasksOf(tasks)'
    <3>1. q \in Waiting(kind)'
      BY <2>1, <2>2 DEF Waiting
    <3>2. QED
      BY <3>1
  <2>3. CASE t = tasks[k]
    BY <2>1, <2>3
  <2>4. QED
    BY <1>1, <2>2, <2>3
<1>4. QED
  BY <1>2, <1>3

LEMMA RunTaskKeeps ==
  ASSUME SpecInv, RunTask
  PROVE  SpecInv'
<1>1. PICK k \in 1 .. Len(tasks) :
        /\ index' = IF tasks[k].kind = "reload" THEN Inserted(index, tasks[k].path)
                    ELSE [index EXCEPT ![Stem[tasks[k].path]] = Absent]
        /\ tasks' = RemoveAt(tasks, k)
  BY DEF RunTask
<1> DEFINE q == tasks[k].path
<1>2. tasks[k] \in Task
  BY DEF SpecInv, IndexTypes
<1>3. q \in Paths /\ (tasks[k].kind = "reload" \/ tasks[k].kind = "remove")
  BY <1>2 DEF Task
<1>4. UNCHANGED <<directory, phase, unvisited, unfollowed>>
  BY DEF RunTask
<1>5. tasks # <<>>
  BY <1>1
<1>6. phase = "watching" /\ unvisited = {}
  BY <1>5 DEF SpecInv, InPhase
<1>7. index' \in [Names -> Versions \cup {Absent}]
  BY <1>1, <1>3, InsertedKeeps DEF SpecInv, IndexTypes
<1>8. tasks' \in Seq(Task)
  BY <1>1, TaskRemoved DEF SpecInv, IndexTypes
<1>9. IndexTypes' /\ InPhase'
  BY <1>4, <1>6, <1>7, <1>8 DEF SpecInv, IndexTypes, InPhase
<1>10. ASSUME NEW p \in Json PROVE FileInv(p)'
  <2>1. FileInv(p) /\ p \in Paths /\ IndexTypes
    BY DEF SpecInv
  <2>2. RemovalWaits(p)' => RemovalWaits(p)
    BY <1>1, <2>1, WaitingRemoved DEF RemovalWaits
  <2>3. CASE tasks[k].kind = "reload"
    <3>1. Waiting("remove") \subseteq Waiting("remove")'
      BY <1>1, <2>1, <2>3, WaitingRemoved
    <3>2. RemovalWaits(p) => RemovalWaits(p)'
      BY <3>1 DEF RemovalWaits
    <3>3. index' = Inserted(index, q)
      BY <1>1, <2>3
    <3>4. CASE p # q
      <4>1. p \in Waiting("reload") => p \in Waiting("reload")'
        BY <1>1, <2>1, <3>4, WaitingRemoved
      <4>2. index'[Stem[p]] = index[Stem[p]]
        BY <1>3, <2>1, <3>3, <3>4, InsertedKeeps
      <4>3. QED
        BY <1>4, <2>1, <2>2, <3>2, <4>1, <4>2 DEF FileInv
    <3>5. CASE p = q
      <4>1. directory[p] = Absent => index' = index
        BY <1>3, <2>1, <3>3, <3>5, InsertedKeeps
      <4>2. directory[p] \notin {Broken, Absent} => index'[Stem[p]] = directory[p]
        BY <1>3, <2>1, <3>3, <3>5, InsertedKeeps, ContentCases
      <4>3. QED
        BY <1>4, <1>6, <2>1, <2>2, <3>2, <4>1, <4>2 DEF FileInv
    <3>6. QED
      BY <3>4, <3>5
  <2>4. CASE tasks[k].kind = "remove"
    <3>1. index' = [index EXCEPT ![Stem[q]] = Absent]
      BY <1>1, <2>4
    <3>2. Stem[p] \in Names
      BY <2>1 DEF Names
    <3>3. CASE Stem[q] = Stem[p]
      <4>1. index'[Stem[p]] = Absent
        BY <2>1, <3>1, <3>2, <3>3 DEF IndexTypes
      <4>2. tasks[k] \in TasksOf(tasks)
        BY DEF TasksOf
      <4>3. q \in Waiting("remove")
        BY <2>4, <4>2 DEF Waiting
      <4>4. RemovalWaits(p)
        BY <3>3, <4>3 DEF RemovalWaits
      <4>5. QED
        BY <1>4, <2>1, <4>1, <4>4 DEF FileInv
    <3>4. CASE Stem[q] # Stem[p]
      <4>1. index'[Stem[p]] = index[Stem[p]]
        BY <2>1, <3>1, <3>2, <3>4 DEF IndexTypes
      <4>2. Waiting("reload") \subseteq Waiting("reload")'
        BY <1>1, <2>1, <2>4, WaitingRemoved
      <4>3. RemovalWaits(p) => RemovalWaits(p)'
        BY <1>1, <2>1, <3>4, WaitingRemoved DEF RemovalWaits
      <4>4. QED
        BY <1>4, <2>1, <2>2, <4>1, <4>2, <4>3 DEF FileInv
    <3>5. QED
      BY <3>3, <3>4
  <2>5. QED
    BY <1>3, <2>3, <2>4
<1>11. QED
  BY <1>9, <1>10 DEF SpecInv

-----------------------------------------------------------------------------
\* What an event adds to the tasks that wait.
LEMMA SpawnedWaits ==
  ASSUME IndexTypes, InPhase, NEW events \in Seq(Task), Spawned(events)
  PROVE  /\ tasks' \in Seq(Task)
         /\ phase # "watching" => tasks' = tasks /\ tasks = <<>>
         /\ phase = "watching" => TasksOf(tasks)' = TasksOf(tasks) \cup TasksOf(events)
<1>1. CASE phase = "watching"
  <2>1. tasks' = tasks \o events
    BY <1>1 DEF Spawned
  <2>2. QED
    BY <1>1, <2>1, TasksAppended DEF IndexTypes
<1>2. CASE phase # "watching"
  BY <1>2 DEF Spawned, IndexTypes, InPhase
<1>3. QED
  BY <1>1, <1>2

\* A change of another file: its tasks reload others, and remove no name of this.
LEMMA OtherFileKeeps ==
  ASSUME SpecInv, InPhase, NEW events \in Seq(Task), Spawned(events),
         UNCHANGED <<phase, unvisited, index>>, NEW p \in Json,
         directory'[p] = directory[p], Stem[p] \in unfollowed => Stem[p] \in unfollowed',
         \A t \in TasksOf(events) : t.kind = "remove" => Stem[t.path] # Stem[p]
  PROVE  FileInv(p)'
<1>1. FileInv(p) /\ IndexTypes
  BY DEF SpecInv
<1>2. CASE phase # "watching"
  <2>1. tasks' = tasks
    BY <1>1, <1>2, SpawnedWaits
  <2>2. QED
    BY <1>1, <2>1 DEF FileInv, RemovalWaits, Waiting
<1>3. CASE phase = "watching"
  <2>1. TasksOf(tasks)' = TasksOf(tasks) \cup TasksOf(events)
    BY <1>1, <1>3, SpawnedWaits
  <2>2. p \in Waiting("reload") => p \in Waiting("reload")'
    BY <2>1 DEF Waiting
  <2>3. RemovalWaits(p) => RemovalWaits(p)'
    BY <2>1 DEF Waiting, RemovalWaits
  <2>4. RemovalWaits(p)' => RemovalWaits(p)
    <3>1. SUFFICES ASSUME NEW t \in TasksOf(tasks)', t.kind = "remove", Stem[t.path] = Stem[p]
                   PROVE  RemovalWaits(p)
      BY DEF Waiting, RemovalWaits
    <3>2. t \in TasksOf(tasks)
      BY <2>1, <3>1
    <3>3. QED
      BY <3>1, <3>2 DEF Waiting, RemovalWaits
  <2>5. QED
    BY <1>1, <2>2, <2>3, <2>4 DEF FileInv
<1>4. QED
  BY <1>2, <1>3

\* A followed change that leaves a version: no removal waits, and a reload does.
LEMMA FollowedReload ==
  ASSUME SpecInv, NEW events \in Seq(Task), Spawned(events),
         UNCHANGED <<phase, unvisited, index>>, NEW p \in Json,
         Followed(p), directory'[p] # Absent,
         ToReload(p) \in TasksOf(events), \A t \in TasksOf(events) : t.kind = "reload"
  PROVE  FileInv(p)'
<1>1. FileInv(p) /\ IndexTypes /\ InPhase
  BY DEF SpecInv
<1>2. CASE phase = "loading" /\ p \in unvisited
  BY <1>1, <1>2 DEF FileInv
<1>3. CASE phase = "watching" /\ \A k \in 1 .. Len(tasks) :
             tasks[k].kind = "remove" => Stem[tasks[k].path] # Stem[p]
  <2>1. TasksOf(tasks)' = TasksOf(tasks) \cup TasksOf(events)
    BY <1>1, <1>3, SpawnedWaits
  <2>2. p \in Waiting("reload")'
    BY <2>1 DEF Waiting, ToReload
  <2>3. \A t \in TasksOf(tasks) : t.kind = "remove" => Stem[t.path] # Stem[p]
    BY <1>3 DEF TasksOf
  <2>4. ~RemovalWaits(p)'
    <3>1. SUFFICES ASSUME NEW t \in TasksOf(tasks)', t.kind = "remove", Stem[t.path] = Stem[p]
                   PROVE  FALSE
      BY DEF Waiting, RemovalWaits
    <3>2. t \in TasksOf(tasks) \/ t \in TasksOf(events)
      BY <2>1
    <3>3. QED
      BY <2>3, <3>1, <3>2
  <2>5. p \notin unvisited'
    BY <1>1, <1>3 DEF InPhase
  <2>6. QED
    BY <2>2, <2>4, <2>5 DEF FileInv
<1>4. QED
  BY <1>2, <1>3 DEF Followed

\* The names with a change that was not followed.
LEMMA AfterOwn ==
  ASSUME NEW names, NEW p \in Json, NEW followed \in BOOLEAN
  PROVE  Stem[p] \in After(names, p, followed) <=> ~followed
BY DEF After

LEMMA AfterOther ==
  ASSUME NEW names, NEW p \in Json, NEW q, p # q, NEW followed
  PROVE  Stem[p] \in After(names, q, followed) <=> Stem[p] \in names
<1>1. q \in Json => Stem[p] # Stem[q]
  OBVIOUS
<1>2. QED
  BY <1>1 DEF After

\* A name that is not followed promises nothing.
LEMMA UnfollowedKeeps ==
  ASSUME SpecInv, UNCHANGED <<unvisited, index>>, NEW p \in Json, Stem[p] \in unfollowed'
  PROVE  FileInv(p)'
BY DEF SpecInv, FileInv

LEMMA ChangeTypes ==
  ASSUME SpecInv, NEW events \in Seq(Task), Spawned(events),
         UNCHANGED <<phase, unvisited, index>>, directory' \in [Paths -> Contents]
  PROVE  IndexTypes' /\ InPhase'
<1>1. IndexTypes /\ InPhase
  BY DEF SpecInv
<1>2. tasks' \in Seq(Task) /\ (phase # "watching" => tasks' = tasks /\ tasks = <<>>)
  BY <1>1, SpawnedWaits
<1>3. QED
  BY <1>1, <1>2 DEF IndexTypes, InPhase

-----------------------------------------------------------------------------
LEMMA WriteKeeps ==
  ASSUME SpecInv, Write
  PROVE  SpecInv'
<1>1. PICK q \in Paths, content \in Versions \cup {Broken} :
        /\ directory' = [directory EXCEPT ![q] = content]
        /\ Spawned(<<ToReload(q)>>)
        /\ unfollowed' = After(unfollowed, q, Followed(q))
  BY DEF Write
<1>2. UNCHANGED <<phase, unvisited, index>> /\ IndexTypes /\ InPhase
  BY DEF Write, SpecInv
<1>3. <<ToReload(q)>> \in Seq(Task)
  BY DEF Task, ToReload
<1>4. TasksOf(<<ToReload(q)>>) = {ToReload(q)} /\ ToReload(q).kind = "reload"
  BY OneTask DEF ToReload
<1>5. directory' \in [Paths -> Contents] /\ content # Absent
  BY <1>1, <1>2 DEF IndexTypes, Contents
<1>6. ASSUME NEW p \in Json PROVE FileInv(p)'
  <2>1. CASE p = q /\ Followed(q)
    <3>1. directory'[p] # Absent
      BY <1>1, <1>2, <1>5, <2>1 DEF IndexTypes
    <3>2. ToReload(p) \in TasksOf(<<ToReload(q)>>)
      BY <1>4, <2>1
    <3>3. QED
      BY <1>1, <1>2, <1>3, <1>4, <2>1, <3>1, <3>2, FollowedReload
  <2>2. CASE p = q /\ ~Followed(q)
    <3>1. Stem[p] \in unfollowed'
      BY <1>1, <2>2 DEF After
    <3>2. QED
      BY <1>2, <3>1, UnfollowedKeeps
  <2>3. CASE p # q
    <3>1. directory'[p] = directory[p]
      BY <1>1, <1>2, <2>3 DEF IndexTypes
    <3>2. Stem[p] \in unfollowed => Stem[p] \in unfollowed'
      BY <1>1, <2>3, AfterOther
    <3>3. \A t \in TasksOf(<<ToReload(q)>>) : t.kind # "remove"
      BY <1>4
    <3>4. QED
      BY <1>1, <1>2, <1>3, <3>1, <3>2, <3>3, OtherFileKeeps
  <2>4. QED
    BY <2>1, <2>2, <2>3
<1>7. QED
  BY <1>1, <1>2, <1>3, <1>5, <1>6, ChangeTypes DEF SpecInv

LEMMA DeleteKeeps ==
  ASSUME SpecInv, Delete
  PROVE  SpecInv'
<1>1. PICK q \in Paths :
        /\ directory' = [directory EXCEPT ![q] = Absent]
        /\ Spawned(<<ToRemove(q)>>)
        /\ unfollowed' =
             IF q \in Json
             THEN After(unfollowed, q, phase = "watching" \/ Followed(q))
             ELSE unfollowed \cup
                    (IF phase = "watching"
                     THEN {Stem[r] : r \in {r \in Json : directory[r] # Absent}} \cap {Stem[q]}
                     ELSE {})
  BY DEF Delete
<1>2. UNCHANGED <<phase, unvisited, index>> /\ IndexTypes /\ InPhase
  BY DEF Delete, SpecInv
<1>3. <<ToRemove(q)>> \in Seq(Task)
  BY DEF Task, ToRemove
<1>4. TasksOf(<<ToRemove(q)>>) = {ToRemove(q)} /\ ToRemove(q).path = q
      /\ ToRemove(q).kind = "remove"
  BY OneTask DEF ToRemove
<1>5. directory' \in [Paths -> Contents]
  BY <1>1, <1>2 DEF IndexTypes, Contents
<1>6. phase # "watching" => tasks' = tasks
  BY <1>1 DEF Spawned
<1>7. ASSUME phase = "watching", NEW p \in Json, Stem[q] = Stem[p]
      PROVE  RemovalWaits(p)' /\ p \notin unvisited'
  <2>1. ToRemove(q) \in TasksOf(tasks)'
    BY <1>1, <1>2, <1>3, <1>4, <1>7, SpawnedWaits
  <2>2. q \in Waiting("remove")'
    BY <1>4, <2>1 DEF Waiting
  <2>3. QED
    BY <1>2, <1>7, <2>2 DEF RemovalWaits, InPhase
<1>8. ASSUME NEW p \in Json PROVE FileInv(p)'
  <2>1. FileInv(p)
    BY DEF SpecInv
  <2>2. CASE p = q
    <3>1. directory'[p] = Absent
      BY <1>1, <1>2, <2>2 DEF IndexTypes
    <3>2. CASE phase = "watching"
      BY <1>7, <2>2, <3>1, <3>2 DEF FileInv
    <3>3. CASE phase # "watching" /\ Followed(q)
      BY <1>2, <2>1, <2>2, <3>3 DEF FileInv, Followed
    <3>4. CASE phase # "watching" /\ ~Followed(q)
      <4>1. Stem[p] \in unfollowed'
        BY <1>1, <2>2, <3>4 DEF After
      <4>2. QED
        BY <1>2, <4>1, UnfollowedKeeps
    <3>5. QED
      BY <3>2, <3>3, <3>4
  <2>3. ASSUME p # q
        PROVE  directory'[p] = directory[p] /\ (Stem[p] \in unfollowed => Stem[p] \in unfollowed')
    <3>1. q \in Json => (Stem[p] \in unfollowed => Stem[p] \in unfollowed')
      BY <1>1, <2>3, AfterOther
    <3>2. QED
      BY <1>1, <1>2, <2>3, <3>1 DEF IndexTypes
  <2>4. CASE p # q /\ Stem[p] # Stem[q]
    <3>1. \A t \in TasksOf(<<ToRemove(q)>>) : t.kind = "remove" => Stem[t.path] # Stem[p]
      BY <1>4, <2>4
    <3>2. QED
      BY <1>1, <1>2, <1>3, <2>3, <2>4, <3>1, OtherFileKeeps
  <2>5. CASE p # q /\ Stem[p] = Stem[q]
    <3>1. q \notin Json
      BY <2>5
    <3>2. CASE phase # "watching"
      BY <1>2, <1>6, <2>1, <2>3, <2>5, <3>2 DEF FileInv, RemovalWaits, Waiting
    <3>3. CASE phase = "watching" /\ directory[p] = Absent
      BY <1>7, <2>3, <2>5, <3>3 DEF FileInv
    <3>4. CASE phase = "watching" /\ directory[p] # Absent
      <4>1. Stem[p] \in unfollowed'
        BY <1>1, <2>5, <3>1, <3>4
      <4>2. QED
        BY <1>2, <4>1, UnfollowedKeeps
    <3>5. QED
      BY <3>2, <3>3, <3>4
  <2>6. QED
    BY <2>2, <2>4, <2>5
<1>9. QED
  BY <1>1, <1>2, <1>3, <1>5, <1>8, ChangeTypes DEF SpecInv

LEMMA RenameKeeps ==
  ASSUME SpecInv, Rename
  PROVE  SpecInv'
<1>1. PICK o \in Paths, q \in Paths :
        /\ o # q /\ directory[o] # Absent
        /\ directory' = [directory EXCEPT ![o] = Absent, ![q] = directory[o]]
        /\ Spawned(<<ToReload(o), ToReload(q)>>)
        /\ unfollowed' = After(After(unfollowed, o, phase = "loading" /\ Followed(o)),
                               q, Followed(q))
  BY DEF Rename
<1>2. UNCHANGED <<phase, unvisited, index>> /\ IndexTypes /\ InPhase
  BY DEF Rename, SpecInv
<1> DEFINE events == <<ToReload(o), ToReload(q)>>
<1>3. events \in Seq(Task)
  BY DEF Task, ToReload
<1>4. /\ TasksOf(events) = {ToReload(o), ToReload(q)}
      /\ ToReload(o).kind = "reload" /\ ToReload(q).kind = "reload"
  BY TwoTasks DEF ToReload
<1>5. Spawned(events)
  BY <1>1
<1> HIDE DEF events
<1>6. directory' \in [Paths -> Contents]
  BY <1>1, <1>2 DEF IndexTypes, Contents
<1>7. directory'[q] # Absent /\ directory'[o] = Absent
      /\ \A p \in Paths : p # o /\ p # q => directory'[p] = directory[p]
  BY <1>1, <1>2 DEF IndexTypes
<1>8. ASSUME NEW p \in Json PROVE FileInv(p)'
  <2>1. FileInv(p) /\ p \in Paths
    BY DEF SpecInv
  <2>2. CASE p = q /\ Followed(q)
    <3>1. ToReload(p) \in TasksOf(events) /\ \A t \in TasksOf(events) : t.kind = "reload"
      BY <1>4, <2>2
    <3>2. QED
      BY <1>2, <1>3, <1>5, <1>7, <2>2, <3>1, FollowedReload
  <2>3. CASE p = q /\ ~Followed(q)
    <3>1. Stem[p] \in unfollowed'
      BY <1>1, <2>3 DEF After
    <3>2. QED
      BY <1>2, <3>1, UnfollowedKeeps
  <2>4. CASE p = o /\ phase = "loading" /\ p \in unvisited
    BY <1>2, <2>1, <2>4 DEF FileInv
  <2>5. CASE p = o /\ ~(phase = "loading" /\ p \in unvisited)
    <3>1. ~(phase = "loading" /\ Followed(o))
      BY <2>5 DEF Followed
    <3>2. Stem[p] \in After(unfollowed, o, phase = "loading" /\ Followed(o))
      BY <2>5, <3>1 DEF After
    <3>3. Stem[p] \in unfollowed'
      BY <1>1, <2>5, <3>2, AfterOther
    <3>4. QED
      BY <1>2, <3>3, UnfollowedKeeps
  <2>6. CASE p # o /\ p # q
    <3>1. Stem[p] \in unfollowed => Stem[p] \in unfollowed'
      BY <1>1, <2>6, AfterOther
    <3>2. \A t \in TasksOf(events) : t.kind # "remove"
      BY <1>4
    <3>3. QED
      BY <1>2, <1>3, <1>5, <1>7, <2>1, <2>6, <3>1, <3>2, OtherFileKeeps
  <2>7. QED
    BY <2>2, <2>3, <2>4, <2>5, <2>6
<1>9. QED
  BY <1>2, <1>3, <1>5, <1>6, <1>8, ChangeTypes DEF SpecInv

-----------------------------------------------------------------------------
LEMMA SpecStart ==
  ASSUME IndexInit
  PROVE  SpecInv
<1>1. \A p \in Json : p \in unvisited /\ index[Stem[p]] = Absent
  BY DEF IndexInit, Names
<1>2. IndexTypes
  BY DEF IndexInit, IndexTypes
<1>3. InPhase
  BY DEF IndexInit, InPhase
<1>4. QED
  BY <1>1, <1>2, <1>3 DEF SpecInv, FileInv

LEMMA SpecStep ==
  ASSUME SpecInv, [IndexNext]_indexVars
  PROVE  SpecInv'
<1>1. CASE UNCHANGED indexVars
  BY <1>1 DEF indexVars, SpecInv, IndexTypes, InPhase, FileInv, RemovalWaits, Waiting
<1>2. CASE IndexNext
  BY <1>2, LoadEntryKeeps, PhaseKeeps, RunTaskKeeps, WriteKeeps, DeleteKeeps, RenameKeeps
  DEF IndexNext
<1>3. QED
  BY <1>1, <1>2

LEMMA SpecFollows ==
  ASSUME SpecInv
  PROVE  IndexFollowsDirectory
<1>1. SUFFICES ASSUME phase = "watching", tasks = <<>>,
                      NEW p \in Json, Stem[p] \notin unfollowed, directory[p] # Broken
               PROVE  index[Stem[p]] = directory[p]
  BY DEF IndexFollowsDirectory
<1>2. p \notin unvisited /\ FileInv(p)
  BY <1>1 DEF SpecInv, InPhase
<1>3. ~RemovalWaits(p) /\ p \notin Waiting("reload")
  BY <1>1, NoneWaits DEF RemovalWaits
<1>4. QED
  BY <1>1, <1>2, <1>3 DEF FileInv

\* Once the spawned tasks have run, in whatever order, each name whose last change
\* the watcher follows has in the index what its file has: no removal that waited
\* is applied after the file came back, and no reload is missing.
THEOREM IndexFollows == IndexSpec => []IndexFollowsDirectory
<1>1. IndexInit => SpecInv
  BY SpecStart
<1>2. SpecInv /\ [IndexNext]_indexVars => SpecInv'
  BY SpecStep
<1>3. SpecInv => IndexFollowsDirectory
  BY SpecFollows
<1>4. QED
  BY <1>1, <1>2, <1>3, PTL DEF IndexSpec
==============================================================================
