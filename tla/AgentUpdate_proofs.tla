------------------------ MODULE AgentUpdate_proofs ------------------------
(* Theorems about AgentUpdate, for every value of its constants.           *)
EXTENDS AgentUpdate, FiniteSetTheorems, TLAPS

Paths   == {"binary", "backup", "failed"}
Known   == Versions \cup {None}
Files   == [Paths -> Known]
Process == [up : BOOLEAN, ver : Known, at : Paths \cup {"gone"}]
Mark    == [ver : Versions, age : 0 .. ConfirmWindow + 1]
Install == [stage : {"idle", "marked", "moved", "placed"}, path : Paths \cup {"gone"},
            ver : Known]
Watcher == [expect : Versions, left : 0 .. WatchdogTicks, own : BOOLEAN]

ModeOK   == mode \in {"managed", "rootless"} /\ broken \subseteq Versions
FilesOK  == /\ files \in Files /\ confirmed \in Known
            /\ marker = {} \/ \E k \in Mark : marker = {k}
\* A process that runs has a version; one that does not has a path to start from.
ProcOK   == /\ proc \in [Procs -> Process]
            /\ \A p \in Procs : /\ proc[p].up => proc[p].ver \in Versions
                                /\ ~proc[p].up => proc[p].at \in Paths
\* An installation under way has a version, and a path once it moved something.
UpdOK    == /\ upd \in Install
            /\ upd.stage # "idle" => upd.ver \in Versions
            /\ upd.stage \in {"moved", "placed"} => upd.path \in Paths
\* Only a running manager looks.
LookOK   == /\ look \in {"off", "waiting", "watching", "lost"}
            /\ look # "off" => mode = "managed" /\ proc["manager"].up
WatchOK  == watch \subseteq Watcher /\ vouched \subseteq Versions
CountOK  == /\ age \in 0 .. ConfirmAt
            /\ installs \in 0 .. MaxInstalls /\ faults \in 0 .. MaxFaults
            /\ raced \in BOOLEAN /\ cut \in BOOLEAN
Typed == ModeOK /\ FilesOK /\ ProcOK /\ UpdOK /\ LookOK /\ WatchOK /\ CountOK

LEMMA Bounds ==
    /\ None \notin Versions /\ 1 \in Versions /\ ConfirmAt \in Nat /\ FirstLook \in Nat
    /\ WatchdogTicks \in Nat /\ ConfirmWindow \in Nat
    /\ MaxInstalls \in Nat /\ MaxFaults \in Nat
  BY UpdateAssumption DEF None, ConfirmAt

LEMMA ProcsAre ==
    ASSUME ModeOK
    PROVE  /\ Updater \in Procs /\ "telemetry" \in Procs
           /\ mode = "managed" => "manager" \in Procs
           /\ "manager" \in Procs => mode = "managed"
  BY DEF ModeOK, Procs, Updater

\* A rename moves the paths of running processes only.
LEMMA RenamedType ==
    ASSUME NEW P, NEW ps \in [P -> Process], NEW from, NEW to \in Paths
    PROVE  /\ Renamed(ps, from, to) \in [P -> Process]
           /\ \A p \in P : /\ Renamed(ps, from, to)[p].up = ps[p].up
                           /\ Renamed(ps, from, to)[p].ver = ps[p].ver
                           /\ ~ps[p].up => Renamed(ps, from, to)[p] = ps[p]
  BY DEF Renamed, Process

LEMMA DownType ==
    ASSUME NEW P, NEW ps \in [P -> Process], NEW who
    PROVE  /\ Down(ps, who) \in [P -> Process]
           /\ \A p \in P : IF p \in who THEN Down(ps, who)[p].at = "binary" /\ ~Down(ps, who)[p].up
                           ELSE Down(ps, who)[p] = ps[p]
  BY DEF Down, Process, Paths, Known

LEMMA DisownedType ==
    ASSUME NEW ws \in SUBSET Watcher
    PROVE  Disowned(ws) \subseteq Watcher
  BY DEF Disowned, Watcher

LEMMA RolledBackType ==
    ASSUME NEW fs \in Files
    PROVE  RolledBack(fs) \in Files /\ RolledBack(fs)["binary"] = fs["backup"]
  BY DEF RolledBack, Files, Paths, Known

LEMMA InitTyped == Init => Typed
<1> SUFFICES ASSUME Init PROVE Typed
  OBVIOUS
<1>1. files \in Files /\ Idle \in Install
  BY Bounds DEF Init, Files, Paths, Known, Idle, Install
<1>2. ProcOK
  BY DEF Init, ProcOK, Process, Known, Paths
<1>3. CountOK /\ WatchOK
  <2>1. raced \in BOOLEAN /\ cut \in BOOLEAN
    BY Zenon DEF Init
  <2>2. installs \in 0 .. MaxInstalls /\ faults \in 0 .. MaxFaults /\ age \in 0 .. ConfirmAt
    BY Bounds DEF Init
  <2> QED
    BY <2>1, <2>2 DEF Init, CountOK, WatchOK
<1>4. ModeOK /\ LookOK
  BY DEF Init, ModeOK, LookOK
<1>5. UpdOK
  BY <1>1 DEF Init, UpdOK, Idle
<1>6. FilesOK
  BY <1>1 DEF Init, FilesOK, Known
<1> QED
  BY <1>2, <1>3, <1>4, <1>5, <1>6 DEF Typed

-----------------------------------------------------------------------------
(* A process starts.                                                       *)

LEMMA RunsTyped ==
    ASSUME Typed, NEW p \in Procs, Starts(p), Runs(p)
    PROVE  /\ ModeOK' /\ files' \in Files /\ confirmed' \in Known /\ ProcOK' /\ UpdOK'
           /\ LookOK' /\ WatchOK' /\ age' \in 0 .. ConfirmAt
<1> DEFINE f == [up |-> TRUE, ver |-> files[proc[p].at], at |-> proc[p].at]
<1>1. proc[p].at \in Paths /\ files[proc[p].at] \in Versions /\ ~proc[p].up
  BY DEF Typed, ProcOK, FilesOK, Starts, Files, Known
<1>2. f \in Process /\ f.up /\ f.ver \in Versions
  BY <1>1 DEF Process, Known
<1>3. proc' = [proc EXCEPT ![p] = f] /\ mode' = mode
  BY DEF Runs
<1> HIDE DEF f
<1>4. ProcOK'
  BY <1>2, <1>3 DEF Typed, ProcOK, Procs
<1>5. LookOK'
  <2>1. CASE p = "manager"
    BY <2>1, <1>2, <1>3, ProcsAre DEF Runs, Typed, LookOK, ProcOK
  <2>2. CASE p # "manager"
    BY <2>2, <1>3, ProcsAre DEF Runs, Typed, LookOK, ProcOK
  <2> QED
    BY <2>1, <2>2
<1> QED
  BY <1>4, <1>5, Bounds DEF Runs, Typed, ModeOK, FilesOK, UpdOK, WatchOK, CountOK

LEMMA StartTyped ==
    ASSUME Typed, NEW p \in Procs, Boot(p) \/ BootClears(p) \/ BootRollsBack(p)
    PROVE  Typed'
<1>1. CASE Boot(p)
  BY <1>1, RunsTyped DEF Boot, Runs, Typed, FilesOK, CountOK
<1>2. CASE BootClears(p)
  <2>1. raced' \in BOOLEAN
    BY <1>2, Zenon DEF BootClears, Typed, CountOK
  <2> QED
    BY <1>2, <2>1, RunsTyped DEF BootClears, Runs, Typed, FilesOK, CountOK
<1>3. CASE BootRollsBack(p)
  <2>1. files' \in Files /\ marker' = {} /\ UNCHANGED <<confirmed, upd, age, look, watch, faults, counts>>
    BY <1>3, RolledBackType DEF BootRollsBack, Typed, FilesOK
  <2>2. /\ RenamedBack(proc) \in [Procs -> Process]
        /\ \A q \in Procs : /\ RenamedBack(proc)[q].up = proc[q].up
                            /\ RenamedBack(proc)[q].ver = proc[q].ver
                            /\ ~proc[q].up => RenamedBack(proc)[q] = proc[q]
    <3>1. Renamed(proc, "binary", "failed") \in [Procs -> Process]
      BY RenamedType DEF Typed, ProcOK, Paths
    <3> QED
      BY <3>1, RenamedType DEF RenamedBack, Typed, ProcOK, Paths
  <2>3. proc' = [RenamedBack(proc) EXCEPT ![p].at = "failed"] /\ ~proc[p].up
    BY <1>3 DEF BootRollsBack, RollsBack, Starts
  <2>4. proc' \in [Procs -> Process] /\ \A q \in Procs : proc'[q].up = proc[q].up
    BY <2>2, <2>3 DEF Process, Paths
  <2>5. ProcOK' /\ LookOK'
    BY <2>1, <2>2, <2>3, <2>4, ProcsAre DEF counts, Typed, ProcOK, LookOK, Procs, Paths
  <2> QED
    BY <2>1, <2>5 DEF counts, Typed, ModeOK, FilesOK, UpdOK, WatchOK, CountOK
<1> QED
  BY <1>1, <1>2, <1>3

-----------------------------------------------------------------------------
(* The installation.                                                       *)

LEMMA IdleTyped ==
    ASSUME upd' = Idle
    PROVE  UpdOK'
  BY DEF UpdOK, Idle, Install, Known, Paths

\* What most steps leave alone.
LEMMA SameKnobs ==
    ASSUME Typed, mode' = mode, broken' = broken, installs' = installs,
           faults' \in 0 .. MaxFaults, age' \in 0 .. ConfirmAt,
           raced' \in BOOLEAN, cut' \in BOOLEAN
    PROVE  ModeOK' /\ CountOK'
  BY DEF Typed, ModeOK, CountOK

\* Looks go on while the manager does.
LEMMA SameLook ==
    ASSUME Typed, mode' = mode, look' = look,
           "manager" \in Procs => proc'["manager"].up = proc["manager"].up
    PROVE  LookOK'
  BY ProcsAre DEF Typed, LookOK

\* A renaming of the files keeps the table of processes.
LEMMA RenamedTyped ==
    ASSUME Typed, mode' = mode, NEW from, NEW to \in Paths,
           proc' = Renamed(proc, from, to)
    PROVE  /\ ProcOK'
           /\ \A p \in Procs : proc'[p].up = proc[p].up
<1>1. Procs' = Procs
  BY DEF Procs
<1> QED
  BY <1>1, RenamedType DEF Typed, ProcOK

LEMMA DownTyped ==
    ASSUME Typed, mode' = mode, NEW ps \in [Procs -> Process], NEW who,
           \A p \in Procs : p \in who \/ (ps[p].up = proc[p].up /\ ps[p].ver = proc[p].ver
                                           /\ (~proc[p].up => ps[p] = proc[p])),
           proc' = Down(ps, who)
    PROVE  /\ ProcOK'
           /\ \A p \in Procs : p \in who => ~proc'[p].up
           /\ \A p \in Procs : p \notin who => proc'[p].up = proc[p].up
<1>1. Procs' = Procs
  BY DEF Procs
<1>2. proc' \in [Procs -> Process]
  BY DownType
<1>3. ASSUME NEW p \in Procs
      PROVE  /\ proc'[p].up => proc'[p].ver \in Versions
             /\ ~proc'[p].up => proc'[p].at \in Paths
             /\ p \in who => ~proc'[p].up
             /\ p \notin who => proc'[p].up = proc[p].up
  <2>1. CASE p \in who
    BY <2>1, DownType DEF Paths
  <2>2. CASE p \notin who
    BY <2>2, DownType DEF Typed, ProcOK
  <2> QED
    BY <2>1, <2>2
<1> QED
  BY <1>1, <1>2, <1>3 DEF ProcOK

LEMMA MarkPendingTyped ==
    ASSUME Typed, NEW v \in Versions, MarkPending(v)
    PROVE  Typed'
<1>1. [ver |-> v, age |-> 0] \in Mark
  BY Bounds DEF Mark
<1>2. marker' = {[ver |-> v, age |-> 0]}
  BY DEF MarkPending, Marked
<1>3. FilesOK'
  BY <1>1, <1>2 DEF MarkPending, FilesOK, Typed
<1>4. UpdOK'
  <2>1. proc[Updater].at \in Paths \cup {"gone"}
    BY ProcsAre DEF Typed, ProcOK, Process
  <2> QED
    BY <2>1 DEF MarkPending, UpdOK, Install, Known
<1>5. installs' \in 0 .. MaxInstalls
  BY Bounds DEF MarkPending, Typed, CountOK
<1>6. ModeOK' /\ ProcOK' /\ LookOK' /\ WatchOK' /\ CountOK'
  BY <1>5 DEF MarkPending, Typed, ModeOK, ProcOK, LookOK, WatchOK, CountOK, Procs
<1> QED
  BY <1>3, <1>4, <1>6 DEF Typed

LEMMA BackupTyped ==
    ASSUME Typed, Backup
    PROVE  Typed'
<1>1. ModeOK' /\ CountOK' /\ WatchOK' /\ mode' = mode /\ look' = look
  BY DEF Backup, counts, Typed, ModeOK, CountOK, WatchOK
<1>2. files' \in Files /\ UpdOK'
  <2>1. CASE upd.path # "gone" /\ files[upd.path] # None
    <3>1. upd.path \in Paths /\ upd.ver \in Versions
      BY <2>1 DEF Backup, Typed, UpdOK, Install
    <3>2. /\ files' = [files EXCEPT !.backup = files[upd.path], ![upd.path] = None]
          /\ upd' = [upd EXCEPT !.stage = "moved"]
      BY <2>1 DEF Backup
    <3>3. UpdOK'
      BY <3>1, <3>2 DEF Typed, UpdOK, Install
    <3> QED
      BY <3>1, <3>2, <3>3 DEF Typed, FilesOK, Files, Known, Paths
  <2>2. CASE ~(upd.path # "gone" /\ files[upd.path] # None)
    BY <2>2, IdleTyped DEF Backup, Typed, FilesOK, Files, Known, Paths
  <2> QED
    BY <2>1, <2>2
<1>3. ProcOK' /\ LookOK'
  BY <1>1, RenamedTyped, SameLook DEF Backup, Paths
<1> QED
  BY <1>1, <1>2, <1>3 DEF Backup, Typed, FilesOK

LEMMA PlaceTyped ==
    ASSUME Typed, Place
    PROVE  Typed'
<1>1. upd.path \in Paths /\ upd.ver \in Versions /\ upd \in Install
  BY DEF Place, Typed, UpdOK
<1>2. files' \in Files
  BY <1>1 DEF Place, Typed, FilesOK, Files, Known, Paths
<1>3. UpdOK'
  BY <1>1 DEF Place, UpdOK, Install
<1>4. ModeOK' /\ ProcOK' /\ LookOK' /\ WatchOK' /\ CountOK'
  BY DEF Place, Typed, ModeOK, ProcOK, LookOK, WatchOK, CountOK, Procs
<1> QED
  BY <1>2, <1>3, <1>4 DEF Place, Typed, FilesOK

LEMMA PlaceFailsTyped ==
    ASSUME Typed, PlaceFails
    PROVE  Typed'
<1>1. upd.path \in Paths /\ mode' = mode /\ look' = look
  BY DEF PlaceFails, Typed, UpdOK
<1>2. files' \in Files
  BY <1>1 DEF PlaceFails, PutBack, Typed, FilesOK, Files, Known, Paths
<1>3. cut' \in BOOLEAN
  BY Zenon DEF PlaceFails, Typed, CountOK
<1>4. faults' \in 0 .. MaxFaults
  BY Bounds DEF PlaceFails, Typed, CountOK
<1>5. ModeOK' /\ CountOK' /\ WatchOK'
  BY <1>3, <1>4 DEF PlaceFails, Typed, ModeOK, CountOK, WatchOK
<1>6. ProcOK' /\ LookOK' /\ UpdOK'
  BY <1>1, RenamedTyped, SameLook, IdleTyped DEF PlaceFails
<1> QED
  BY <1>2, <1>5, <1>6 DEF PlaceFails, Typed, FilesOK

LEMMA ReexecTyped ==
    ASSUME Typed, Reexec
    PROVE  Typed'
<1> DEFINE f == [up |-> FALSE, ver |-> None, at |-> upd.path]
<1>1. upd.path \in Paths
  BY DEF Reexec, Typed, UpdOK
<1>2. f \in Process /\ ~f.up /\ f.at \in Paths
  BY <1>1 DEF Process, Known
<1>3. proc' = [proc EXCEPT ![Updater] = f] /\ mode' = mode /\ Procs' = Procs
  BY DEF Reexec, counts, Procs
<1> HIDE DEF f
<1>4. ProcOK'
  BY <1>2, <1>3 DEF Typed, ProcOK
<1>5. LookOK'
  BY DEF Reexec, counts, Typed, LookOK
<1>6. UpdOK'
  BY IdleTyped DEF Reexec
<1> QED
  BY <1>4, <1>5, <1>6 DEF Reexec, counts, Typed, ModeOK, FilesOK, WatchOK, CountOK

LEMMA HandoverTyped ==
    ASSUME Typed, Handover
    PROVE  Typed'
<1>1. upd.path \in Paths /\ upd.ver \in Versions /\ mode' = mode /\ Procs' = Procs
  BY DEF Handover, Typed, UpdOK, counts, Procs
<1> DEFINE ps == Down(proc, {"telemetry", "manager"})
<1>2. proc' = [ps EXCEPT !["manager"].at = upd.path]
  BY DEF Handover
<1>3. /\ ps \in [Procs -> Process]
      /\ \A p \in Procs : ps[p].at = "binary" /\ ~ps[p].up
  BY DownType DEF Typed, ProcOK, Procs
<1> HIDE DEF ps
<1>4. ProcOK'
  BY <1>1, <1>2, <1>3 DEF ProcOK, Process, Paths
<1>5. [expect |-> upd.ver, left |-> WatchdogTicks, own |-> TRUE] \in Watcher
  BY <1>1, Bounds DEF Watcher
<1>6. WatchOK'
  BY <1>5 DEF Handover, counts, Typed, WatchOK
<1>7. LookOK' /\ UpdOK' /\ FilesOK'
  BY IdleTyped DEF Handover, LookOK, Typed, FilesOK, Known
<1> QED
  BY <1>4, <1>6, <1>7 DEF Handover, counts, Typed, ModeOK, CountOK

LEMMA HandoverFailsTyped ==
    ASSUME Typed, HandoverFails
    PROVE  Typed'
<1>1. mode' = mode /\ Procs' = Procs /\ proc \in [Procs -> Process]
  BY DEF HandoverFails, counts, Procs, Typed, ProcOK
<1>2. FilesOK'
  BY RolledBackType DEF HandoverFails, Typed, FilesOK, Known
<1> DEFINE ps == IF Refused(files) THEN proc ELSE RenamedBack(proc)
<1>3. /\ ps \in [Procs -> Process]
      /\ \A q \in Procs : /\ ps[q].up = proc[q].up
                          /\ ps[q].ver = proc[q].ver
                          /\ ~proc[q].up => ps[q] = proc[q]
  <2>1. Renamed(proc, "binary", "failed") \in [Procs -> Process]
    BY <1>1, RenamedType DEF Paths
  <2> QED
    BY <1>1, <2>1, RenamedType DEF RenamedBack, Paths
<1>4. proc' = Down(ps, {"manager"})
  BY DEF HandoverFails
<1> HIDE DEF ps
<1>5. ProcOK'
  BY <1>1, <1>3, <1>4, DownTyped
<1>6. WatchOK'
  BY DisownedType DEF HandoverFails, counts, Typed, WatchOK
<1>7. LookOK' /\ UpdOK'
  BY IdleTyped DEF HandoverFails, LookOK
<1> QED
  BY <1>2, <1>5, <1>6, <1>7 DEF HandoverFails, counts, Typed, ModeOK, CountOK

-----------------------------------------------------------------------------
(* Confirmation, the watchdog, faults and time.                            *)

LEMMA ReportTyped ==
    ASSUME Typed, Report
    PROVE  Typed'
<1>1. raced' \in BOOLEAN
  BY Zenon DEF Report, Typed, CountOK
<1>2. mode' = mode /\ look' = look /\ Procs' = Procs
  BY DEF Report, Procs
<1>3. files' \in Files
  BY DEF Report, Typed, FilesOK, Files, Known
<1>4. ProcOK' /\ LookOK'
  <2>1. CASE mode = "rootless"
    BY <1>2, <2>1, RenamedTyped, SameLook DEF Report, Paths
  <2>2. CASE mode # "rootless"
    BY <1>2, <2>2 DEF Report, Typed, ProcOK, LookOK
  <2> QED
    BY <2>1, <2>2
<1> QED
  BY <1>1, <1>3, <1>4 DEF Report, Typed, ModeOK, FilesOK, UpdOK, WatchOK, CountOK

LEMMA LookTyped ==
    ASSUME Typed, Look
    PROVE  Typed'
<1>1. LookOK'
  BY DEF Look, Up, Typed, LookOK, counts
<1> QED
  BY <1>1 DEF Look, counts, Typed, ModeOK, FilesOK, ProcOK, Procs, UpdOK, WatchOK, CountOK

LEMMA ConfirmTyped ==
    ASSUME Typed, Confirm
    PROVE  Typed'
<1>1. proc["manager"].ver \in Versions
  BY ProcsAre DEF Confirm, Typed, LookOK, ProcOK
<1>2. LookOK' /\ WatchOK' /\ FilesOK'
  BY <1>1 DEF Confirm, Typed, LookOK, WatchOK, FilesOK, Known
<1> QED
  BY <1>2 DEF Confirm, Typed, ModeOK, ProcOK, Procs, UpdOK, CountOK

LEMMA WatchdogConfirmsTyped ==
    ASSUME Typed, NEW w \in watch, WatchdogConfirms(w)
    PROVE  Typed'
<1>1. raced' \in BOOLEAN
  BY Zenon DEF WatchdogConfirms, Typed, CountOK
<1>2. mode' = mode /\ look' = look
  BY DEF WatchdogConfirms
<1>3. FilesOK'
  BY DEF WatchdogConfirms, Typed, FilesOK, Files, Known
<1>4. ProcOK' /\ LookOK'
  BY <1>2, RenamedTyped, SameLook DEF WatchdogConfirms, Paths
<1> QED
  BY <1>1, <1>3, <1>4 DEF WatchdogConfirms, Typed, ModeOK, UpdOK, WatchOK, CountOK

LEMMA WatchdogExpiresTyped ==
    ASSUME Typed, NEW w \in watch, WatchdogExpires(w)
    PROVE  Typed'
<1>1. mode' = mode /\ Procs' = Procs /\ proc \in [Procs -> Process]
  BY DEF WatchdogExpires, counts, Procs, Typed, ProcOK
<1>2. WatchOK'
  <2>1. watch \ {w} \in SUBSET Watcher
    BY DEF Typed, WatchOK
  <2> QED
    BY <2>1, DisownedType DEF WatchdogExpires, counts, Typed, WatchOK
<1>3. FilesOK' /\ ProcOK' /\ UpdOK' /\ LookOK'
  <2>1. CASE Refused(files)
    BY <1>1, <2>1 DEF WatchdogExpires, Typed, FilesOK, ProcOK, UpdOK, LookOK
  <2>2. CASE ~Refused(files)
    <3>1. /\ files' = RolledBack(files) /\ proc' = Down(proc, Procs)
          /\ upd' = Idle /\ look' = "off" /\ confirmed' = None /\ marker' = marker
      BY <2>2 DEF WatchdogExpires
    <3>2. ProcOK'
      BY <1>1, <3>1, DownTyped
    <3> QED
      BY <3>1, <3>2, RolledBackType, IdleTyped DEF Typed, FilesOK, LookOK, Known
  <2> QED
    BY <2>1, <2>2
<1> QED
  BY <1>2, <1>3 DEF WatchdogExpires, counts, Typed, ModeOK, CountOK

\* Looks end with the manager.
LEMMA LookLostTyped ==
    ASSUME Typed, mode' = mode, NEW who, look' = LookLost(who),
           \A p \in Procs : p \notin who => proc'[p].up = proc[p].up
    PROVE  LookOK'
  BY ProcsAre DEF LookLost, Typed, LookOK

LEMMA KillTyped ==
    ASSUME Typed, NEW p \in Procs, Kill(p)
    PROVE  Typed'
<1>1. mode' = mode /\ proc \in [Procs -> Process] /\ proc' = Down(proc, {p})
  BY DEF Kill, Typed, ProcOK
<1>2. ProcOK' /\ \A q \in Procs : q \notin {p} => proc'[q].up = proc[q].up
  BY <1>1, DownTyped
<1>3. LookOK'
  BY <1>1, <1>2, LookLostTyped DEF Kill
<1>4. UpdOK'
  BY IdleTyped DEF Kill, Typed, UpdOK
<1>5. WatchOK'
  BY DisownedType DEF Kill, Typed, WatchOK
<1>6. cut' \in BOOLEAN
  BY Zenon DEF Kill, Typed, CountOK
<1>7. faults' \in 0 .. MaxFaults
  BY Bounds DEF Kill, Typed, CountOK
<1> QED
  BY <1>2, <1>3, <1>4, <1>5, <1>6, <1>7 DEF Kill, Typed, ModeOK, FilesOK, CountOK

LEMMA PowerLossTyped ==
    ASSUME Typed, PowerLoss
    PROVE  Typed'
<1>1. mode' = mode /\ proc \in [Procs -> Process] /\ proc' = Down(proc, Procs)
  BY DEF PowerLoss, Typed, ProcOK
<1>2. ProcOK'
  BY <1>1, DownTyped
<1>3. cut' \in BOOLEAN
  <2>1. CASE cut' = TRUE
    BY <2>1, Zenon
  <2>2. CASE cut' = (cut \/ upd.stage = "moved")
    BY <2>2, Zenon DEF Typed, CountOK
  <2> QED
    BY <2>1, <2>2, Zenon DEF PowerLoss
<1>4. faults' \in 0 .. MaxFaults
  BY Bounds DEF PowerLoss, Typed, CountOK
<1>5. FilesOK'
  <2>1. files' = files \/ files' = [files EXCEPT !.failed = files.binary, !.binary = None]
    BY DEF PowerLoss
  <2>2. confirmed' = confirmed /\ marker' = marker
    BY DEF PowerLoss
  <2> QED
    BY <2>1, <2>2 DEF Typed, FilesOK, Files, Known, Paths
<1>6. UpdOK' /\ LookOK' /\ WatchOK'
  BY IdleTyped DEF PowerLoss, LookOK, WatchOK, Typed
<1> QED
  BY <1>2, <1>3, <1>4, <1>5, <1>6 DEF PowerLoss, Typed, ModeOK, CountOK

LEMMA TickTyped ==
    ASSUME Typed, Tick
    PROVE  Typed'
<1> DEFINE dead == {p \in Procs : proc[p].ver \in broken}
           ws   == IF "manager" \in dead THEN Disowned(watch) ELSE watch
<1>1. mode' = mode /\ proc \in [Procs -> Process] /\ proc' = Down(proc, dead)
  BY DEF Tick, counts, Typed, ProcOK
<1>2. ProcOK' /\ \A q \in Procs : q \notin dead => proc'[q].up = proc[q].up
  BY <1>1, DownTyped
<1>3. LookOK'
  <2>1. look' = LookLost(dead)
    BY DEF Tick
  <2> QED
    BY <1>1, <1>2, <2>1, LookLostTyped
<1>4. WatchOK'
  <2>1. watch' = {[w EXCEPT !.left = @ - 1] : w \in ws} /\ vouched' = vouched
    BY DEF Tick, counts
  <2>2. \A w \in ws : w \in Watcher /\ w.left > 0
    <3>1. \A w \in watch : w \in Watcher /\ w.left > 0
      BY DEF Tick, Settled, Typed, WatchOK
    <3> QED
      BY <3>1 DEF Disowned, Watcher
  <2>3. ASSUME NEW w \in ws
        PROVE  [w EXCEPT !.left = @ - 1] \in Watcher
    <3>1. w.left - 1 \in 0 .. WatchdogTicks
      BY <2>2, Bounds DEF Watcher
    <3> QED
      BY <2>2, <3>1 DEF Watcher
  <2> HIDE DEF ws
  <2> QED
    BY <2>1, <2>3 DEF Typed, WatchOK
<1>5. marker' = {} \/ \E k \in Mark : marker' = {k}
  <2>1. ASSUME NEW k \in Mark
        PROVE  [k EXCEPT !.age = IF @ > ConfirmWindow THEN @ ELSE @ + 1] \in Mark
    <3> DEFINE a == IF k.age > ConfirmWindow THEN k.age ELSE k.age + 1
    <3>1. a \in 0 .. ConfirmWindow + 1
      BY Bounds DEF Mark
    <3> HIDE DEF a
    <3>2. [k EXCEPT !.age = a] \in Mark
      BY <3>1 DEF Mark
    <3> QED
      BY <3>2 DEF a
  <2>2. marker' = {[k EXCEPT !.age = IF @ > ConfirmWindow THEN @ ELSE @ + 1] : k \in marker}
    BY DEF Tick
  <2> QED
    BY <2>1, <2>2 DEF Typed, FilesOK
<1>6. age' \in 0 .. ConfirmAt
  BY Bounds DEF Tick, Typed, CountOK
<1> QED
  BY <1>2, <1>3, <1>4, <1>5, <1>6
     DEF Tick, counts, Typed, ModeOK, FilesOK, UpdOK, CountOK

LEMMA NextTyped ==
    ASSUME Typed, [Next]_vars
    PROVE  Typed'
<1>1. ASSUME NEW p \in Procs, Boot(p) \/ BootClears(p) \/ BootRollsBack(p) \/ Kill(p)
      PROVE  Typed'
  BY <1>1, StartTyped, KillTyped
<1>2. ASSUME NEW v \in Versions, MarkPending(v)
      PROVE  Typed'
  BY <1>2, MarkPendingTyped
<1>3. CASE Backup \/ Place \/ PlaceFails \/ Reexec \/ Handover \/ HandoverFails
  BY <1>3, BackupTyped, PlaceTyped, PlaceFailsTyped, ReexecTyped, HandoverTyped,
     HandoverFailsTyped
<1>4. CASE Report \/ Look \/ Confirm
  BY <1>4, ReportTyped, LookTyped, ConfirmTyped
<1>5. ASSUME NEW w \in watch, WatchdogConfirms(w) \/ WatchdogExpires(w)
      PROVE  Typed'
  BY <1>5, WatchdogConfirmsTyped, WatchdogExpiresTyped
<1>6. CASE PowerLoss \/ Tick
  BY <1>6, PowerLossTyped, TickTyped
<1>7. CASE UNCHANGED vars
  BY <1>7 DEF vars, Typed, ModeOK, FilesOK, ProcOK, Procs, UpdOK, LookOK, WatchOK, CountOK
<1> QED
  BY <1>1, <1>2, <1>3, <1>4, <1>5, <1>6, <1>7 DEF Next

LEMMA AlwaysTyped == Spec => []Typed
  BY InitTyped, NextTyped, PTL DEF Spec

LEMMA TypedTypeOK == Typed => TypeOK
<1> SUFFICES ASSUME Typed PROVE TypeOK
  OBVIOUS
<1>1. marker \subseteq Mark /\ Cardinality(marker) <= 1
  <2>1. CASE marker = {}
    BY <2>1, FS_EmptySet
  <2>2. CASE \E k \in Mark : marker = {k}
    BY <2>2, FS_Singleton
  <2> QED
    BY <2>1, <2>2 DEF Typed, FilesOK
<1>2. raced \in BOOLEAN /\ cut \in BOOLEAN
  BY Zenon DEF Typed, CountOK
<1> QED
  BY <1>1, <1>2
     DEF TypeOK, Typed, ModeOK, FilesOK, ProcOK, UpdOK, LookOK, WatchOK, CountOK, Files,
         Known, Paths, Process, Mark, Install, Watcher

(***************************************************************************)
(* Every variable keeps its type: at most one marker, ages and watchdogs   *)
(* within their bounds, versions of the set that is offered.               *)
(***************************************************************************)
THEOREM TypeCorrect == Spec => []TypeOK
  BY AlwaysTyped, TypedTypeOK, PTL

-----------------------------------------------------------------------------
(* The path of the service.  The stage alone is not inductive: the         *)
(* installation that moved the executable away must replace this path,     *)
(* not the one of a rollback's leftovers, for its second rename to fill it. *)

PathInv == files.binary = None => cut \/ (upd.stage = "moved" /\ upd.path = "binary")

LEMMA InstallKeepsPath ==
    ASSUME Typed, PathInv, Backup \/ Place \/ PlaceFails
    PROVE  PathInv'
<1>1. files \in Files /\ upd.path \in Paths \cup {"gone"}
  BY DEF Typed, FilesOK, UpdOK, Install
<1>2. CASE Backup
  <2>1. CASE upd.path # "gone" /\ files[upd.path] # None
    <3>1. /\ files' = [files EXCEPT !.backup = files[upd.path], ![upd.path] = None]
          /\ upd' = [upd EXCEPT !.stage = "moved"] /\ upd.stage = "marked" /\ cut' = cut
      BY <1>2, <2>1 DEF Backup, counts
    <3>2. CASE upd.path = "binary"
      BY <3>1, <3>2 DEF PathInv, Typed, UpdOK, Install
    <3>3. CASE upd.path # "binary"
      BY <1>1, <3>1, <3>3 DEF PathInv, Files, Paths
    <3> QED
      BY <3>2, <3>3
  <2>2. CASE ~(upd.path # "gone" /\ files[upd.path] # None)
    BY <1>1, <1>2, <2>2 DEF Backup, counts, PathInv, Files, Paths
  <2> QED
    BY <2>1, <2>2
<1>3. CASE Place
  <2>1. /\ upd.ver # None /\ upd.path \in Paths
        /\ files' = [files EXCEPT ![upd.path] = upd.ver] /\ cut' = cut
    BY <1>3, Bounds DEF Place, Typed, UpdOK
  <2> QED
    BY <1>1, <2>1 DEF PathInv, Files, Paths
<1>4. CASE PlaceFails
  <2>1. /\ upd.path \in Paths /\ cut' = (cut \/ files.backup = None)
        /\ files' = [files EXCEPT ![upd.path] = files.backup, !.backup = None]
    BY <1>4 DEF PlaceFails, PutBack, Typed, UpdOK
  <2>2. CASE upd.path = "binary"
    BY <1>1, <2>1, <2>2 DEF PathInv, Files, Paths
  <2>3. CASE upd.path # "binary"
    BY <1>1, <2>1, <2>3 DEF PathInv, Files, Paths
  <2> QED
    BY <2>2, <2>3
<1> QED
  BY <1>2, <1>3, <1>4

\* A rollback begins only when there is a backup.
LEMMA RollbackKeepsPath ==
    ASSUME Typed, files' = RolledBack(files), files.backup # None
    PROVE  PathInv'
  BY RolledBackType DEF Typed, FilesOK, PathInv

LEMMA EndKeepsPath ==
    ASSUME Typed, PathInv, (\E p \in Procs : Kill(p)) \/ PowerLoss
    PROVE  PathInv'
<1>1. ASSUME NEW p \in Procs, Kill(p)
      PROVE  PathInv'
  BY <1>1, Zenon DEF Kill, PathInv
<1>2. CASE PowerLoss
  <2>1. cut' = TRUE \/ (files' = files /\ cut' = (cut \/ upd.stage = "moved"))
    BY <1>2 DEF PowerLoss
  <2> QED
    BY <2>1, Zenon DEF PathInv
<1> QED
  BY <1>1, <1>2

LEMMA NextKeepsPath ==
    ASSUME Typed, PathInv, [Next]_vars
    PROVE  PathInv'
<1> files \in Files
  BY DEF Typed, FilesOK
<1>1. ASSUME NEW p \in Procs, Boot(p) \/ BootClears(p)
      PROVE  PathInv'
  BY <1>1 DEF Boot, BootClears, Runs, PathInv
<1>2. ASSUME NEW p \in Procs, BootRollsBack(p)
      PROVE  PathInv'
  BY <1>2, RollbackKeepsPath DEF BootRollsBack, RollsBack
<1>3. ASSUME NEW v \in Versions, MarkPending(v)
      PROVE  PathInv'
  BY <1>3 DEF MarkPending, PathInv
<1>4. CASE Reexec
  BY <1>4 DEF Reexec, counts, PathInv
<1>5. CASE Handover
  BY <1>5 DEF Handover, counts, PathInv
<1>6. CASE HandoverFails
  <2>1. CASE Refused(files)
    BY <1>6, <2>1 DEF HandoverFails, counts, PathInv
  <2>2. CASE ~Refused(files)
    BY <1>6, <2>2, RollbackKeepsPath DEF HandoverFails, Refused
  <2> QED
    BY <2>1, <2>2
<1>7. CASE Report
  BY <1>7 DEF Report, PathInv, Files, Paths
<1>8. CASE Look \/ Tick
  BY <1>8 DEF Look, Tick, counts, PathInv
<1>9. CASE Confirm
  BY <1>9 DEF Confirm, PathInv
<1>10. ASSUME NEW w \in watch, WatchdogConfirms(w)
       PROVE  PathInv'
  BY <1>10 DEF WatchdogConfirms, PathInv, Files, Paths
<1>11. ASSUME NEW w \in watch, WatchdogExpires(w)
       PROVE  PathInv'
  <2>1. CASE Refused(files)
    BY <1>11, <2>1 DEF WatchdogExpires, counts, PathInv
  <2>2. CASE ~Refused(files)
    BY <1>11, <2>2, RollbackKeepsPath DEF WatchdogExpires, Refused
  <2> QED
    BY <2>1, <2>2
<1>12. CASE UNCHANGED vars
  BY <1>12 DEF vars, PathInv
<1> QED
  BY <1>1, <1>2, <1>3, <1>4, <1>5, <1>6, <1>7, <1>8, <1>9, <1>10, <1>11, <1>12,
     InstallKeepsPath, EndKeepsPath
     DEF Next

LEMMA InitPath == Init => PathInv
  BY DEF Init, PathInv, None

(***************************************************************************)
(* The path the supervisors start from names an executable at all times    *)
(* except between the two renames of an installation, unless the Agent     *)
(* ended between two renames or a report had removed the backup the        *)
(* failing second rename would restore (updater.rs:628, manager.rs:405).   *)
(***************************************************************************)
THEOREM PathNamesExecutable == Spec => []PathHasExecutable
<1>1. PathInv => PathHasExecutable
  BY DEF PathInv, PathHasExecutable
<1> QED
  BY <1>1, AlwaysTyped, InitPath, NextKeepsPath, PTL DEF Spec

-----------------------------------------------------------------------------
(* Where the files and the processes are.                                  *)

\* A running process runs the file under its path.
Located(ps, fs) == \A p \in DOMAIN ps : ps[p].up /\ ps[p].at # "gone" => fs[ps[p].at] = ps[p].ver

RunsItsFile == Located(proc, files)
\* A working version installs, and its process lives as long as the installation.
UpdRuns     == upd.stage # "idle" => proc[Updater].up /\ proc[Updater].ver \notin broken
MarkedPath  == upd.stage = "marked" => upd.path = proc[Updater].at
MovedPath   == upd.stage = "moved" => files[upd.path] = None
NotBackup   == /\ upd.stage \in {"moved", "placed"} => upd.path # "backup"
               /\ proc[Updater].at = "backup" => upd.stage \in {"moved", "placed"}
Layout == RunsItsFile /\ UpdRuns /\ MarkedPath /\ MovedPath /\ NotBackup

LEMMA RenamedAt ==
    ASSUME NEW ps \in [Procs -> Process], NEW from, NEW to, NEW p \in Procs
    PROVE  /\ Renamed(ps, from, to)[p].up = ps[p].up
           /\ Renamed(ps, from, to)[p].ver = ps[p].ver
           /\ Renamed(ps, from, to)[p].at =
                 IF ~ps[p].up THEN ps[p].at
                 ELSE IF ps[p].at = from THEN to
                 ELSE IF ps[p].at = to THEN "gone" ELSE ps[p].at
  BY DEF Renamed, Process

\* A rename takes the processes along.
LEMMA RenamedLocated ==
    ASSUME NEW ps \in [Procs -> Process], NEW fs \in Files, Located(ps, fs),
           NEW from \in Paths, NEW to \in Paths, from # to
    PROVE  Located(Renamed(ps, from, to), [fs EXCEPT ![to] = fs[from], ![from] = None])
<1> DEFINE qs == Renamed(ps, from, to)
           gs == [fs EXCEPT ![to] = fs[from], ![from] = None]
<1>1. gs[to] = fs[from] /\ \A q \in Paths \ {from, to} : gs[q] = fs[q]
  BY DEF Files
<1>2. DOMAIN qs = Procs
  BY DEF Renamed
<1>3. ASSUME NEW p \in Procs, qs[p].up, qs[p].at # "gone"
      PROVE  gs[qs[p].at] = qs[p].ver
  <2>1. /\ ps[p].up /\ qs[p].ver = ps[p].ver
        /\ qs[p].at = IF ps[p].at = from THEN to
                      ELSE IF ps[p].at = to THEN "gone" ELSE ps[p].at
    BY <1>3, RenamedAt
  <2>2. ps[p].at \in Paths \cup {"gone"}
    BY DEF Process
  <2>3. "gone" \notin Paths
    BY DEF Paths
  <2>4. fs[ps[p].at] = ps[p].ver \/ ps[p].at = "gone"
    BY <2>1 DEF Located
  <2> HIDE DEF qs, gs
  <2> QED
    BY <1>1, <1>3, <2>1, <2>2, <2>3, <2>4
<1> HIDE DEF qs, gs
<1>4. Located(qs, gs)
  BY <1>2, <1>3 DEF Located
<1> QED
  BY <1>4 DEF qs, gs

\* The backup is removed; a process that still ran it has no path now.
LEMMA NoPath == "" \notin Paths \cup {"gone"}
  BY Zenon DEF Paths

LEMMA DroppedAt ==
    ASSUME NEW ps \in [Procs -> Process], NEW none, none \notin Paths \cup {"gone"},
           NEW p \in Procs
    PROVE  /\ Renamed(ps, none, "backup")[p].up = ps[p].up
           /\ Renamed(ps, none, "backup")[p].ver = ps[p].ver
           /\ Renamed(ps, none, "backup")[p].at =
                 IF ps[p].up /\ ps[p].at = "backup" THEN "gone" ELSE ps[p].at
<1>1. ps[p].at # none
  BY DEF Process
<1> QED
  BY <1>1, RenamedAt

LEMMA DroppedLocated ==
    ASSUME NEW ps \in [Procs -> Process], NEW fs \in Files, Located(ps, fs),
           NEW none, none \notin Paths \cup {"gone"}
    PROVE  Located(Renamed(ps, none, "backup"), [fs EXCEPT !.backup = None])
<1> DEFINE qs == Renamed(ps, none, "backup")
           gs == [fs EXCEPT !.backup = None]
<1>1. \A q \in Paths \ {"backup"} : gs[q] = fs[q]
  BY DEF Files
<1>2. DOMAIN qs = Procs
  BY DEF Renamed
<1>3. ASSUME NEW p \in Procs, qs[p].up, qs[p].at # "gone"
      PROVE  gs[qs[p].at] = qs[p].ver
  <2>1. ps[p].at \in Paths \cup {"gone"}
    BY DEF Process
  <2>2. /\ ps[p].up /\ qs[p].ver = ps[p].ver
        /\ qs[p].at = IF ps[p].at = "backup" THEN "gone" ELSE ps[p].at
    BY <1>3, DroppedAt
  <2>3. fs[ps[p].at] = ps[p].ver \/ ps[p].at = "gone"
    BY <2>2 DEF Located
  <2> HIDE DEF qs, gs
  <2> QED
    BY <1>1, <1>3, <2>1, <2>2, <2>3
<1> HIDE DEF qs, gs
<1>4. Located(qs, gs)
  BY <1>2, <1>3 DEF Located
<1> QED
  BY <1>4 DEF qs, gs

LEMMA RolledBackLocated ==
    ASSUME NEW ps \in [Procs -> Process], NEW fs \in Files, Located(ps, fs)
    PROVE  Located(RenamedBack(ps), RolledBack(fs))
<1> DEFINE qs == Renamed(ps, "binary", "failed")
           gs == [fs EXCEPT !["failed"] = fs["binary"], !["binary"] = None]
<1>1. Located(qs, gs)
  BY RenamedLocated DEF Paths
<1>2. gs \in Files /\ qs \in [Procs -> Process]
  BY RenamedType DEF Files, Known, Paths
<1>3. RolledBack(fs) = [gs EXCEPT !["binary"] = gs["backup"], !["backup"] = None]
  BY DEF RolledBack, Files, Paths
<1> HIDE DEF gs
<1>4. Located(Renamed(qs, "backup", "binary"),
              [gs EXCEPT !["binary"] = gs["backup"], !["backup"] = None])
  <2> HIDE DEF qs
  <2> QED
    BY <1>1, <1>2, RenamedLocated DEF Paths
<1> QED
  BY <1>3, <1>4 DEF RenamedBack

LEMMA DownLocated ==
    ASSUME NEW ps \in [Procs -> Process], NEW fs, Located(ps, fs), NEW who
    PROVE  Located(Down(ps, who), fs)
  BY DownType DEF Located, Down

LEMMA SameMode ==
    ASSUME mode' = mode
    PROVE  Procs' = Procs /\ Updater' = Updater
  BY DEF Procs, Updater

\* Between installations only the processes' paths matter.
LEMMA IdleLayout ==
    ASSUME mode' = mode, upd'.stage = "idle", Located(proc', files'),
           proc'[Updater].at # "backup"
    PROVE  Layout'
  BY SameMode DEF Layout, RunsItsFile, UpdRuns, MarkedPath, MovedPath, NotBackup

LEMMA SameLayout ==
    ASSUME Layout, UNCHANGED <<mode, broken, files, proc, upd>>
    PROVE  Layout'
  BY SameMode DEF Layout, RunsItsFile, UpdRuns, MarkedPath, MovedPath, NotBackup

LEMMA RunsLayout ==
    ASSUME Typed, Layout, NEW p \in Procs, Starts(p), Runs(p)
    PROVE  Layout'
<1> DEFINE f == [up |-> TRUE, ver |-> files[proc[p].at], at |-> proc[p].at]
<1>1. /\ proc' = [proc EXCEPT ![p] = f] /\ ~proc[p].up /\ proc \in [Procs -> Process]
      /\ UNCHANGED <<mode, broken, files, upd>>
  BY DEF Runs, Starts, Typed, ProcOK
<1>2. f.at = proc[p].at /\ f.ver = files[f.at]
  OBVIOUS
<1> HIDE DEF f
<1>3. Located(proc', files')
  BY <1>1, <1>2 DEF Layout, RunsItsFile, Located
<1>4. CASE p = Updater
  <2>1. upd.stage = "idle" /\ proc'[Updater].at # "backup"
    BY <1>1, <1>2, <1>4 DEF Layout, UpdRuns, NotBackup
  <2> QED
    BY <1>1, <1>3, <2>1, IdleLayout
<1>5. CASE p # Updater
  <2>1. proc'[Updater] = proc[Updater]
    BY <1>1, <1>5, ProcsAre DEF Typed
  <2> QED
    BY <1>1, <1>3, <2>1, SameMode
       DEF Layout, RunsItsFile, UpdRuns, MarkedPath, MovedPath, NotBackup
<1> QED
  BY <1>4, <1>5

\* Only the updater's process rolls back at its start.
LEMMA RollsBackIdle ==
    ASSUME Typed, Layout, NEW p \in Procs, RollsBack(p)
    PROVE  p = Updater /\ upd.stage = "idle" /\ ~proc[p].up
<1>1. p = Updater
  BY ProcsAre DEF RollsBack, MayWrite, Procs, Updater, Typed, ModeOK
<1> QED
  BY <1>1 DEF RollsBack, Starts, Layout, UpdRuns

LEMMA BootRollsBackLayout ==
    ASSUME Typed, Layout, NEW p \in Procs, BootRollsBack(p)
    PROVE  Layout'
<1> DEFINE ps == RenamedBack(proc)
<1>1. p = Updater /\ upd.stage = "idle" /\ ~proc[p].up
  BY RollsBackIdle DEF BootRollsBack
<1>2. /\ proc' = [ps EXCEPT ![p].at = "failed"] /\ files' = RolledBack(files)
      /\ mode' = mode /\ upd' = upd
  BY DEF BootRollsBack, counts
<1>3. files \in Files /\ proc \in [Procs -> Process]
  BY DEF Typed, FilesOK, ProcOK
<1>4. Located(ps, files')
  BY <1>2, <1>3, RolledBackLocated DEF Layout, RunsItsFile
<1>5. ps \in [Procs -> Process] /\ ~ps[p].up
  <2>1. /\ Renamed(proc, "binary", "failed") \in [Procs -> Process]
        /\ ~Renamed(proc, "binary", "failed")[p].up
    BY <1>1, <1>3, RenamedType DEF Paths
  <2> QED
    BY <2>1, RenamedType DEF RenamedBack, Paths
<1> HIDE DEF ps
<1>6. ~proc'[p].up /\ proc'[p].at = "failed" /\ \A q \in Procs \ {p} : proc'[q] = ps[q]
  BY <1>2, <1>5 DEF Process
<1>7. Located(proc', files')
  BY <1>2, <1>4, <1>5, <1>6 DEF Located
<1> QED
  BY <1>1, <1>2, <1>6, <1>7, IdleLayout

\* The rest of the backup's life: it is removed while everything else stays.
LEMMA DropLayout ==
    ASSUME Typed, Layout, UNCHANGED <<mode, broken, upd>>,
           NEW none, none \notin Paths \cup {"gone"},
           files' = [files EXCEPT !.backup = None],
           proc' = Renamed(proc, none, "backup")
    PROVE  Layout'
<1>1. files \in Files /\ proc \in [Procs -> Process] /\ Updater \in Procs
  BY ProcsAre DEF Typed, FilesOK, ProcOK
<1>2. Located(proc', files')
  BY <1>1, DroppedLocated DEF Layout, RunsItsFile
<1>3. /\ proc'[Updater].up = proc[Updater].up /\ proc'[Updater].ver = proc[Updater].ver
      /\ proc'[Updater].at = IF proc[Updater].up /\ proc[Updater].at = "backup" THEN "gone"
                             ELSE proc[Updater].at
  BY <1>1, DroppedAt
<1>4. upd.stage = "moved" => upd.path \in Paths /\ upd.path # "backup"
  BY DEF Typed, UpdOK, Layout, NotBackup
<1>5. \A q \in Paths \ {"backup"} : files'[q] = files[q]
  BY <1>1 DEF Files
<1>6. UpdRuns' /\ MarkedPath' /\ NotBackup'
  BY <1>3, SameMode DEF Layout, UpdRuns, MarkedPath, NotBackup
<1>7. MovedPath'
  BY <1>4, <1>5 DEF Layout, MovedPath
<1> QED
  BY <1>2, <1>6, <1>7 DEF Layout, RunsItsFile

LEMMA MarkPendingLayout ==
    ASSUME Typed, Layout, NEW v \in Versions, MarkPending(v)
    PROVE  Layout'
<1>1. /\ UNCHANGED <<mode, broken, files, proc>>
      /\ upd' = [stage |-> "marked", path |-> proc[Updater].at, ver |-> v]
      /\ proc[Updater].up /\ proc[Updater].ver \notin broken /\ upd.stage = "idle"
  BY DEF MarkPending, Up
<1>2. upd'.stage = "marked" /\ upd'.path = proc[Updater].at
  BY <1>1
<1> QED
  BY <1>1, <1>2, SameMode
     DEF Layout, RunsItsFile, UpdRuns, MarkedPath, MovedPath, NotBackup

\* What an installation moves away is the file its own process runs.
LEMMA BackupMoves ==
    ASSUME Typed, Layout, Backup, upd.path # "gone", files[upd.path] # None
    PROVE  /\ upd.path \in Paths /\ upd.path # "backup"
           /\ upd.path = proc[Updater].at /\ proc[Updater].up
           /\ files[upd.path] = proc[Updater].ver /\ proc[Updater].ver \notin broken
           /\ upd'.stage = "moved" /\ upd'.path = upd.path /\ upd'.ver = upd.ver
           /\ files' = [files EXCEPT !["backup"] = files[upd.path], ![upd.path] = None]
           /\ proc' = Renamed(proc, upd.path, "backup")
<1>1. upd.stage = "marked" /\ upd \in Install /\ proc \in [Procs -> Process]
  BY DEF Backup, Typed, UpdOK, ProcOK
<1>2. upd.path = proc[Updater].at /\ upd.path # "backup" /\ proc[Updater].up
      /\ proc[Updater].ver \notin broken
  BY <1>1 DEF Layout, MarkedPath, NotBackup, UpdRuns
<1>3. upd.path \in Paths
  BY <1>1 DEF Install
<1>4. files[upd.path] = proc[Updater].ver
  BY <1>1, <1>2, ProcsAre DEF Layout, RunsItsFile, Located, Typed
<1>5. upd' = [upd EXCEPT !.stage = "moved"]
  BY DEF Backup
<1>6. upd'.stage = "moved" /\ upd'.path = upd.path /\ upd'.ver = upd.ver
  BY <1>1, <1>5 DEF Install
<1> QED
  BY <1>2, <1>3, <1>4, <1>6 DEF Backup

LEMMA BackupLayout ==
    ASSUME Typed, Layout, Backup
    PROVE  Layout'
<1>1. /\ files \in Files /\ proc \in [Procs -> Process] /\ Updater \in Procs
      /\ mode' = mode /\ broken' = broken
  BY ProcsAre DEF Backup, counts, Typed, FilesOK, ProcOK
<1>2. CASE upd.path # "gone" /\ files[upd.path] # None
  <2>1. /\ upd.path \in Paths /\ upd.path # "backup"
        /\ upd.path = proc[Updater].at /\ proc[Updater].up /\ proc[Updater].ver \notin broken
        /\ upd'.stage = "moved" /\ upd'.path = upd.path
        /\ files' = [files EXCEPT !["backup"] = files[upd.path], ![upd.path] = None]
        /\ proc' = Renamed(proc, upd.path, "backup")
    BY <1>2, BackupMoves
  <2>2. Located(proc', files')
    BY <1>1, <2>1, RenamedLocated DEF Layout, RunsItsFile, Paths
  <2>3. proc'[Updater].up /\ proc'[Updater].ver = proc[Updater].ver
    BY <1>1, <2>1, RenamedAt
  <2>4. files'[upd.path] = None
    BY <1>1, <2>1 DEF Files
  <2> QED
    BY <1>1, <2>1, <2>2, <2>3, <2>4, SameMode
       DEF Layout, RunsItsFile, UpdRuns, MarkedPath, MovedPath, NotBackup
<1>3. CASE ~(upd.path # "gone" /\ files[upd.path] # None)
  <2>1. /\ files' = [files EXCEPT !.backup = None] /\ upd' = Idle
        /\ proc' = Renamed(proc, "", "backup") /\ upd.stage = "marked"
    BY <1>3, Zenon DEF Backup
  <2> DEFINE none == ""
  <2>2. none \notin Paths \cup {"gone"} /\ proc' = Renamed(proc, none, "backup")
    BY <2>1, NoPath, Zenon
  <2> HIDE DEF none
  <2>3. Located(proc', files')
    <3>1. files' = [files EXCEPT !.backup = None]
      BY <2>1
    <3> QED
      BY <1>1, <2>2, <3>1, DroppedLocated DEF Layout, RunsItsFile
  <2>4. proc'[Updater].at # "backup"
    <3>1. proc[Updater].at # "backup"
      BY <2>1, Zenon DEF Layout, NotBackup
    <3> QED
      BY <1>1, <2>2, <3>1, DroppedAt
  <2>5. upd'.stage = "idle"
    BY <2>1 DEF Idle
  <2> QED
    BY <1>1, <2>3, <2>4, <2>5, IdleLayout
<1> QED
  BY <1>2, <1>3

LEMMA PlaceLayout ==
    ASSUME Typed, Layout, Place
    PROVE  Layout'
<1>1. /\ UNCHANGED <<mode, broken, proc>> /\ upd.stage = "moved"
      /\ files' = [files EXCEPT ![upd.path] = upd.ver]
      /\ upd' = [upd EXCEPT !.stage = "placed"]
  BY DEF Place
<1>2. /\ files \in Files /\ proc \in [Procs -> Process] /\ upd \in Install
      /\ upd.path \in Paths /\ files[upd.path] = None
  BY <1>1 DEF Typed, FilesOK, ProcOK, UpdOK, Layout, MovedPath
<1>3. upd'.stage = "placed" /\ upd'.path = upd.path
  BY <1>1, <1>2 DEF Install
<1>4. Located(proc', files')
  <2>1. ASSUME NEW p \in Procs, proc[p].up, proc[p].at # "gone"
        PROVE  files'[proc[p].at] = proc[p].ver
    <3>1. files[proc[p].at] = proc[p].ver /\ proc[p].ver # None
      BY <1>2, <2>1, Bounds DEF Layout, RunsItsFile, Located, Typed, ProcOK
    <3>2. proc[p].at # upd.path /\ proc[p].at \in Paths
      BY <1>2, <2>1, <3>1 DEF Process
    <3> QED
      BY <1>1, <1>2, <3>1, <3>2 DEF Files
  <2> QED
    BY <1>1, <1>2, <2>1 DEF Located
<1> QED
  BY <1>1, <1>3, <1>4, SameMode
     DEF Layout, RunsItsFile, UpdRuns, MarkedPath, MovedPath, NotBackup

LEMMA PlaceFailsLayout ==
    ASSUME Typed, Layout, PlaceFails
    PROVE  Layout'
<1>1. /\ mode' = mode /\ broken' = broken /\ upd.stage = "moved" /\ upd' = Idle
      /\ files' = [files EXCEPT ![upd.path] = files["backup"], !["backup"] = None]
      /\ proc' = Renamed(proc, "backup", upd.path)
  BY DEF PlaceFails, PutBack
<1>2. /\ files \in Files /\ proc \in [Procs -> Process] /\ Updater \in Procs
      /\ upd.path \in Paths /\ upd.path # "backup" /\ proc[Updater].up
  BY <1>1, ProcsAre DEF Typed, FilesOK, ProcOK, UpdOK, Layout, NotBackup, UpdRuns
<1>3. Located(proc', files')
  BY <1>1, <1>2, RenamedLocated DEF Layout, RunsItsFile, Paths
<1>4. proc'[Updater].at # "backup"
  BY <1>1, <1>2, RenamedAt
<1> QED
  BY <1>1, <1>3, <1>4, IdleLayout DEF Idle

LEMMA ReexecLayout ==
    ASSUME Typed, Layout, Reexec
    PROVE  Layout'
<1> DEFINE f == [up |-> FALSE, ver |-> None, at |-> upd.path]
<1>1. /\ mode' = mode /\ files' = files /\ upd.stage = "placed" /\ upd' = Idle
      /\ proc' = [proc EXCEPT ![Updater] = f]
  BY DEF Reexec, counts
<1>2. ~f.up /\ f.at # "backup"
  BY <1>1 DEF Layout, NotBackup
<1>3. proc \in [Procs -> Process] /\ Updater \in Procs
  BY ProcsAre DEF Typed, ProcOK
<1> HIDE DEF f
<1>4. Located(proc', files') /\ proc'[Updater].at # "backup"
  BY <1>1, <1>2, <1>3 DEF Layout, RunsItsFile, Located
<1> QED
  BY <1>1, <1>4, IdleLayout DEF Idle

\* The new files are started by processes that ended.
LEMMA HandoverDown ==
    ASSUME Typed, Handover
    PROVE  /\ \A p \in Procs : ~proc'[p].up /\ DOMAIN proc' = Procs
           /\ proc'["manager"].at = upd.path /\ "manager" \in Procs /\ Updater = "manager"
<1> DEFINE ps == Down(proc, {"telemetry", "manager"})
<1>1. proc' = [ps EXCEPT !["manager"].at = upd.path] /\ mode = "managed"
  BY DEF Handover
<1>2. ps \in [Procs -> Process] /\ "manager" \in Procs /\ \A p \in Procs : ~ps[p].up
  BY <1>1, DownType DEF Typed, ProcOK, Procs
<1> HIDE DEF ps
<1> QED
  BY <1>1, <1>2 DEF Process, Updater

LEMMA HandoverLayout ==
    ASSUME Typed, Layout, Handover
    PROVE  Layout'
<1>1. mode' = mode /\ files' = files /\ upd.stage = "placed" /\ upd' = Idle
  BY DEF Handover, counts
<1>2. upd.path # "backup"
  BY <1>1 DEF Layout, NotBackup
<1>3. Located(proc', files') /\ proc'[Updater].at # "backup"
  BY <1>2, HandoverDown DEF Located
<1> QED
  BY <1>1, <1>3, IdleLayout DEF Idle

LEMMA HandoverFailsLayout ==
    ASSUME Typed, Layout, HandoverFails
    PROVE  Layout'
<1> DEFINE ps == IF Refused(files) THEN proc ELSE RenamedBack(proc)
<1>1. /\ mode' = mode /\ mode = "managed" /\ upd' = Idle /\ proc' = Down(ps, {"manager"})
      /\ files' = IF Refused(files) THEN files ELSE RolledBack(files)
  BY DEF HandoverFails, counts
<1>2. files \in Files /\ proc \in [Procs -> Process] /\ Updater = "manager" /\ Updater \in Procs
  BY <1>1, ProcsAre DEF Typed, FilesOK, ProcOK, Updater
<1>3. ps \in [Procs -> Process] /\ Located(ps, files')
  <2>1. Renamed(proc, "binary", "failed") \in [Procs -> Process]
    BY <1>2, RenamedType DEF Paths
  <2>2. RenamedBack(proc) \in [Procs -> Process]
    BY <1>2, <2>1, RenamedType DEF RenamedBack, Paths
  <2>3. Located(RenamedBack(proc), RolledBack(files)) /\ Located(proc, files)
    BY <1>2, RolledBackLocated DEF Layout, RunsItsFile
  <2> QED
    BY <1>1, <1>2, <2>2, <2>3
<1> HIDE DEF ps
<1>4. Located(proc', files')
  BY <1>1, <1>3, DownLocated
<1>5. proc'[Updater].at = "binary"
  <2>1. ps \in [Procs -> Process] /\ "manager" \in Procs
    BY <1>2, <1>3
  <2>2. Down(ps, {"manager"})["manager"].at = "binary"
    BY <2>1, DownType
  <2> QED
    BY <1>1, <1>2, <2>2
<1> QED
  BY <1>1, <1>4, <1>5, IdleLayout DEF Idle

LEMMA ReportLayout ==
    ASSUME Typed, Layout, Report
    PROVE  Layout'
<1>1. UNCHANGED <<mode, broken, upd>>
  BY DEF Report
<1>2. CASE mode = "rootless"
  <2>1. files' = [files EXCEPT !.backup = None] /\ proc' = Renamed(proc, "", "backup")
    <3>1. IF mode = "rootless"
          THEN files' = [files EXCEPT !.backup = None] /\ proc' = Renamed(proc, "", "backup")
          ELSE UNCHANGED <<files, proc>>
      BY Zenon DEF Report
    <3> QED
      BY <1>2, <3>1, Zenon
  <2> QED
    BY <1>1, <2>1, NoPath, DropLayout
<1>3. CASE mode # "rootless"
  BY <1>1, <1>3, SameLayout DEF Report
<1> QED
  BY <1>2, <1>3

LEMMA WatchdogConfirmsLayout ==
    ASSUME Typed, Layout, NEW w \in watch, WatchdogConfirms(w)
    PROVE  Layout'
<1>1. /\ UNCHANGED <<mode, broken, upd>>
      /\ files' = [files EXCEPT !.backup = None] /\ proc' = Renamed(proc, "", "backup")
  BY Zenon DEF WatchdogConfirms
<1> QED
  BY <1>1, NoPath, DropLayout

\* Everything ended.
LEMMA AllDownLayout ==
    ASSUME Typed, mode' = mode, upd' = Idle, proc' = Down(proc, Procs)
    PROVE  Layout'
<1>1. DOMAIN proc' = Procs /\ \A p \in Procs : ~proc'[p].up /\ proc'[p].at = "binary"
  BY DownType DEF Typed, ProcOK
<1> QED
  BY <1>1, ProcsAre, IdleLayout DEF Located, Idle, Typed

LEMMA WatchdogExpiresLayout ==
    ASSUME Typed, Layout, NEW w \in watch, WatchdogExpires(w)
    PROVE  Layout'
<1>1. CASE Refused(files)
  BY <1>1, SameLayout DEF WatchdogExpires, counts
<1>2. CASE ~Refused(files)
  BY <1>2, AllDownLayout DEF WatchdogExpires, counts
<1> QED
  BY <1>1, <1>2

LEMMA KillLayout ==
    ASSUME Typed, Layout, NEW p \in Procs, Kill(p)
    PROVE  Layout'
<1>1. /\ UNCHANGED <<mode, broken, files>> /\ proc' = Down(proc, {p})
      /\ upd' = IF p = Updater THEN Idle ELSE upd
  BY DEF Kill
<1>2. proc \in [Procs -> Process] /\ Updater \in Procs
  BY ProcsAre DEF Typed, ProcOK
<1>3. Located(proc', files')
  BY <1>1, <1>2, DownLocated DEF Layout, RunsItsFile
<1>4. CASE p = Updater
  BY <1>1, <1>2, <1>3, <1>4, DownType, IdleLayout DEF Idle
<1>5. CASE p # Updater
  <2>1. proc'[Updater] = proc[Updater] /\ upd' = upd
    BY <1>1, <1>2, <1>5, DownType
  <2> QED
    BY <1>1, <1>3, <2>1, SameMode
       DEF Layout, RunsItsFile, UpdRuns, MarkedPath, MovedPath, NotBackup
<1> QED
  BY <1>4, <1>5

LEMMA TickLayout ==
    ASSUME Typed, Layout, Tick
    PROVE  Layout'
<1> DEFINE dead == {p \in Procs : proc[p].ver \in broken}
<1>1. /\ mode' = mode /\ files' = files /\ proc' = Down(proc, dead) /\ upd' = upd
      /\ upd.stage = "idle"
  BY DEF Tick, Settled, counts
<1> HIDE DEF dead
<1>2. proc \in [Procs -> Process] /\ Updater \in Procs
  BY ProcsAre DEF Typed, ProcOK
<1>3. Located(proc', files')
  BY <1>1, <1>2, DownLocated DEF Layout, RunsItsFile
<1>4. proc'[Updater].at # "backup"
  BY <1>1, <1>2, DownType DEF Layout, NotBackup
<1> QED
  BY <1>1, <1>3, <1>4, IdleLayout

LEMMA NextLayout ==
    ASSUME Typed, Layout, [Next]_vars
    PROVE  Layout'
<1>1. ASSUME NEW p \in Procs, Boot(p) \/ BootClears(p)
      PROVE  Layout'
  BY <1>1, RunsLayout DEF Boot, BootClears
<1>2. ASSUME NEW p \in Procs, BootRollsBack(p) \/ Kill(p)
      PROVE  Layout'
  BY <1>2, BootRollsBackLayout, KillLayout
<1>3. ASSUME NEW v \in Versions, MarkPending(v)
      PROVE  Layout'
  BY <1>3, MarkPendingLayout
<1>4. CASE Backup \/ Place \/ PlaceFails \/ Reexec \/ Handover \/ HandoverFails
  BY <1>4, BackupLayout, PlaceLayout, PlaceFailsLayout, ReexecLayout, HandoverLayout,
     HandoverFailsLayout
<1>5. CASE Report
  BY <1>5, ReportLayout
<1>6. CASE Look \/ Confirm
  BY <1>6, SameLayout DEF Look, Confirm, counts
<1>7. ASSUME NEW w \in watch, WatchdogConfirms(w) \/ WatchdogExpires(w)
      PROVE  Layout'
  BY <1>7, WatchdogConfirmsLayout, WatchdogExpiresLayout
<1>8. CASE PowerLoss
  BY <1>8, AllDownLayout DEF PowerLoss
<1>9. CASE Tick
  BY <1>9, TickLayout
<1>10. CASE UNCHANGED vars
  BY <1>10, SameLayout DEF vars
<1> QED
  BY <1>1, <1>2, <1>3, <1>4, <1>5, <1>6, <1>7, <1>8, <1>9, <1>10 DEF Next

LEMMA InitLayout == Init => Layout
<1> SUFFICES ASSUME Init PROVE Layout
  OBVIOUS
<1>1. /\ upd.stage = "idle" /\ mode \in {"managed", "rootless"}
      /\ proc = [p \in Procs |-> [up |-> FALSE, ver |-> None, at |-> "binary"]]
  BY DEF Init, Idle
<1>2. Updater \in Procs
  BY <1>1 DEF Updater, Procs
<1> QED
  BY <1>1, <1>2 DEF Layout, RunsItsFile, Located, UpdRuns, MarkedPath, MovedPath, NotBackup

-----------------------------------------------------------------------------
(* A version that does not work can be left.                               *)

Lost == raced \/ cut
\* What is put back, and what a manager vouches for, works.
BackupWorks    == files["backup"] \notin broken
ConfirmedWorks == confirmed \notin broken
\* A version that does not work ends within the tick of its start.
BrokenIsYoung  == proc[Updater].up /\ proc[Updater].ver \in broken => age = 0
Works == BackupWorks /\ ConfirmedWorks /\ BrokenIsYoung

\* It is the service's file only since an installation that is over or about to be.
WhereBroken == files["binary"] \in broken =>
    \/ cut
    \/ upd.stage = "placed" /\ upd.path = "binary"
    \/ upd.stage = "idle" /\ proc[Updater].at = "binary"
\* The marker that names it and the backup are there, from the installation on.
BrokenMarked == files["binary"] \in broken =>
    Lost \/ (files["backup"] # None /\ \E k \in marker : k.ver = files["binary"])
UpdMarked == upd.ver \in broken /\ upd.stage # "idle" => Lost \/ \E k \in marker : k.ver = upd.ver
UpdBackup == upd.ver \in broken /\ upd.stage \in {"moved", "placed"} => Lost \/ files["backup"] # None
Marks == BrokenMarked /\ UpdMarked /\ UpdBackup
Fallback == Works /\ WhereBroken /\ Marks

LEMMA NoneWorks ==
    ASSUME Typed
    PROVE  None \notin broken
  BY Bounds DEF Typed, ModeOK

\* Except for the starts and the ticks no process begins a life.
LEMMA UpdaterStays ==
    ASSUME Typed, Next,
           ~ \E p \in Procs : Boot(p) \/ BootClears(p),
           ~ Tick
    PROVE  /\ mode' = mode /\ broken' = broken /\ age' = age
           /\ proc'[Updater].up => /\ proc[Updater].up
                                   /\ proc'[Updater].ver = proc[Updater].ver
<1> DEFINE Goal == /\ mode' = mode /\ broken' = broken /\ age' = age
                   /\ proc'[Updater].up => /\ proc[Updater].up
                                           /\ proc'[Updater].ver = proc[Updater].ver
<1>1. proc \in [Procs -> Process] /\ Updater \in Procs
  BY ProcsAre DEF Typed, ProcOK
<1>2. ASSUME NEW from, NEW to \in Paths, proc' = Renamed(proc, from, to)
      PROVE  proc'[Updater].up => proc[Updater].up /\ proc'[Updater].ver = proc[Updater].ver
  BY <1>1, <1>2, RenamedAt
<1>3. ASSUME NEW ps \in [Procs -> Process], NEW who, proc' = Down(ps, who),
             \A p \in Procs : ps[p].up = proc[p].up /\ ps[p].ver = proc[p].ver
      PROVE  proc'[Updater].up => proc[Updater].up /\ proc'[Updater].ver = proc[Updater].ver
  BY <1>1, <1>3, DownType
<1>4. /\ RenamedBack(proc) \in [Procs -> Process]
      /\ \A p \in Procs : /\ RenamedBack(proc)[p].up = proc[p].up
                          /\ RenamedBack(proc)[p].ver = proc[p].ver
  <2>1. Renamed(proc, "binary", "failed") \in [Procs -> Process]
    BY <1>1, RenamedType DEF Paths
  <2> QED
    BY <1>1, <2>1, RenamedType DEF RenamedBack, Paths
<1>5. ASSUME NEW p \in Procs, BootRollsBack(p)
      PROVE  Goal
  <2>1. /\ proc' = [RenamedBack(proc) EXCEPT ![p].at = "failed"]
        /\ mode' = mode /\ broken' = broken /\ age' = age
    BY <1>5 DEF BootRollsBack, counts
  <2>2. proc'[Updater].up = RenamedBack(proc)[Updater].up
        /\ proc'[Updater].ver = RenamedBack(proc)[Updater].ver
    BY <1>1, <1>4, <2>1 DEF Process
  <2> QED
    BY <1>1, <1>4, <2>1, <2>2
<1>6. ASSUME NEW v \in Versions, MarkPending(v)
      PROVE  Goal
  BY <1>6 DEF MarkPending
<1>7. CASE Backup
  <2>1. mode' = mode /\ broken' = broken /\ age' = age
    BY <1>7 DEF Backup, counts
  <2>2. \E from : proc' = Renamed(proc, from, "backup")
    BY <1>7, Zenon DEF Backup
  <2> QED
    BY <1>2, <2>1, <2>2 DEF Paths
<1>8. CASE Place \/ Look \/ Confirm
  BY <1>8 DEF Place, Look, Confirm, counts
<1>9. CASE PlaceFails
  <2>1. upd.path \in Paths
    BY <1>9 DEF PlaceFails, Typed, UpdOK
  <2> QED
    BY <1>2, <1>9, <2>1 DEF PlaceFails
<1>10. CASE Reexec
  BY <1>1, <1>10 DEF Reexec, counts
<1>11. CASE Handover
  BY <1>11, HandoverDown, <1>1 DEF Handover, counts
<1>12. CASE HandoverFails
  <2> DEFINE ps == IF Refused(files) THEN proc ELSE RenamedBack(proc)
  <2>1. proc' = Down(ps, {"manager"}) /\ mode' = mode /\ broken' = broken /\ age' = age
    BY <1>12 DEF HandoverFails, counts
  <2>2. ps \in [Procs -> Process]
        /\ \A p \in Procs : ps[p].up = proc[p].up /\ ps[p].ver = proc[p].ver
    BY <1>1, <1>4
  <2> HIDE DEF ps
  <2> QED
    BY <1>3, <2>1, <2>2
<1>13. CASE Report
  <2>1. mode' = mode /\ broken' = broken /\ age' = age
    BY <1>13 DEF Report
  <2>2. proc' = proc \/ \E from : proc' = Renamed(proc, from, "backup")
    BY <1>13, Zenon DEF Report
  <2> QED
    BY <1>2, <2>1, <2>2 DEF Paths
<1>14. ASSUME NEW w \in watch, WatchdogConfirms(w)
       PROVE  Goal
  <2>1. mode' = mode /\ broken' = broken /\ age' = age
    BY <1>14 DEF WatchdogConfirms
  <2>2. \E from : proc' = Renamed(proc, from, "backup")
    BY <1>14, Zenon DEF WatchdogConfirms
  <2> QED
    BY <1>2, <2>1, <2>2 DEF Paths
<1>15. ASSUME NEW w \in watch, WatchdogExpires(w)
       PROVE  Goal
  <2>1. mode' = mode /\ broken' = broken /\ age' = age
    BY <1>15 DEF WatchdogExpires, counts
  <2>2. proc' = proc \/ proc' = Down(proc, Procs)
    BY <1>15 DEF WatchdogExpires
  <2> QED
    BY <1>1, <1>3, <2>1, <2>2
<1>16. ASSUME NEW p \in Procs, Kill(p)
       PROVE  Goal
  <2>1. proc' = Down(proc, {p}) /\ mode' = mode /\ broken' = broken /\ age' = age
    BY <1>16 DEF Kill
  <2> QED
    BY <1>1, <1>3, <2>1
<1>17. CASE PowerLoss
  <2>1. proc' = Down(proc, Procs) /\ mode' = mode /\ broken' = broken /\ age' = age
    BY <1>17 DEF PowerLoss
  <2> QED
    BY <1>1, <1>3, <2>1
<1> HIDE DEF Goal
<1>18. ASSUME NEW p \in Procs, Boot(p) \/ BootClears(p) \/ BootRollsBack(p) \/ Kill(p)
       PROVE  Goal
  BY <1>5, <1>16, <1>18, Zenon
<1>19. ASSUME NEW w \in watch, WatchdogConfirms(w) \/ WatchdogExpires(w)
       PROVE  Goal
  BY <1>14, <1>15, <1>19, Zenon
<1>20. CASE \/ Backup \/ Place \/ PlaceFails \/ Reexec \/ Handover \/ HandoverFails
             \/ Report \/ Look \/ Confirm
  BY <1>7, <1>8, <1>9, <1>10, <1>11, <1>12, <1>13, <1>20, Zenon
<1> QED
  BY <1>6, <1>17, <1>18, <1>19, <1>20, Zenon DEF Next, Goal

\* A backup comes from the file an installing process runs, or not at all.
LEMMA BackupNext ==
    ASSUME Typed, Layout, Next
    PROVE  /\ broken' = broken
           /\ \/ files'["backup"] \in {files["backup"], None}
              \/ files'["backup"] = proc[Updater].ver /\ proc[Updater].ver \notin broken
<1> DEFINE Goal == /\ broken' = broken
                   /\ \/ files'["backup"] \in {files["backup"], None}
                      \/ files'["backup"] = proc[Updater].ver /\ proc[Updater].ver \notin broken
<1>1. files \in Files
  BY DEF Typed, FilesOK
<1>2. files' = [files EXCEPT !.backup = None] => files'["backup"] = None
  BY <1>1 DEF Files, Paths
<1>3. files' = RolledBack(files) => files'["backup"] = None
  BY <1>1 DEF RolledBack, Files, Paths
<1>4. ASSUME NEW p \in Procs, Boot(p) \/ BootClears(p) \/ BootRollsBack(p) \/ Kill(p)
      PROVE  Goal
  <2>1. broken' = broken /\ (files' = files \/ files' = RolledBack(files))
    BY <1>4 DEF Boot, BootClears, BootRollsBack, Kill, Runs, counts
  <2> QED
    BY <1>3, <2>1
<1>5. ASSUME NEW v \in Versions, MarkPending(v)
      PROVE  Goal
  BY <1>5 DEF MarkPending
<1>6. CASE Backup
  <2>0. broken' = broken
    BY <1>6 DEF Backup, counts
  <2>1. CASE upd.path # "gone" /\ files[upd.path] # None
    <3>1. /\ upd.path \in Paths /\ upd.path # "backup"
          /\ files[upd.path] = proc[Updater].ver /\ proc[Updater].ver \notin broken
          /\ files' = [files EXCEPT !["backup"] = files[upd.path], ![upd.path] = None]
      BY <1>6, <2>1, BackupMoves
    <3>2. files'["backup"] = files[upd.path]
      BY <1>1, <3>1 DEF Files, Paths
    <3> QED
      BY <2>0, <3>1, <3>2
  <2>2. CASE ~(upd.path # "gone" /\ files[upd.path] # None)
    <3>1. files' = [files EXCEPT !.backup = None]
      BY <1>6, <2>2 DEF Backup
    <3> QED
      BY <1>2, <2>0, <3>1
  <2> QED
    BY <2>1, <2>2
<1>7. CASE Place
  <2>1. /\ broken' = broken /\ upd.path \in Paths /\ upd.path # "backup"
        /\ files' = [files EXCEPT ![upd.path] = upd.ver]
    BY <1>7 DEF Place, Typed, UpdOK, Layout, NotBackup
  <2> QED
    BY <1>1, <2>1 DEF Files, Paths
<1>8. CASE PlaceFails
  <2>1. /\ broken' = broken
        /\ files' = [files EXCEPT ![upd.path] = files["backup"], !["backup"] = None]
    BY <1>8 DEF PlaceFails, PutBack
  <2> QED
    BY <1>1, <2>1 DEF Files, Paths
<1>9. CASE Reexec \/ Handover \/ Look \/ Confirm \/ Tick
  BY <1>9 DEF Reexec, Handover, Look, Confirm, Tick, counts
<1>10. CASE HandoverFails
  <2>1. broken' = broken /\ (files' = files \/ files' = RolledBack(files))
    BY <1>10 DEF HandoverFails, counts
  <2> QED
    BY <1>3, <2>1
<1>11. CASE Report
  <2>1. broken' = broken /\ (files' = files \/ files' = [files EXCEPT !.backup = None])
    BY <1>11 DEF Report
  <2> QED
    BY <1>2, <2>1
<1>12. ASSUME NEW w \in watch, WatchdogConfirms(w) \/ WatchdogExpires(w)
       PROVE  Goal
  <2>1. /\ broken' = broken
        /\ files' = files \/ files' = RolledBack(files) \/ files' = [files EXCEPT !.backup = None]
    BY <1>12 DEF WatchdogConfirms, WatchdogExpires, counts
  <2> QED
    BY <1>2, <1>3, <2>1
<1>13. CASE PowerLoss
  <2>1. /\ broken' = broken
        /\ \/ files' = files
           \/ files' = [files EXCEPT !.failed = files.binary, !.binary = None]
    BY <1>13 DEF PowerLoss
  <2> QED
    BY <1>1, <2>1 DEF Files, Paths
<1> QED
  BY <1>4, <1>5, <1>6, <1>7, <1>8, <1>9, <1>10, <1>11, <1>12, <1>13, Zenon DEF Next, Goal

LEMMA NextWorks ==
    ASSUME Typed, Layout, Works, [Next]_vars
    PROVE  Works'
<1>1. CASE UNCHANGED vars
  BY <1>1, SameMode DEF vars, Works, BackupWorks, ConfirmedWorks, BrokenIsYoung
<1>2. CASE Next
  <2>1. BackupWorks' /\ broken' = broken
    <3>1. /\ broken' = broken
          /\ \/ files'["backup"] \in {files["backup"], None}
             \/ files'["backup"] = proc[Updater].ver /\ proc[Updater].ver \notin broken
      BY <1>2, BackupNext
    <3> QED
      BY <3>1, NoneWorks DEF Works, BackupWorks
  <2>2. ConfirmedWorks'
    <3>1. CASE Confirm
      <4>1. /\ confirmed' = proc["manager"].ver /\ look = "watching" /\ age >= ConfirmAt
        BY <3>1 DEF Confirm
      <4>2. mode = "managed" /\ proc["manager"].up /\ age # 0
        BY <4>1, UpdateAssumption DEF Typed, LookOK, CountOK, ConfirmAt
      <4> QED
        BY <2>1, <4>1, <4>2 DEF Works, BrokenIsYoung, ConfirmedWorks, Updater
    <3>2. ~Confirm => confirmed' \in {confirmed, None}
      <4>1. ASSUME NEW p \in Procs, Boot(p) \/ BootClears(p) \/ BootRollsBack(p) \/ Kill(p)
            PROVE  confirmed' = confirmed
        BY <4>1 DEF Boot, BootClears, BootRollsBack, Kill, Runs
      <4>2. ASSUME NEW v \in Versions, MarkPending(v)
            PROVE  confirmed' = confirmed
        BY <4>2 DEF MarkPending
      <4>3. CASE Backup \/ Place \/ PlaceFails \/ Reexec \/ Handover \/ HandoverFails
        BY <4>3 DEF Backup, Place, PlaceFails, Reexec, Handover, HandoverFails
      <4>4. CASE Report \/ Look \/ PowerLoss \/ Tick
        BY <4>4 DEF Report, Look, PowerLoss, Tick
      <4>5. ASSUME NEW w \in watch, WatchdogConfirms(w) \/ WatchdogExpires(w)
            PROVE  confirmed' \in {confirmed, None}
        BY <4>5 DEF WatchdogConfirms, WatchdogExpires
      <4> QED
        BY <1>2, <4>1, <4>2, <4>3, <4>4, <4>5 DEF Next
    <3>3. CASE ~Confirm
      BY <2>1, <3>2, <3>3, NoneWorks DEF Works, ConfirmedWorks
    <3> QED
      BY <3>1, <3>3
  <2>3. BrokenIsYoung'
    <3>1. ASSUME NEW p \in Procs, Boot(p) \/ BootClears(p)
          PROVE  BrokenIsYoung'
      <4>1. /\ Runs(p) /\ mode' = mode /\ proc \in [Procs -> Process]
            /\ age' = IF p = Updater THEN 0 ELSE age
        BY <3>1 DEF Boot, BootClears, Runs, Typed, ProcOK
      <4>2. p # Updater => proc'[Updater] = proc[Updater]
        BY <4>1, ProcsAre DEF Runs, Typed
      <4> QED
        BY <2>1, <4>1, <4>2, SameMode DEF Works, BrokenIsYoung
    <3>2. CASE Tick
      <4>1. Updater \in Procs /\ proc \in [Procs -> Process] /\ mode' = mode
            /\ proc' = Down(proc, {p \in Procs : proc[p].ver \in broken})
        BY <3>2, ProcsAre DEF Tick, counts, Typed, ProcOK
      <4>2. ~(proc'[Updater].up /\ proc'[Updater].ver \in broken)
        BY <4>1, DownType
      <4> QED
        BY <2>1, <4>1, <4>2, SameMode DEF BrokenIsYoung
    <3>3. CASE ~Tick /\ ~ \E p \in Procs : Boot(p) \/ BootClears(p)
      <4>1. /\ mode' = mode /\ age' = age
            /\ proc'[Updater].up => /\ proc[Updater].up
                                    /\ proc'[Updater].ver = proc[Updater].ver
        BY <1>2, <3>3, UpdaterStays
      <4> QED
        BY <2>1, <4>1, SameMode DEF Works, BrokenIsYoung
    <3> QED
      BY <3>1, <3>2, <3>3
  <2> QED
    BY <2>1, <2>2, <2>3 DEF Works
<1> QED
  BY <1>1, <1>2

\* Where no installation runs and the service's file works, there is nothing to show.
LEMMA RestMarks ==
    ASSUME upd'.stage = "idle", files'["binary"] \notin broken'
    PROVE  WhereBroken' /\ Marks'
  BY DEF WhereBroken, Marks, BrokenMarked, UpdMarked, UpdBackup

LEMMA RollbackMarks ==
    ASSUME Typed, Works, broken' = broken, upd'.stage = "idle", files' = RolledBack(files)
    PROVE  WhereBroken' /\ Marks'
<1>1. files'["binary"] = files["backup"]
  BY RolledBackType DEF Typed, FilesOK
<1> QED
  BY <1>1, RestMarks DEF Works, BackupWorks

\* An installation about to begin or to move its file away starts from a working
\* one, or from the path a torn rename left.
LEMMA InstallsFromWorking ==
    ASSUME Typed, Layout, WhereBroken, files["binary"] \in broken,
           \/ upd.stage \in {"marked", "moved"}
           \/ upd.stage = "idle" /\ proc[Updater].up /\ proc[Updater].ver \notin broken
           \/ upd.stage = "placed" /\ upd.path # "binary"
    PROVE  cut
<1>1. CASE upd.stage \in {"marked", "moved"} \/ (upd.stage = "placed" /\ upd.path # "binary")
  BY <1>1 DEF WhereBroken
<1>2. CASE upd.stage = "idle" /\ proc[Updater].up /\ proc[Updater].ver \notin broken
  <2>1. proc[Updater].at = "binary" => files["binary"] = proc[Updater].ver
    BY <1>2, ProcsAre DEF Layout, RunsItsFile, Located, Typed, ProcOK
  <2> QED
    BY <1>2, <2>1 DEF WhereBroken
<1> QED
  BY <1>1, <1>2

\* Nothing about the installation changes.
LEMMA SameMarks ==
    ASSUME WhereBroken, Marks, UNCHANGED <<broken, files, upd, marker>>,
           proc'[Updater].at = proc[Updater].at \/ proc'[Updater].at = "binary",
           mode' = mode, cut => cut', raced => raced'
    PROVE  WhereBroken' /\ Marks'
<1>1. Lost => Lost'
  BY Zenon DEF Lost
<1>2. WhereBroken'
  BY SameMode DEF WhereBroken
<1>3. Marks'
  BY <1>1 DEF Marks, BrokenMarked, UpdMarked, UpdBackup
<1> QED
  BY <1>2, <1>3

LEMMA StartMarks ==
    ASSUME Typed, Layout, Works, WhereBroken, Marks,
           NEW p \in Procs, Boot(p) \/ BootClears(p) \/ BootRollsBack(p)
    PROVE  WhereBroken' /\ Marks'
<1>1. ASSUME Runs(p), Starts(p)
      PROVE  /\ UNCHANGED <<mode, broken, files, upd, cut>>
             /\ proc'[Updater].at = proc[Updater].at
  <2>1. Updater \in Procs /\ proc \in [Procs -> Process]
    BY ProcsAre DEF Typed, ProcOK
  <2> QED
    BY <1>1, <2>1 DEF Runs
<1>2. CASE Boot(p)
  BY <1>1, <1>2, SameMarks DEF Boot
<1>3. CASE BootClears(p)
  <2>1. /\ UNCHANGED <<mode, broken, files, upd, cut>>
        /\ proc'[Updater].at = proc[Updater].at
        /\ files["backup"] = None
    BY <1>1, <1>3 DEF BootClears
  <2>2. Lost => Lost'
    BY <1>3, <2>1, Zenon DEF BootClears, Lost
  <2>3. upd.stage # "idle" => Lost'
    BY <1>3, Zenon DEF BootClears, Lost
  <2>4. WhereBroken'
    BY <2>1, SameMode DEF WhereBroken
  <2>5. BrokenMarked' /\ UpdMarked' /\ UpdBackup'
    BY <2>1, <2>2, <2>3 DEF Marks, BrokenMarked, UpdMarked, UpdBackup
  <2> QED
    BY <2>4, <2>5 DEF Marks
<1>4. CASE BootRollsBack(p)
  <2>1. /\ upd.stage = "idle" /\ upd' = upd /\ broken' = broken
        /\ files' = RolledBack(files)
    BY <1>4, RollsBackIdle DEF BootRollsBack, counts
  <2> QED
    BY <2>1, RollbackMarks
<1> QED
  BY <1>2, <1>3, <1>4

LEMMA MarkPendingMarks ==
    ASSUME Typed, Layout, WhereBroken, NEW v \in Versions, MarkPending(v)
    PROVE  WhereBroken' /\ Marks'
<1>1. /\ UNCHANGED <<mode, broken, files, proc, cut>> /\ marker' = Marked(v)
      /\ upd.stage = "idle" /\ proc[Updater].up /\ proc[Updater].ver \notin broken
      /\ upd' = [stage |-> "marked", path |-> proc[Updater].at, ver |-> v]
  BY DEF MarkPending, Up
<1>2. upd'.stage = "marked" /\ upd'.ver = v
  BY <1>1
<1>3. \E k \in marker' : k.ver = v
  BY <1>1 DEF Marked
<1>4. files["binary"] \in broken => cut'
  BY <1>1, InstallsFromWorking
<1>5. files["binary"] \in broken => Lost'
  BY <1>4, Zenon DEF Lost
<1>6. WhereBroken' /\ BrokenMarked'
  BY <1>1, <1>4, <1>5 DEF WhereBroken, BrokenMarked
<1>7. UpdMarked' /\ UpdBackup'
  BY <1>2, <1>3 DEF UpdMarked, UpdBackup
<1> QED
  BY <1>6, <1>7 DEF Marks

LEMMA BackupMarks ==
    ASSUME Typed, Layout, WhereBroken, Marks, Backup
    PROVE  WhereBroken' /\ Marks'
<1>1. /\ UNCHANGED <<mode, broken, marker, raced, cut>> /\ upd.stage = "marked"
      /\ files \in Files
  BY DEF Backup, counts, Typed, FilesOK
<1>2. Lost' = Lost
  BY <1>1 DEF Lost
<1>3. files["binary"] \in broken => cut /\ Lost
  <2>1. files["binary"] \in broken => cut
    BY <1>1, InstallsFromWorking
  <2> QED
    BY <2>1, Zenon DEF Lost
<1>4. CASE upd.path # "gone" /\ files[upd.path] # None
  <2>1. /\ upd.path \in Paths /\ upd.path # "backup"
        /\ upd'.stage = "moved" /\ upd'.ver = upd.ver
        /\ files' = [files EXCEPT !["backup"] = files[upd.path], ![upd.path] = None]
    BY <1>4, BackupMoves
  <2>2. files'["backup"] = files[upd.path] /\ files'["binary"] \in {None, files["binary"]}
    BY <1>1, <2>1 DEF Files, Paths
  <2>3. WhereBroken' /\ BrokenMarked'
    BY <1>1, <1>2, <1>3, <2>2, NoneWorks DEF WhereBroken, BrokenMarked
  <2>4. UpdMarked' /\ UpdBackup'
    BY <1>1, <1>2, <1>4, <2>1, <2>2 DEF Marks, UpdMarked, UpdBackup
  <2> QED
    BY <2>3, <2>4 DEF Marks
<1>5. CASE ~(upd.path # "gone" /\ files[upd.path] # None)
  <2>1. files' = [files EXCEPT !.backup = None] /\ upd' = Idle
    BY <1>5 DEF Backup
  <2>2. files'["binary"] = files["binary"] /\ upd'.stage = "idle"
    BY <1>1, <2>1 DEF Files, Paths, Idle
  <2>3. WhereBroken' /\ BrokenMarked'
    BY <1>1, <1>2, <1>3, <2>2 DEF WhereBroken, BrokenMarked
  <2> QED
    BY <2>2, <2>3 DEF Marks, UpdMarked, UpdBackup
<1> QED
  BY <1>4, <1>5

LEMMA PlaceMarks ==
    ASSUME Typed, Layout, WhereBroken, Marks, Place
    PROVE  WhereBroken' /\ Marks'
<1>1. /\ UNCHANGED <<mode, broken, marker, raced, cut>> /\ upd.stage = "moved"
      /\ files' = [files EXCEPT ![upd.path] = upd.ver]
      /\ upd' = [upd EXCEPT !.stage = "placed"]
  BY DEF Place
<1>2. /\ files \in Files /\ upd \in Install /\ upd.path \in Paths /\ upd.path # "backup"
  BY <1>1 DEF Typed, FilesOK, UpdOK, Layout, NotBackup
<1>3. upd'.stage = "placed" /\ upd'.path = upd.path /\ upd'.ver = upd.ver
  BY <1>1, <1>2 DEF Install
<1>4. /\ files'["backup"] = files["backup"]
      /\ files'["binary"] = IF upd.path = "binary" THEN upd.ver ELSE files["binary"]
  BY <1>1, <1>2 DEF Files, Paths
<1>5. Lost' = Lost
  BY <1>1 DEF Lost
<1>6. files["binary"] \in broken => cut /\ Lost
  <2>1. files["binary"] \in broken => cut
    BY <1>1, InstallsFromWorking
  <2> QED
    BY <2>1, Zenon DEF Lost
<1>7. UpdMarked' /\ UpdBackup'
  BY <1>1, <1>3, <1>4, <1>5 DEF Marks, UpdMarked, UpdBackup
<1>8. CASE upd.path = "binary"
  <2>1. WhereBroken'
    BY <1>3, <1>8 DEF WhereBroken
  <2>2. BrokenMarked'
    BY <1>1, <1>3, <1>4, <1>7, <1>8 DEF BrokenMarked, UpdMarked, UpdBackup
  <2> QED
    BY <1>7, <2>1, <2>2 DEF Marks
<1>9. CASE upd.path # "binary"
  BY <1>1, <1>4, <1>5, <1>6, <1>7, <1>9 DEF WhereBroken, Marks, BrokenMarked
<1> QED
  BY <1>8, <1>9

LEMMA PlaceFailsMarks ==
    ASSUME Typed, Layout, Works, WhereBroken, PlaceFails
    PROVE  WhereBroken' /\ Marks'
<1>1. /\ UNCHANGED <<mode, broken, raced>> /\ upd.stage = "moved" /\ upd' = Idle
      /\ files' = [files EXCEPT ![upd.path] = files["backup"], !["backup"] = None]
  BY DEF PlaceFails, PutBack
<1>2. files \in Files /\ upd.path \in Paths /\ upd.path # "backup"
  BY <1>1 DEF Typed, FilesOK, UpdOK, Layout, NotBackup
<1>3. files'["binary"] = IF upd.path = "binary" THEN files["backup"] ELSE files["binary"]
  BY <1>1, <1>2 DEF Files, Paths
<1>4. upd'.stage = "idle"
  BY <1>1 DEF Idle
<1>5. CASE files'["binary"] \notin broken'
  BY <1>4, <1>5, RestMarks
<1>6. CASE files'["binary"] \in broken'
  <2>1. files["binary"] \in broken
    BY <1>1, <1>3, <1>6 DEF Works, BackupWorks
  <2>2. cut
    BY <1>1, <2>1, InstallsFromWorking
  <2>3. cut' /\ Lost'
    BY <2>2, Zenon DEF PlaceFails, Lost
  <2> QED
    BY <1>4, <2>3 DEF WhereBroken, Marks, BrokenMarked, UpdMarked, UpdBackup
<1> QED
  BY <1>5, <1>6

\* The new file is started from the path the installation replaced.
LEMMA RestartMarks ==
    ASSUME Typed, WhereBroken, Marks,
           UNCHANGED <<mode, broken, files, marker, raced, cut>>,
           upd.stage = "placed", upd'.stage = "idle", proc'[Updater].at = upd.path
    PROVE  WhereBroken' /\ Marks'
<1>1. Lost' = Lost
  BY DEF Lost
<1>2. WhereBroken'
  BY SameMode DEF WhereBroken
<1> QED
  BY <1>1, <1>2 DEF Marks, BrokenMarked, UpdMarked, UpdBackup

LEMMA HandoffMarks ==
    ASSUME Typed, Layout, Works, WhereBroken, Marks, Reexec \/ Handover \/ HandoverFails
    PROVE  WhereBroken' /\ Marks'
<1>1. Updater \in Procs /\ proc \in [Procs -> Process]
  BY ProcsAre DEF Typed, ProcOK
<1>2. CASE Reexec
  <2>1. proc'[Updater].at = upd.path
    BY <1>1, <1>2 DEF Reexec
  <2> QED
    BY <1>2, <2>1, RestartMarks DEF Reexec, counts, Idle
<1>3. CASE Handover
  BY <1>3, HandoverDown, RestartMarks DEF Handover, counts, Idle
<1>4. CASE HandoverFails
  <2>1. /\ UNCHANGED <<mode, broken, marker, raced, cut>> /\ mode = "managed"
        /\ upd' = Idle
        /\ files' = IF Refused(files) THEN files ELSE RolledBack(files)
    BY <1>4 DEF HandoverFails, counts
  <2>2. upd'.stage = "idle"
    BY <2>1 DEF Idle
  <2>3. CASE Refused(files)
    <3>1. proc' = Down(proc, {"manager"}) /\ Updater = "manager"
      BY <1>4, <2>1, <2>3 DEF HandoverFails, Updater
    <3>2. proc'[Updater].at = "binary"
      <4>1. "manager" \in Procs
        BY <1>1, <3>1
      <4>2. Down(proc, {"manager"})["manager"].at = "binary"
        BY <1>1, <4>1, DownType
      <4> QED
        BY <3>1, <4>2
    <3>3. Lost' = Lost
      BY <2>1 DEF Lost
    <3>4. WhereBroken'
      BY <2>1, <2>2, <3>2, SameMode DEF WhereBroken
    <3> QED
      BY <2>1, <2>2, <2>3, <3>3, <3>4 DEF Marks, BrokenMarked, UpdMarked, UpdBackup
  <2>4. CASE ~Refused(files)
    BY <2>1, <2>2, <2>4, RollbackMarks
  <2> QED
    BY <2>3, <2>4
<1> QED
  BY <1>2, <1>3, <1>4

\* A report comes from a working version: the marker it removes is another one's
\* where the marked version does not work.
LEMMA ReportMarks ==
    ASSUME Typed, Layout, WhereBroken, Marks, Report
    PROVE  WhereBroken' /\ Marks'
<1>1. /\ UNCHANGED <<mode, broken, upd, cut>> /\ proc["telemetry"].ver \notin broken
      /\ files \in Files /\ Updater \in Procs /\ proc \in [Procs -> Process]
  BY ProcsAre DEF Report, Typed, FilesOK, ProcOK
<1>2. Lost => Lost'
  BY Zenon DEF Report, Lost
<1>3. ASSUME NEW k \in marker, k.ver \in broken
      PROVE  Lost'
  <2>1. k.ver # proc["telemetry"].ver
    BY <1>1, <1>3
  <2>2. raced'
    BY <2>1, Zenon DEF Report
  <2> QED
    BY <2>2, Zenon DEF Lost
<1>4. files'["binary"] = files["binary"]
  BY <1>1 DEF Report, Files, Paths
<1>5. proc[Updater].at = "binary" => proc'[Updater].at = "binary"
  <2>1. CASE mode = "rootless"
    <3>0. IF mode = "rootless"
          THEN files' = [files EXCEPT !.backup = None] /\ proc' = Renamed(proc, "", "backup")
          ELSE UNCHANGED <<files, proc>>
      BY Zenon DEF Report
    <3>1. \E none : none \notin Paths \cup {"gone"} /\ proc' = Renamed(proc, none, "backup")
      BY <2>1, <3>0, NoPath, Zenon
    <3> QED
      BY <1>1, <3>1, DroppedAt
  <2>2. CASE mode # "rootless"
    BY <2>2 DEF Report
  <2> QED
    BY <2>1, <2>2
<1>6. WhereBroken'
  BY <1>1, <1>4, <1>5, SameMode DEF WhereBroken
<1>7. files["binary"] \in broken => Lost'
  BY <1>2, <1>3 DEF Marks, BrokenMarked
<1>8. upd.ver \in broken /\ upd.stage # "idle" => Lost'
  BY <1>2, <1>3 DEF Marks, UpdMarked
<1>9. Marks'
  BY <1>1, <1>4, <1>7, <1>8 DEF Marks, BrokenMarked, UpdMarked, UpdBackup
<1> QED
  BY <1>6, <1>9

\* A watchdog that was confirmed expected a working version.
LEMMA WatchdogConfirmsMarks ==
    ASSUME Typed, Layout, Works, WhereBroken, Marks, NEW w \in watch, WatchdogConfirms(w)
    PROVE  WhereBroken' /\ Marks'
<1>1. /\ UNCHANGED <<mode, broken, upd, marker, cut>> /\ confirmed = w.expect
      /\ files' = [files EXCEPT !.backup = None]
      /\ files \in Files /\ Updater \in Procs /\ proc \in [Procs -> Process]
  BY ProcsAre DEF WatchdogConfirms, Typed, FilesOK, ProcOK
<1>2. Lost => Lost'
  BY Zenon DEF WatchdogConfirms, Lost
<1>3. files["binary"] \in broken => Lost'
  <2>1. files["binary"] \in broken => files["binary"] # w.expect
    BY <1>1 DEF Works, ConfirmedWorks
  <2>2. files["binary"] # w.expect => raced'
    BY Zenon DEF WatchdogConfirms
  <2> QED
    BY <2>1, <2>2, Zenon DEF Lost
<1>4. upd.stage \in {"moved", "placed"} => Lost'
  BY Zenon DEF WatchdogConfirms, Lost
<1>5. files'["binary"] = files["binary"]
  BY <1>1 DEF Files, Paths
<1>6. proc[Updater].at = "binary" => proc'[Updater].at = "binary"
  <2>1. \E none : none \notin Paths \cup {"gone"} /\ proc' = Renamed(proc, none, "backup")
    BY NoPath, Zenon DEF WatchdogConfirms
  <2> QED
    BY <1>1, <2>1, DroppedAt
<1>7. WhereBroken'
  BY <1>1, <1>5, <1>6, SameMode DEF WhereBroken
<1>8. Marks'
  BY <1>1, <1>2, <1>3, <1>4, <1>5 DEF Marks, BrokenMarked, UpdMarked, UpdBackup
<1> QED
  BY <1>7, <1>8

\* Everything ended, at most one rename later.
LEMMA DownMarks ==
    ASSUME Typed, WhereBroken, Marks, UNCHANGED <<mode, broken, marker>>,
           files' = files \/ (files'["binary"] \notin broken),
           upd' = Idle, proc'[Updater].at = "binary", cut => cut', raced' = raced
    PROVE  WhereBroken' /\ Marks'
<1>1. Lost => Lost'
  BY Zenon DEF Lost
<1>2. upd'.stage = "idle"
  BY DEF Idle
<1>3. WhereBroken'
  BY <1>2, SameMode DEF WhereBroken
<1> QED
  BY <1>1, <1>2, <1>3 DEF Marks, BrokenMarked, UpdMarked, UpdBackup

LEMMA WatchdogExpiresMarks ==
    ASSUME Typed, Works, WhereBroken, Marks, NEW w \in watch, WatchdogExpires(w)
    PROVE  WhereBroken' /\ Marks'
<1>1. CASE Refused(files)
  BY <1>1, SameMarks DEF WatchdogExpires, counts
<1>2. CASE ~Refused(files)
  BY <1>2, RollbackMarks DEF WatchdogExpires, counts, Idle
<1> QED
  BY <1>1, <1>2

LEMMA EndMarks ==
    ASSUME Typed, WhereBroken, Marks, (\E p \in Procs : Kill(p)) \/ PowerLoss \/ Tick
    PROVE  WhereBroken' /\ Marks'
<1>1. Updater \in Procs /\ proc \in [Procs -> Process]
  BY ProcsAre DEF Typed, ProcOK
<1>2. ASSUME NEW p \in Procs, Kill(p)
      PROVE  WhereBroken' /\ Marks'
  <2>1. /\ UNCHANGED <<mode, broken, files, marker, raced>>
        /\ proc' = Down(proc, {p})
        /\ upd' = IF p = Updater THEN Idle ELSE upd
    BY <1>2 DEF Kill
  <2>2. cut => cut'
    BY <1>2, Zenon DEF Kill
  <2>3. CASE p = Updater
    <3>1. proc'[Updater].at = "binary"
      BY <1>1, <2>1, <2>3, DownType
    <3> QED
      BY <2>1, <2>2, <2>3, <3>1, DownMarks
  <2>4. CASE p # Updater
    <3>1. proc'[Updater] = proc[Updater]
      BY <1>1, <2>1, <2>4, DownType
    <3> QED
      BY <2>1, <2>2, <2>4, <3>1, SameMarks
  <2> QED
    BY <2>3, <2>4
<1>3. CASE PowerLoss
  <2>1. /\ UNCHANGED <<mode, broken, marker, raced>>
        /\ proc' = Down(proc, Procs) /\ upd' = Idle
        /\ \/ files' = files
           \/ files' = [files EXCEPT !.failed = files.binary, !.binary = None]
    BY <1>3 DEF PowerLoss
  <2>2. files' = files \/ files'["binary"] \notin broken
    BY <2>1, NoneWorks DEF Typed, FilesOK, Files, Paths
  <2>3. proc'[Updater].at = "binary"
    BY <1>1, <2>1, DownType
  <2>4. cut => cut'
    BY <1>3, Zenon DEF PowerLoss
  <2> QED
    BY <2>1, <2>2, <2>3, <2>4, DownMarks
<1>4. CASE Tick
  <2>1. /\ UNCHANGED <<mode, broken, files, upd, raced, cut>> /\ upd.stage = "idle"
        /\ proc' = Down(proc, {p \in Procs : proc[p].ver \in broken})
        /\ marker' = {[k EXCEPT !.age = IF @ > ConfirmWindow THEN @ ELSE @ + 1] : k \in marker}
    BY <1>4 DEF Tick, Settled, counts
  <2>2. proc'[Updater].at = proc[Updater].at \/ proc'[Updater].at = "binary"
    BY <1>1, <2>1, DownType
  <2>3. \A k \in marker : \E j \in marker' : j.ver = k.ver
    <3>1. ASSUME NEW k \in marker
          PROVE  \E j \in marker' : j.ver = k.ver
      <4> DEFINE j == [k EXCEPT !.age = IF @ > ConfirmWindow THEN @ ELSE @ + 1]
      <4>1. j \in marker'
        BY <2>1
      <4>2. j.ver = k.ver
        BY DEF Typed, FilesOK, Mark
      <4> QED
        BY <4>1, <4>2
    <3> QED
      BY <3>1
  <2>4. Lost' = Lost
    BY <2>1 DEF Lost
  <2>5. WhereBroken'
    BY <2>1, <2>2, SameMode DEF WhereBroken
  <2>6. BrokenMarked'
    BY <2>1, <2>3, <2>4 DEF Marks, BrokenMarked
  <2> QED
    BY <2>1, <2>5, <2>6 DEF Marks, UpdMarked, UpdBackup
<1> QED
  BY <1>2, <1>3, <1>4

LEMMA NextFallback ==
    ASSUME Typed, Layout, Fallback, [Next]_vars
    PROVE  Fallback'
<1> USE DEF Fallback
<1>1. Works'
  BY NextWorks
<1>2. ASSUME NEW p \in Procs, Boot(p) \/ BootClears(p) \/ BootRollsBack(p) \/ Kill(p)
      PROVE  WhereBroken' /\ Marks'
  BY <1>2, StartMarks, EndMarks
<1>3. ASSUME NEW v \in Versions, MarkPending(v)
      PROVE  WhereBroken' /\ Marks'
  BY <1>3, MarkPendingMarks
<1>4. CASE Backup \/ Place \/ PlaceFails \/ Reexec \/ Handover \/ HandoverFails
  BY <1>4, BackupMarks, PlaceMarks, PlaceFailsMarks, HandoffMarks, <1>1
<1>5. CASE Report
  BY <1>1, <1>5, ReportMarks
<1>6. CASE Look \/ Confirm
  BY <1>1, <1>6, SameMarks DEF Look, Confirm, counts
<1>7. ASSUME NEW w \in watch, WatchdogConfirms(w) \/ WatchdogExpires(w)
      PROVE  WhereBroken' /\ Marks'
  BY <1>7, WatchdogConfirmsMarks, WatchdogExpiresMarks
<1>8. CASE PowerLoss \/ Tick
  BY <1>1, <1>8, EndMarks
<1>9. CASE UNCHANGED vars
  BY <1>1, <1>9, SameMarks DEF vars
<1> QED
  BY <1>1, <1>2, <1>3, <1>4, <1>5, <1>6, <1>7, <1>8, <1>9 DEF Next

LEMMA InitFallback == Init => Fallback
<1> SUFFICES ASSUME Init PROVE Fallback
  OBVIOUS
<1>1. /\ files = [binary |-> 1, backup |-> None, failed |-> None] /\ confirmed = None
      /\ broken \in SUBSET (Versions \ {1}) /\ age = 0 /\ upd.stage = "idle"
  BY DEF Init, Idle
<1>2. None \notin broken /\ 1 \notin broken
  BY <1>1, Bounds
<1> QED
  BY <1>1, <1>2 DEF Fallback, Works, BackupWorks, ConfirmedWorks, BrokenIsYoung, WhereBroken,
     Marks, BrokenMarked, UpdMarked, UpdBackup

LEMMA AlwaysLayout == Spec => []Layout
  BY AlwaysTyped, InitLayout, NextLayout, PTL DEF Spec

(***************************************************************************)
(* While a version that does not work is under the service's path, a       *)
(* working one is beside it and the marker that brings it back is there,   *)
(* unless the installation lost them to a process or watchdog of another   *)
(* version or was torn between two renames (updater.rs:622,                *)
(* manager.rs:240).  The invariant follows the broken version from the     *)
(* marker written first, over the rename of a working executable to .bak,  *)
(* to the report a broken version never makes.                             *)
(***************************************************************************)
THEOREM BrokenVersionsCanBeLeft == Spec => []BrokenCanBeLeft
<1>1. Typed /\ Fallback => BrokenCanBeLeft
  <2> SUFFICES ASSUME Typed, Fallback, files["binary"] \in broken PROVE BrokenCanBeLeft
    BY Zenon DEF BrokenCanBeLeft
  <2>1. Lost => raced \/ cut
    BY Zenon DEF Lost
  <2>2. Lost \/ (files["backup"] # None /\ marker # {})
    BY DEF Fallback, Marks, BrokenMarked
  <2>3. files["backup"] \notin broken
    BY DEF Fallback, Works, BackupWorks
  <2>4. CASE Lost
    BY <2>1, <2>4, Zenon DEF BrokenCanBeLeft
  <2>5. CASE files["backup"] # None /\ marker # {}
    BY <2>3, <2>5 DEF BrokenCanBeLeft
  <2> QED
    BY <2>2, <2>4, <2>5
<1> QED
  BY <1>1, AlwaysTyped, AlwaysLayout, InitFallback, NextFallback, PTL DEF Spec

-----------------------------------------------------------------------------
(* A confirmed version is kept.                                            *)

\* No tick passes while an installation goes on, and it brings a newer version.
FreshMarker == upd.stage # "idle" => \A k \in marker : k.age = 0
UpdNewer    == upd.stage # "idle" => upd.ver > proc[Updater].ver
\* What was placed was taken off the confirmed versions.
PlacedFile  == upd.stage = "placed" => files[upd.path] = upd.ver /\ upd.ver \notin vouched
\* The updater's own file disappears only with the backup.
GoneAlone   == proc[Updater].up /\ proc[Updater].at = "gone" => files["backup"] = None
Pace == FreshMarker /\ UpdNewer /\ PlacedFile /\ GoneAlone

\* What an installation that goes on keeps.
LEMMA InstallStays ==
    ASSUME Typed, Layout, Layout', Next, ~ \E v \in Versions : MarkPending(v),
           upd'.stage # "idle"
    PROVE  /\ upd.stage # "idle" /\ upd'.ver = upd.ver /\ upd'.path = upd.path
           /\ proc'[Updater].ver = proc[Updater].ver
           /\ mode' = mode /\ marker' \in {marker, {}}
           /\ Backup \/ Place \/ upd' = upd
<1> DEFINE Goal == /\ upd.stage # "idle" /\ upd'.ver = upd.ver /\ upd'.path = upd.path
                   /\ mode' = mode /\ marker' \in {marker, {}}
                   /\ Backup \/ Place \/ upd' = upd
<1>1. upd \in Install /\ Idle.stage = "idle"
  BY DEF Typed, UpdOK, Idle
<1>2. ASSUME NEW p \in Procs, Boot(p) \/ BootClears(p) \/ Kill(p)
      PROVE  Goal
  <2>1. /\ mode' = mode /\ marker' \in {marker, {}} /\ upd' \in {upd, Idle}
    BY <1>2 DEF Boot, BootClears, Kill, Runs
  <2> QED
    BY <1>1, <2>1
<1>3. ASSUME NEW p \in Procs, BootRollsBack(p)
      PROVE  FALSE
  BY <1>3, RollsBackIdle DEF BootRollsBack
<1>4. ASSUME Backup
      PROVE  Goal
  <2>1. upd.stage = "marked" /\ mode' = mode /\ marker' = marker
    BY <1>4, Zenon DEF Backup, counts
  <2>2. upd' = Idle \/ upd' = [upd EXCEPT !.stage = "moved"]
    BY <1>4, Zenon DEF Backup
  <2> QED
    BY <1>1, <1>4, <2>1, <2>2 DEF Install
<1>5. ASSUME Place
      PROVE  Goal
  BY <1>1, <1>5 DEF Place, Install
<1>6. ASSUME PlaceFails \/ Reexec \/ Handover \/ HandoverFails \/ PowerLoss
      PROVE  Goal
  <2>1. upd' = Idle
    BY <1>6 DEF PlaceFails, Reexec, Handover, HandoverFails, PowerLoss
  <2> QED
    BY <1>1, <2>1
<1>7. ASSUME Report \/ Look \/ Confirm
      PROVE  Goal
  BY <1>7 DEF Report, Look, Confirm, counts
<1>8. ASSUME NEW w \in watch, WatchdogConfirms(w) \/ WatchdogExpires(w)
      PROVE  Goal
  <2>1. mode' = mode /\ marker' = marker /\ upd' \in {upd, Idle}
    BY <1>8 DEF WatchdogConfirms, WatchdogExpires, counts
  <2> QED
    BY <1>1, <2>1
<1>9. ~Tick
  BY DEF Tick, Settled
<1>10. Goal
  <2>1. CASE \E p \in Procs : Boot(p) \/ BootClears(p) \/ BootRollsBack(p) \/ Kill(p)
    BY <1>2, <1>3, <2>1, Zenon
  <2>2. CASE \E w \in watch : WatchdogConfirms(w) \/ WatchdogExpires(w)
    BY <1>8, <2>2, Zenon
  <2>3. CASE \/ Backup \/ Place \/ PlaceFails \/ Reexec \/ Handover \/ HandoverFails
             \/ Report \/ Look \/ Confirm \/ PowerLoss
    BY <1>4, <1>5, <1>6, <1>7, <2>3, Zenon
  <2> QED
    BY <1>9, <2>1, <2>2, <2>3, Zenon DEF Next
<1>11. proc[Updater].up /\ proc'[Updater].up
  BY <1>10, SameMode DEF Layout, UpdRuns
<1>12. proc'[Updater].ver = proc[Updater].ver
  <2>1. CASE \E p \in Procs : Boot(p) \/ BootClears(p)
    <3>1. PICK p \in Procs : Boot(p) \/ BootClears(p)
      BY <2>1
    <3>2. p # Updater /\ Runs(p)
      BY <1>11, <3>1 DEF Boot, BootClears, Starts
    <3>3. proc'[Updater] = proc[Updater]
      BY <3>2, ProcsAre DEF Runs, Typed, ProcOK
    <3> QED
      BY <3>3
  <2>2. CASE ~ \E p \in Procs : Boot(p) \/ BootClears(p)
    BY <1>9, <1>11, <2>2, UpdaterStays
  <2> QED
    BY <2>1, <2>2
<1> QED
  BY <1>10, <1>12

LEMMA MarkPendingPace ==
    ASSUME Typed, Layout, Pace, NEW v \in Versions, MarkPending(v)
    PROVE  Pace'
<1>1. /\ UNCHANGED <<mode, files, proc, vouched>> /\ marker' = Marked(v)
      /\ upd' = [stage |-> "marked", path |-> proc[Updater].at, ver |-> v]
      /\ v > proc[Updater].ver
  BY DEF MarkPending
<1>2. upd'.stage = "marked" /\ upd'.ver = v
  BY <1>1
<1>3. \A k \in marker' : k.age = 0
  BY <1>1 DEF Marked
<1> QED
  BY <1>1, <1>2, <1>3, SameMode DEF Pace, FreshMarker, UpdNewer, PlacedFile, GoneAlone

LEMMA PlacedNext ==
    ASSUME Typed, Layout, Layout', Pace, Next, ~ \E v \in Versions : MarkPending(v),
           upd'.stage = "placed"
    PROVE  files'[upd.path] = upd.ver /\ upd.ver \notin vouched'
<1> DEFINE Goal == files'[upd.path] = upd.ver /\ upd.ver \notin vouched'
<1>1. upd.stage # "idle" /\ (Backup \/ Place \/ upd' = upd)
  BY InstallStays
<1>2. files \in Files /\ upd \in Install /\ Idle.stage = "idle"
  BY DEF Typed, FilesOK, UpdOK, Idle
<1>3. ~Backup
  <2> SUFFICES ASSUME Backup PROVE FALSE
    OBVIOUS
  <2>1. upd.stage = "marked" /\ (upd' = Idle \/ upd' = [upd EXCEPT !.stage = "moved"])
    BY Zenon DEF Backup
  <2> QED
    BY <1>2, <2>1 DEF Install
<1>4. ASSUME Place
      PROVE  Goal
  <2>1. /\ files' = [files EXCEPT ![upd.path] = upd.ver] /\ vouched' = vouched \ {upd.ver}
        /\ upd.path \in Paths
    BY <1>4 DEF Place, Typed, UpdOK
  <2> QED
    BY <1>2, <2>1 DEF Files
<1>5. ASSUME upd' = upd
      PROVE  Goal
  <2>1. /\ upd.stage = "placed" /\ files[upd.path] = upd.ver /\ upd.ver \notin vouched
        /\ upd.path \in Paths /\ upd.path # "backup"
    BY <1>5 DEF Pace, PlacedFile, Typed, UpdOK, Layout, NotBackup
  <2>2. /\ files' = files => files'[upd.path] = files[upd.path]
        /\ files' = [files EXCEPT !.backup = None] => files'[upd.path] = files[upd.path]
    BY <1>2, <2>1 DEF Files
  <2>3. ASSUME NEW p \in Procs, Boot(p) \/ BootClears(p) \/ Kill(p)
        PROVE  Goal
    BY <2>1, <2>3 DEF Boot, BootClears, Kill, Runs
  <2>4. ASSUME NEW p \in Procs, BootRollsBack(p)
        PROVE  FALSE
    BY <2>1, <2>4, RollsBackIdle DEF BootRollsBack
  <2>5. ~ (PlaceFails \/ Reexec \/ Handover \/ HandoverFails \/ PowerLoss \/ Place \/ Tick)
    <3>1. upd' # Idle
      BY <1>2, <1>5, <2>1
    <3> QED
      BY <2>1, <3>1 DEF PlaceFails, Reexec, Handover, HandoverFails, PowerLoss, Place, Tick,
         Settled
  <2>6. ASSUME Look
        PROVE  Goal
    BY <2>1, <2>6 DEF Look, counts
  <2>7. ASSUME Report
        PROVE  Goal
    <3>1. vouched' = vouched /\ (files' = files \/ files' = [files EXCEPT !.backup = None])
      BY <2>7 DEF Report
    <3> QED
      BY <2>1, <2>2, <3>1
  <2>8. ASSUME Confirm
        PROVE  Goal
    <3>1. /\ mode = "managed" /\ files' = files
          /\ vouched' = vouched \cup {proc["manager"].ver}
      BY <2>8 DEF Confirm, Typed, LookOK
    <3>2. upd.ver > proc["manager"].ver /\ proc["manager"].ver \in Nat /\ upd.ver \in Nat
      <4>1. Updater = "manager" /\ proc["manager"].up
        BY <2>1, <3>1 DEF Updater, Layout, UpdRuns
      <4>2. proc["manager"].ver \in Versions /\ upd.ver \in Versions
        BY <2>1, <3>1, <4>1, ProcsAre DEF Typed, ProcOK, UpdOK
      <4> QED
        BY <2>1, <4>1, <4>2, UpdateAssumption DEF Pace, UpdNewer
    <3>3. upd.ver # proc["manager"].ver
      BY <3>2
    <3> QED
      BY <2>1, <3>1, <3>3
  <2>9. ASSUME NEW w \in watch, WatchdogConfirms(w)
        PROVE  Goal
    <3>1. vouched' = vouched /\ files' = [files EXCEPT !.backup = None]
      BY <2>9 DEF WatchdogConfirms
    <3> QED
      BY <2>1, <2>2, <3>1
  <2>10. ASSUME NEW w \in watch, WatchdogExpires(w)
         PROVE  Goal
    <3>1. upd' # Idle
      BY <1>2, <1>5, <2>1
    <3>2. vouched' = vouched /\ files' = files
      BY <2>10, <3>1 DEF WatchdogExpires, counts
    <3> QED
      BY <2>1, <3>2
  <2> HIDE DEF Goal
  <2>11. CASE \E p \in Procs : Boot(p) \/ BootClears(p) \/ BootRollsBack(p) \/ Kill(p)
    BY <2>3, <2>4, <2>11, Zenon
  <2>12. CASE \E w \in watch : WatchdogConfirms(w) \/ WatchdogExpires(w)
    BY <2>9, <2>10, <2>12, Zenon
  <2> QED
    BY <1>3, <2>5, <2>6, <2>7, <2>8, <2>11, <2>12, Zenon DEF Next
<1> QED
  BY <1>1, <1>3, <1>4, <1>5

\* The path of the updater's own file is lost only when the backup is.
LEMMA GoneNext ==
    ASSUME Typed, Layout, Pace, Next, ~ \E v \in Versions : MarkPending(v)
    PROVE  GoneAlone'
<1> DEFINE Gone     == proc[Updater].up /\ proc[Updater].at = "gone"
           Goal     == files'["backup"] = None \/ ~(proc'[Updater].up /\ proc'[Updater].at = "gone")
                       \/ (files'["backup"] = files["backup"] /\ Gone)
<1>1. files \in Files /\ proc \in [Procs -> Process] /\ Updater \in Procs
  BY ProcsAre DEF Typed, FilesOK, ProcOK
<1>2. /\ files' = [files EXCEPT !.backup = None] => files'["backup"] = None
      /\ files' = RolledBack(files) => files'["backup"] = None
  BY <1>1 DEF RolledBack, Files, Paths
<1>3. ASSUME NEW who, proc' = Down(proc, who)
      PROVE  (proc'[Updater].up /\ proc'[Updater].at = "gone") => Gone
  BY <1>1, <1>3, DownType
<1>4. ASSUME NEW p \in Procs, Boot(p) \/ BootClears(p)
      PROVE  Goal /\ mode' = mode
  <2>1. /\ files' = files /\ mode' = mode /\ ~proc[p].up
        /\ proc' = [proc EXCEPT ![p] = [up |-> TRUE, ver |-> files[proc[p].at], at |-> proc[p].at]]
    BY <1>4 DEF Boot, BootClears, Starts, Runs
  <2>2. proc[p].at # "gone"
    BY <2>1 DEF Typed, ProcOK, Paths
  <2> QED
    BY <1>1, <2>1, <2>2
<1>5. ASSUME NEW p \in Procs, BootRollsBack(p)
      PROVE  Goal /\ mode' = mode
  BY <1>2, <1>5 DEF BootRollsBack, counts
<1>6. ASSUME NEW p \in Procs, Kill(p)
      PROVE  Goal /\ mode' = mode
  <2>1. files' = files /\ mode' = mode /\ proc' = Down(proc, {p})
    BY <1>6 DEF Kill
  <2> QED
    BY <1>3, <2>1
<1>7. ASSUME Backup
      PROVE  Goal /\ mode' = mode
  <2>1. mode' = mode
    BY <1>7 DEF Backup, counts
  <2>2. CASE upd.path # "gone" /\ files[upd.path] # None
    <3>1. /\ upd.path \in Paths /\ upd.path = proc[Updater].at
          /\ proc[Updater].up /\ proc' = Renamed(proc, upd.path, "backup")
      BY <1>7, <2>2, BackupMoves
    <3>2. proc'[Updater].at = "backup"
      BY <1>1, <3>1, RenamedAt
    <3> QED
      BY <2>1, <3>2
  <2>3. CASE ~(upd.path # "gone" /\ files[upd.path] # None)
    BY <1>2, <1>7, <2>1, <2>3 DEF Backup
  <2> QED
    BY <2>2, <2>3
<1>8. ASSUME Place
      PROVE  Goal /\ mode' = mode
  <2>1. /\ proc' = proc /\ mode' = mode /\ upd.path \in Paths /\ upd.path # "backup"
        /\ files' = [files EXCEPT ![upd.path] = upd.ver]
    BY <1>8 DEF Place, Typed, UpdOK, Layout, NotBackup
  <2> QED
    BY <1>1, <2>1 DEF Files, Paths
<1>9. ASSUME PlaceFails
      PROVE  Goal /\ mode' = mode
  <2>1. /\ mode' = mode
        /\ files' = [files EXCEPT ![upd.path] = files["backup"], !["backup"] = None]
    BY <1>9 DEF PlaceFails, PutBack
  <2> QED
    BY <1>1, <2>1 DEF Files, Paths
<1>10. ASSUME Reexec
       PROVE  Goal /\ mode' = mode
  BY <1>1, <1>10 DEF Reexec, counts
<1>11. ASSUME Handover
       PROVE  Goal /\ mode' = mode
  BY <1>1, <1>11, HandoverDown DEF Handover, counts
<1>12. ASSUME HandoverFails
       PROVE  Goal /\ mode' = mode
  <2>1. CASE Refused(files)
    <3>1. files' = files /\ mode' = mode /\ proc' = Down(proc, {"manager"})
      BY <1>12, <2>1 DEF HandoverFails, counts
    <3> QED
      BY <1>3, <3>1
  <2>2. CASE ~Refused(files)
    BY <1>2, <1>12, <2>2 DEF HandoverFails, counts
  <2> QED
    BY <2>1, <2>2
<1>13. ASSUME Report
       PROVE  Goal /\ mode' = mode
  <2>1. /\ mode' = mode
        /\ files' = [files EXCEPT !.backup = None] \/ (files' = files /\ proc' = proc)
    BY <1>13 DEF Report
  <2> QED
    BY <1>2, <2>1
<1>14. ASSUME Look \/ Confirm
       PROVE  Goal /\ mode' = mode
  BY <1>14 DEF Look, Confirm, counts
<1>15. ASSUME NEW w \in watch, WatchdogConfirms(w)
       PROVE  Goal /\ mode' = mode
  BY <1>2, <1>15 DEF WatchdogConfirms
<1>16. ASSUME NEW w \in watch, WatchdogExpires(w)
       PROVE  Goal /\ mode' = mode
  <2>1. /\ mode' = mode
        /\ files' = RolledBack(files) \/ (files' = files /\ proc' = proc)
    BY <1>16 DEF WatchdogExpires, counts
  <2> QED
    BY <1>2, <2>1
<1>17. ASSUME PowerLoss
       PROVE  Goal /\ mode' = mode
  <2>1. proc' = Down(proc, Procs) /\ mode' = mode
    BY <1>17 DEF PowerLoss
  <2>2. ~proc'[Updater].up
    BY <1>1, <2>1, DownType
  <2> QED
    BY <2>1, <2>2
<1>18. ASSUME Tick
       PROVE  Goal /\ mode' = mode
  <2>1. /\ files' = files /\ mode' = mode
        /\ proc' = Down(proc, {p \in Procs : proc[p].ver \in broken})
    BY <1>18 DEF Tick, counts
  <2> QED
    BY <1>3, <2>1
<1> HIDE DEF Goal
<1>19. Goal /\ mode' = mode
  <2>1. CASE \E p \in Procs : Boot(p) \/ BootClears(p) \/ BootRollsBack(p) \/ Kill(p)
    BY <1>4, <1>5, <1>6, <2>1, Zenon
  <2>2. CASE \E w \in watch : WatchdogConfirms(w) \/ WatchdogExpires(w)
    BY <1>15, <1>16, <2>2, Zenon
  <2>3. CASE \/ Backup \/ Place \/ PlaceFails \/ Reexec \/ Handover \/ HandoverFails
             \/ Report \/ Look \/ Confirm \/ PowerLoss \/ Tick
    BY <1>7, <1>8, <1>9, <1>10, <1>11, <1>12, <1>13, <1>14, <1>17, <1>18, <2>3, Zenon
  <2> QED
    BY <2>1, <2>2, <2>3, Zenon DEF Next
<1> QED
  BY <1>19, SameMode DEF Goal, Pace, GoneAlone

LEMMA NextPace ==
    ASSUME Typed, Layout, Layout', Pace, [Next]_vars
    PROVE  Pace'
<1>1. CASE UNCHANGED vars
  BY <1>1, SameMode DEF vars, Pace, FreshMarker, UpdNewer, PlacedFile, GoneAlone
<1>2. CASE \E v \in Versions : MarkPending(v)
  BY <1>2, MarkPendingPace
<1>3. CASE Next /\ ~ \E v \in Versions : MarkPending(v)
  <2>1. GoneAlone'
    BY <1>3, GoneNext
  <2>2. CASE upd'.stage = "idle"
    BY <2>1, <2>2 DEF Pace, FreshMarker, UpdNewer, PlacedFile
  <2>3. CASE upd'.stage # "idle"
    <3>1. /\ upd.stage # "idle" /\ upd'.ver = upd.ver /\ upd'.path = upd.path
          /\ proc'[Updater].ver = proc[Updater].ver
          /\ mode' = mode /\ marker' \in {marker, {}}
      BY <1>3, <2>3, InstallStays
    <3>2. FreshMarker' /\ UpdNewer'
      BY <3>1, SameMode DEF Pace, FreshMarker, UpdNewer
    <3>3. PlacedFile'
      BY <1>3, <3>1, PlacedNext DEF PlacedFile
    <3> QED
      BY <2>1, <3>2, <3>3 DEF Pace
  <2> QED
    BY <2>2, <2>3
<1> QED
  BY <1>1, <1>2, <1>3

\* A watchdog's time is over before the marker it was started with is old.
Timed   == \A k \in marker, w \in watch : k.age + w.left <= WatchdogTicks
\* One unit of a manager's pid at a time.
OneOwn  == \A w, x \in watch : w.own /\ x.own => w = x
NoWatch == mode = "rootless" => watch = {}
Watches == Timed /\ OneOwn /\ NoWatch

\* Watchdogs start at a handover only; else they end, or lose their manager.
LEMMA WatchNext ==
    ASSUME Typed, Next, ~Handover, ~Tick
    PROVE  /\ mode' = mode
           /\ watch' \subseteq watch \/ \E ws \in SUBSET watch : watch' = Disowned(ws)
           /\ marker' \in {marker, {}} \/ (watch' = watch /\ \A k \in marker' : k.age = 0)
<1> DEFINE Goal == /\ mode' = mode
                   /\ watch' \subseteq watch \/ \E ws \in SUBSET watch : watch' = Disowned(ws)
                   /\ marker' \in {marker, {}} \/ (watch' = watch /\ \A k \in marker' : k.age = 0)
<1>1. ASSUME NEW p \in Procs, Boot(p) \/ BootClears(p) \/ BootRollsBack(p) \/ Kill(p)
      PROVE  Goal
  BY <1>1 DEF Boot, BootClears, BootRollsBack, Kill, Runs, counts
<1>2. ASSUME NEW v \in Versions, MarkPending(v)
      PROVE  Goal
  BY <1>2 DEF MarkPending, Marked
<1>3. ASSUME Backup \/ Place \/ PlaceFails \/ Reexec \/ HandoverFails
      PROVE  Goal
  <2>1. mode' = mode /\ marker' \in {marker, {}} /\ watch' \in {watch, Disowned(watch)}
    BY <1>3 DEF Backup, Place, PlaceFails, Reexec, HandoverFails, counts
  <2> QED
    BY <2>1
<1>4. ASSUME Report \/ Look \/ Confirm \/ PowerLoss
      PROVE  Goal
  <2>1. mode' = mode /\ marker' \in {marker, {}} /\ watch' \in {watch, {}}
    BY <1>4 DEF Report, Look, Confirm, PowerLoss, counts
  <2> QED
    BY <2>1
<1>5. ASSUME NEW w \in watch, WatchdogConfirms(w) \/ WatchdogExpires(w)
      PROVE  Goal
  BY <1>5 DEF WatchdogConfirms, WatchdogExpires, counts
<1> HIDE DEF Goal
<1>6. Goal
  <2>1. CASE \E p \in Procs : Boot(p) \/ BootClears(p) \/ BootRollsBack(p) \/ Kill(p)
    BY <1>1, <2>1, Zenon
  <2>2. CASE \E w \in watch : WatchdogConfirms(w) \/ WatchdogExpires(w)
    BY <1>5, <2>2, Zenon
  <2> QED
    BY <1>2, <1>3, <1>4, <2>1, <2>2, Zenon DEF Next
<1> QED
  BY <1>6 DEF Goal

LEMMA DisownedAre ==
    ASSUME Typed, NEW ws \in SUBSET watch, NEW x \in Disowned(ws)
    PROVE  ~x.own /\ \E w \in ws : x.expect = w.expect /\ x.left = w.left
<1>1. PICK w \in ws : x = [w EXCEPT !.own = FALSE]
  BY DEF Disowned
<1>2. w \in Watcher
  BY DEF Typed, WatchOK
<1> QED
  BY <1>1, <1>2 DEF Watcher

\* A tick takes one from every watchdog's time, and adds one to the marker's age.
LEMMA TickWatch ==
    ASSUME Typed, Tick, NEW x \in watch'
    PROVE  \E w \in watch : /\ w.left > 0 /\ x.left = w.left - 1 /\ x.expect = w.expect
                            /\ x.own => x = [w EXCEPT !.left = w.left - 1] /\ w.own
                            /\ (~ \E p \in {"manager"} \cap Procs : proc[p].ver \in broken)
                               => x.own = w.own
<1> DEFINE dead == {p \in Procs : proc[p].ver \in broken}
           ws   == IF "manager" \in dead THEN Disowned(watch) ELSE watch
<1>1. PICK w \in ws : x = [w EXCEPT !.left = @ - 1]
  BY DEF Tick
<1>2. \A y \in watch : y \in Watcher /\ y.left > 0
  BY DEF Tick, Settled, Typed, WatchOK
<1>3. CASE "manager" \in dead
  <2>1. PICK y \in watch : w = [y EXCEPT !.own = FALSE]
    BY <1>1, <1>3 DEF Disowned
  <2>2. y \in Watcher /\ y.left > 0
    BY <1>2
  <2>3. w.left = y.left /\ w.expect = y.expect /\ ~w.own /\ w \in Watcher
    BY <2>1, <2>2 DEF Watcher
  <2>4. x.left = w.left - 1 /\ x.expect = w.expect /\ x.own = w.own
    BY <1>1, <2>3 DEF Watcher
  <2>5. \E p \in {"manager"} \cap Procs : proc[p].ver \in broken
    BY <1>3
  <2> QED
    BY <2>2, <2>3, <2>4, <2>5
<1>4. CASE "manager" \notin dead
  <2>1. w \in watch /\ w \in Watcher /\ w.left > 0
    BY <1>1, <1>2, <1>4
  <2>2. x.left = w.left - 1 /\ x.expect = w.expect /\ x.own = w.own
    BY <1>1, <2>1 DEF Watcher
  <2>3. x = [w EXCEPT !.left = w.left - 1]
    BY <1>1
  <2> QED
    BY <2>1, <2>2, <2>3
<1> QED
  BY <1>3, <1>4

\* Whatever a step but a handover or a tick does to them, the watchdogs left are old ones.
LEMMA WatchKept ==
    ASSUME Typed, Next, ~Handover, ~Tick, NEW x \in watch'
    PROVE  \E w \in watch : /\ x.expect = w.expect /\ x.left = w.left
                            /\ x.own => x = w
<1>1. watch' \subseteq watch \/ \E ws \in SUBSET watch : watch' = Disowned(ws)
  BY WatchNext
<1>2. CASE watch' \subseteq watch
  BY <1>2
<1>3. CASE \E ws \in SUBSET watch : watch' = Disowned(ws)
  <2>1. PICK ws \in SUBSET watch : watch' = Disowned(ws)
    BY <1>3
  <2>2. ~x.own /\ \E w \in ws : x.expect = w.expect /\ x.left = w.left
    BY <2>1, DisownedAre
  <2> QED
    BY <2>2
<1> QED
  BY <1>1, <1>2, <1>3

LEMMA HandoverWatch ==
    ASSUME Typed, Handover
    PROVE  /\ UNCHANGED <<mode, files, marker, vouched>> /\ mode = "managed"
           /\ confirmed' = None /\ files["backup"] # None
           /\ upd.stage = "placed" /\ upd.ver \in Versions /\ upd'.stage = "idle"
           /\ \A w \in watch : ~w.own
           /\ \A x \in watch' : x \in watch
                 \/ (x.own /\ x.expect = upd.ver /\ x.left = WatchdogTicks)
           /\ \A x, y \in watch' : x.own /\ y.own => x = y
<1> DEFINE new == [expect |-> upd.ver, left |-> WatchdogTicks, own |-> TRUE]
<1>1. watch' = watch \cup {new} /\ CanWatch
  BY DEF Handover
<1>2. \A w \in watch : ~w.own
  BY <1>1 DEF CanWatch
<1>3. new.own /\ new.expect = upd.ver /\ new.left = WatchdogTicks
  OBVIOUS
<1> HIDE DEF new
<1>4. /\ UNCHANGED <<mode, files, marker, vouched>> /\ mode = "managed"
      /\ confirmed' = None /\ files["backup"] # None
      /\ upd.stage = "placed" /\ upd.ver \in Versions /\ upd'.stage = "idle"
  BY DEF Handover, CanWatch, counts, Idle, Typed, UpdOK
<1>5. \A x \in watch' : x \in watch \/ x = new
  BY <1>1
<1>6. \A x, y \in watch' : x.own /\ y.own => x = y
  BY <1>2, <1>5
<1> QED
  BY <1>2, <1>3, <1>4, <1>5, <1>6

LEMMA MarkerAges ==
    ASSUME Typed
    PROVE  /\ \A k \in marker : k.age \in Nat
           /\ \A w \in watch : w.left \in Nat /\ w.left <= WatchdogTicks
<1>1. \A k \in marker : k \in Mark
  BY DEF Typed, FilesOK
<1>2. \A w \in watch : w \in Watcher
  BY DEF Typed, WatchOK
<1> QED
  BY <1>1, <1>2, Bounds DEF Mark, Watcher

LEMMA NextWatches ==
    ASSUME Typed, Pace, Watches, [Next]_vars
    PROVE  Watches'
<1>1. CASE UNCHANGED vars
  BY <1>1 DEF vars, Watches, Timed, OneOwn, NoWatch
<1>2. CASE Next /\ ~Handover /\ ~Tick
  <2>1. ASSUME NEW x \in watch'
        PROVE  \E w \in watch : /\ x.expect = w.expect /\ x.left = w.left
                                /\ x.own => x = w
    BY <1>2, <2>1, WatchKept
  <2>2. /\ mode' = mode
        /\ marker' \in {marker, {}} \/ (watch' = watch /\ \A k \in marker' : k.age = 0)
    BY <1>2, WatchNext
  <2>3. Timed'
    <3>1. ASSUME NEW k \in marker', NEW x \in watch'
          PROVE  k.age + x.left <= WatchdogTicks
      <4>1. PICK w \in watch : x.left = w.left
        BY <2>1
      <4>2. CASE k \in marker
        BY <4>1, <4>2 DEF Watches, Timed
      <4>3. CASE k.age = 0
        BY <4>1, <4>3, MarkerAges, Bounds
      <4> QED
        BY <2>2, <4>2, <4>3
    <3> QED
      BY <3>1 DEF Timed
  <2>4. OneOwn'
    <3>1. ASSUME NEW x \in watch', NEW y \in watch', x.own, y.own
          PROVE  x = y
      <4>1. x \in watch /\ y \in watch
        BY <2>1, <3>1
      <4> QED
        BY <3>1, <4>1 DEF Watches, OneOwn
    <3> QED
      BY <3>1 DEF OneOwn
  <2>5. NoWatch'
    BY <2>1, <2>2 DEF Watches, NoWatch
  <2> QED
    BY <2>3, <2>4, <2>5 DEF Watches
<1>3. CASE Handover
  <2>1. /\ mode' = mode /\ marker' = marker /\ mode = "managed" /\ upd.stage = "placed"
        /\ \A x \in watch' : x \in watch
                 \/ (x.own /\ x.expect = upd.ver /\ x.left = WatchdogTicks)
        /\ \A x, y \in watch' : x.own /\ y.own => x = y
    BY <1>3, HandoverWatch
  <2>2. \A k \in marker : k.age = 0
    BY <2>1 DEF Pace, FreshMarker
  <2>3. Timed'
    BY <2>1, <2>2, MarkerAges, Bounds DEF Timed
  <2> QED
    BY <2>1, <2>3 DEF Watches, OneOwn, NoWatch
<1>4. CASE Tick
  <2>1. mode' = mode
    BY <1>4 DEF Tick, counts
  <2>2. Timed'
    <3>1. ASSUME NEW k \in marker', NEW x \in watch'
          PROVE  k.age + x.left <= WatchdogTicks
      <4>1. PICK w \in watch : w.left > 0 /\ x.left = w.left - 1
        BY <1>4, TickWatch
      <4>2. PICK j \in marker : k = [j EXCEPT !.age = IF @ > ConfirmWindow THEN @ ELSE @ + 1]
        BY <1>4 DEF Tick
      <4>3. k.age = (IF j.age > ConfirmWindow THEN j.age ELSE j.age + 1)
        <5>1. j \in Mark
          BY DEF Typed, FilesOK
        <5> QED
          BY <4>2, <5>1 DEF Mark
      <4>4. j.age + w.left <= WatchdogTicks /\ j.age \in Nat /\ w.left \in Nat
        BY MarkerAges DEF Watches, Timed
      <4> QED
        BY <4>1, <4>3, <4>4, Bounds
    <3> QED
      BY <3>1 DEF Timed
  <2>3. OneOwn'
    <3>1. ASSUME NEW x \in watch', NEW y \in watch', x.own, y.own
          PROVE  x = y
      <4>1. PICK w \in watch : x = [w EXCEPT !.left = w.left - 1] /\ w.own
        BY <1>4, <3>1, TickWatch
      <4>2. PICK v \in watch : y = [v EXCEPT !.left = v.left - 1] /\ v.own
        BY <1>4, <3>1, TickWatch
      <4>3. w = v
        BY <4>1, <4>2 DEF Watches, OneOwn
      <4> QED
        BY <4>1, <4>2, <4>3
    <3> QED
      BY <3>1 DEF OneOwn
  <2>4. NoWatch'
    <3>1. watch = {} => watch' = {}
      <4>1. \A x \in watch' : \E w \in watch : x.expect = w.expect
        BY <1>4, TickWatch
      <4> QED
        BY <4>1
    <3> QED
      BY <2>1, <3>1 DEF Watches, NoWatch
  <2> QED
    BY <2>2, <2>3, <2>4 DEF Watches
<1> QED
  BY <1>1, <1>2, <1>3, <1>4

\* The manager's own file is .failed, or an installation replaces that one.
FailedAt == \/ proc["manager"].at = "failed"
            \/ upd.stage \in {"moved", "placed"} /\ upd.path = "failed"
\* The watchdog of the manager that runs, or will run, from .failed.
OwnOf(w) == /\ w.own
            /\ w.expect = (IF proc["manager"].up THEN proc["manager"].ver ELSE files["failed"])
            /\ w.expect \in vouched => confirmed = w.expect
\* Then no watchdog is left of another one: it would be older than the rollback.
Mine == mode = "managed" /\ FailedAt => \A w \in watch : OwnOf(w)

LEMMA SameMine ==
    ASSUME Mine, mode' = mode, watch' \subseteq watch, vouched' \subseteq vouched,
           confirmed' = confirmed,
           mode = "managed" /\ FailedAt' =>
              /\ FailedAt
              /\ proc'["manager"].up = proc["manager"].up
              /\ proc'["manager"].ver = proc["manager"].ver
              /\ proc["manager"].up \/ files'["failed"] = files["failed"]
    PROVE  Mine'
<1>1. ASSUME mode = "managed", FailedAt', NEW w \in watch'
      PROVE  OwnOf(w)'
  BY <1>1 DEF Mine, OwnOf
<1> QED
  BY <1>1 DEF Mine

LEMMA NoFailedMine ==
    ASSUME mode' = mode, mode = "managed" => proc'["manager"].at # "failed",
           mode = "managed" => upd'.stage = "idle"
    PROVE  Mine'
  BY DEF Mine, FailedAt

LEMMA NoWatchMine ==
    ASSUME watch' = {}
    PROVE  Mine'
  BY DEF Mine

LEMMA StartMine ==
    ASSUME Typed, Layout, Watches, Mine,
           NEW p \in Procs, Boot(p) \/ BootClears(p) \/ BootRollsBack(p)
    PROVE  Mine'
<1>1. CASE Boot(p) \/ BootClears(p)
  <2>1. /\ UNCHANGED <<mode, files, watch, vouched, confirmed, upd>> /\ ~proc[p].up
        /\ proc' = [proc EXCEPT ![p] = [up |-> TRUE, ver |-> files[proc[p].at], at |-> proc[p].at]]
    BY <1>1 DEF Boot, BootClears, Starts, Runs
  <2>2. CASE p = "manager"
    <3>1. /\ proc'["manager"].up /\ proc'["manager"].ver = files[proc["manager"].at]
          /\ proc'["manager"].at = proc["manager"].at
      BY <2>1, <2>2 DEF Typed, ProcOK
    <3>2. mode = "managed" /\ upd.stage = "idle"
      BY <2>1, <2>2, ProcsAre DEF Typed, Layout, UpdRuns, Updater
    <3>3. ASSUME FailedAt', NEW w \in watch'
          PROVE  OwnOf(w)'
      <4>1. proc["manager"].at = "failed"
        BY <2>1, <3>1, <3>2, <3>3 DEF FailedAt
      <4>2. OwnOf(w)
        BY <2>1, <3>2, <3>3, <4>1 DEF Mine, FailedAt
      <4> QED
        BY <2>1, <2>2, <3>1, <4>1, <4>2 DEF OwnOf
    <3> QED
      BY <3>3 DEF Mine
  <2>3. CASE p # "manager"
    <3>1. mode = "managed" => proc'["manager"] = proc["manager"]
      BY <2>1, <2>3, ProcsAre DEF Typed, ProcOK
    <3> QED
      BY <2>1, <3>1, SameMine DEF FailedAt
  <2> QED
    BY <2>2, <2>3
<1>2. CASE BootRollsBack(p)
  <2>1. mode' = mode /\ watch' = watch /\ RollsBack(p)
    BY <1>2 DEF BootRollsBack, counts
  <2>2. CASE mode = "managed"
    <3>1. p # "telemetry"
      BY <2>1, <2>2 DEF RollsBack, MayWrite
    <3>2. PICK k \in marker : k.age > ConfirmWindow
      BY <2>1, <3>1 DEF RollsBack, Stale
    <3>3. watch = {}
      <4> SUFFICES ASSUME NEW w \in watch PROVE FALSE
        OBVIOUS
      <4>1. k.age \in Nat /\ w.left \in Nat /\ k.age + w.left <= WatchdogTicks
        BY MarkerAges DEF Watches, Timed
      <4> QED
        BY <3>2, <4>1, UpdateAssumption
    <3> QED
      BY <2>1, <3>3, NoWatchMine
  <2>3. CASE mode # "managed"
    BY <2>1, <2>3 DEF Mine
  <2> QED
    BY <2>2, <2>3
<1> QED
  BY <1>1, <1>2

LEMMA InstallMine ==
    ASSUME Typed, Layout, Mine,
           (\E v \in Versions : MarkPending(v)) \/ Backup \/ Place \/ PlaceFails \/ Reexec
    PROVE  Mine'
<1>1. mode = "managed" => Updater = "manager" /\ "manager" \in Procs
  BY ProcsAre DEF Updater, Typed
<1>2. proc \in [Procs -> Process] /\ upd \in Install
  BY DEF Typed, ProcOK, UpdOK
<1>3. ASSUME NEW v \in Versions, MarkPending(v)
      PROVE  Mine'
  <2>1. UNCHANGED <<mode, files, watch, vouched, confirmed, proc>>
    BY <1>3 DEF MarkPending
  <2>2. upd'.stage = "marked"
    BY <1>3 DEF MarkPending
  <2> QED
    BY <2>1, <2>2, SameMine DEF FailedAt
<1>4. CASE Backup
  <2>1. UNCHANGED <<mode, watch, vouched, confirmed>> /\ upd.stage = "marked"
    BY <1>4 DEF Backup, counts
  <2>2. mode = "managed" => proc["manager"].up
    BY <1>1, <2>1 DEF Layout, UpdRuns
  <2>3. CASE upd.path # "gone" /\ files[upd.path] # None
    <3>1. /\ upd.path = proc[Updater].at
          /\ upd'.stage = "moved" /\ upd'.path = upd.path
          /\ proc' = Renamed(proc, upd.path, "backup")
      BY <1>4, <2>3, BackupMoves
    <3>2. mode = "managed" => /\ proc'["manager"].up = proc["manager"].up
                              /\ proc'["manager"].ver = proc["manager"].ver
                              /\ proc'["manager"].at = "backup"
      BY <1>1, <1>2, <2>2, <3>1, RenamedAt
    <3>3. mode = "managed" /\ FailedAt' => FailedAt
      BY <1>1, <3>1, <3>2 DEF FailedAt
    <3> QED
      BY <2>1, <2>2, <3>2, <3>3, SameMine
  <2>4. CASE ~(upd.path # "gone" /\ files[upd.path] # None)
    <3>1. upd' = Idle /\ proc' = Renamed(proc, "", "backup")
      BY <1>4, <2>4, Zenon DEF Backup
    <3>2. \E none : none \notin Paths \cup {"gone"} /\ proc' = Renamed(proc, none, "backup")
      BY <3>1, NoPath, Zenon
    <3>3. mode = "managed" => /\ proc'["manager"].up = proc["manager"].up
                              /\ proc'["manager"].ver = proc["manager"].ver
                              /\ proc'["manager"].at \in {proc["manager"].at, "gone"}
      BY <1>1, <1>2, <3>2, DroppedAt
    <3>4. upd'.stage = "idle"
      BY <3>1 DEF Idle
    <3>5. mode = "managed" /\ FailedAt' => FailedAt
      BY <3>3, <3>4 DEF FailedAt
    <3> QED
      BY <2>1, <2>2, <3>3, <3>5, SameMine
  <2> QED
    BY <2>3, <2>4
<1>5. CASE Place
  <2>1. /\ UNCHANGED <<mode, watch, confirmed, proc>> /\ upd.stage = "moved"
        /\ upd' = [upd EXCEPT !.stage = "placed"] /\ vouched' \subseteq vouched
    BY <1>5 DEF Place
  <2>2. mode = "managed" => proc["manager"].up
    BY <1>1, <2>1 DEF Layout, UpdRuns
  <2>3. upd'.path = upd.path
    BY <1>2, <2>1 DEF Install
  <2> QED
    BY <2>1, <2>2, <2>3, SameMine DEF FailedAt
<1>6. CASE PlaceFails
  <2>1. /\ UNCHANGED <<mode, watch, confirmed, vouched>> /\ upd.stage = "moved"
        /\ upd' = Idle /\ proc' = Renamed(proc, "backup", upd.path)
    BY <1>6 DEF PlaceFails
  <2>2. mode = "managed" => proc["manager"].up
    BY <1>1, <2>1 DEF Layout, UpdRuns
  <2>3. mode = "managed" =>
           /\ proc'["manager"].up = proc["manager"].up
           /\ proc'["manager"].ver = proc["manager"].ver
           /\ proc'["manager"].at = IF proc["manager"].at = "backup" THEN upd.path
                                    ELSE IF proc["manager"].at = upd.path THEN "gone"
                                    ELSE proc["manager"].at
    BY <1>1, <1>2, <2>1, <2>2, RenamedAt
  <2>4. upd'.stage = "idle"
    BY <2>1 DEF Idle
  <2>5. mode = "managed" /\ FailedAt' => FailedAt
    BY <2>1, <2>3, <2>4 DEF FailedAt
  <2> QED
    BY <2>1, <2>2, <2>3, <2>5, SameMine
<1>7. CASE Reexec
  BY <1>7 DEF Reexec, counts, Mine
<1> QED
  BY <1>3, <1>4, <1>5, <1>6, <1>7

LEMMA HandoffMine ==
    ASSUME Typed, Layout, Pace, Mine, Handover \/ HandoverFails
    PROVE  Mine'
<1>1. CASE Handover
  <2>1. /\ mode' = mode /\ mode = "managed" /\ files' = files /\ vouched' = vouched
        /\ upd.stage = "placed" /\ upd'.stage = "idle"
        /\ \A w \in watch : ~w.own
        /\ \A x \in watch' : x \in watch \/ (x.own /\ x.expect = upd.ver)
    BY <1>1, HandoverWatch
  <2>2. proc'["manager"].at = upd.path /\ ~proc'["manager"].up
    BY <1>1, HandoverDown
  <2>3. ASSUME FailedAt', NEW x \in watch'
        PROVE  OwnOf(x)'
    <3>1. upd.path = "failed"
      BY <2>1, <2>2, <2>3 DEF FailedAt
    <3>2. watch = {}
      BY <2>1, <3>1 DEF Mine, FailedAt, OwnOf
    <3>3. x.own /\ x.expect = upd.ver
      BY <2>1, <3>2
    <3>4. files["failed"] = upd.ver /\ upd.ver \notin vouched
      BY <2>1, <3>1 DEF Pace, PlacedFile
    <3> QED
      BY <2>1, <2>2, <3>3, <3>4 DEF OwnOf
  <2> QED
    BY <2>3 DEF Mine
<1>2. CASE HandoverFails
  <2> DEFINE ps == IF Refused(files) THEN proc ELSE RenamedBack(proc)
  <2>1. mode' = mode /\ mode = "managed" /\ upd' = Idle /\ proc' = Down(ps, {"manager"})
    BY <1>2 DEF HandoverFails, counts
  <2>2. proc \in [Procs -> Process] /\ "manager" \in Procs
    BY <2>1, ProcsAre DEF Typed, ProcOK
  <2>3. ps \in [Procs -> Process]
    <3>1. Renamed(proc, "binary", "failed") \in [Procs -> Process]
      BY <2>2, RenamedType DEF Paths
    <3> QED
      BY <2>2, <3>1, RenamedType DEF RenamedBack, Paths
  <2> HIDE DEF ps
  <2>4. proc'["manager"].at = "binary"
    BY <2>1, <2>2, <2>3, DownType
  <2> QED
    BY <2>1, <2>4, NoFailedMine DEF Idle
<1> QED
  BY <1>1, <1>2

\* A watchdog that ends beside a manager in .failed was its only one.
LEMMA WatchdogMine ==
    ASSUME Typed, Watches, Mine, NEW w \in watch,
           mode' = mode, watch' = watch \ {w} \/ watch' = Disowned(watch \ {w}),
           mode = "managed" /\ FailedAt' => FailedAt
    PROVE  Mine'
<1>1. CASE mode = "managed" /\ FailedAt
  <2>1. \A x \in watch : x.own
    BY <1>1 DEF Mine, OwnOf
  <2>2. watch \ {w} = {}
    BY <2>1 DEF Watches, OneOwn
  <2> HIDE DEF Disowned
  <2>3. Disowned({}) = {}
    BY DEF Disowned
  <2> QED
    BY <2>2, <2>3, NoWatchMine
<1>2. CASE ~(mode = "managed" /\ FailedAt)
  BY <1>2 DEF Mine
<1> QED
  BY <1>1, <1>2

LEMMA ConfirmationMine ==
    ASSUME Typed, Layout, Watches, Mine,
           Report \/ Look \/ Confirm
           \/ \E w \in watch : WatchdogConfirms(w) \/ WatchdogExpires(w)
    PROVE  Mine'
<1>1. CASE Report
  <2>1. CASE mode = "managed"
    <3>1. UNCHANGED <<mode, files, watch, vouched, confirmed, proc, upd>>
      BY <1>1, <2>1 DEF Report
    <3> QED
      BY <3>1, SameMine DEF FailedAt
  <2>2. CASE mode # "managed"
    BY <1>1, <2>2 DEF Report, Mine
  <2> QED
    BY <2>1, <2>2
<1>2. CASE Look
  BY <1>2, SameMine DEF Look, counts, FailedAt
<1>3. CASE Confirm
  <2>1. /\ UNCHANGED <<mode, files, watch, proc, upd>> /\ proc["manager"].up
        /\ confirmed' = proc["manager"].ver
    BY <1>3 DEF Confirm, Typed, LookOK
  <2>2. ASSUME mode = "managed", FailedAt', NEW w \in watch'
        PROVE  OwnOf(w)'
    <3>1. OwnOf(w)
      BY <2>1, <2>2 DEF Mine, FailedAt
    <3> QED
      BY <2>1, <3>1 DEF OwnOf
  <2> QED
    BY <2>1, <2>2 DEF Mine
<1>4. ASSUME NEW w \in watch, WatchdogConfirms(w)
      PROVE  Mine'
  <2>1. mode' = mode /\ watch' = watch \ {w} /\ upd' = upd
    BY <1>4 DEF WatchdogConfirms
  <2>2. \E none : none \notin Paths \cup {"gone"} /\ proc' = Renamed(proc, none, "backup")
    BY <1>4, NoPath, Zenon DEF WatchdogConfirms
  <2>3. mode = "managed" => proc'["manager"].at \in {proc["manager"].at, "gone"}
    BY <2>2, ProcsAre, DroppedAt DEF Typed, ProcOK
  <2>4. mode = "managed" /\ FailedAt' => FailedAt
    BY <2>1, <2>3 DEF FailedAt
  <2> QED
    BY <2>1, <2>4, WatchdogMine
<1>5. ASSUME NEW w \in watch, WatchdogExpires(w)
      PROVE  Mine'
  <2>1. mode' = mode /\ watch' = Disowned(watch \ {w})
    BY <1>5 DEF WatchdogExpires, counts
  <2>2. CASE Refused(files)
    <3>1. proc' = proc /\ upd' = upd
      BY <1>5, <2>2 DEF WatchdogExpires
    <3> QED
      BY <2>1, <3>1, WatchdogMine DEF FailedAt
  <2>3. CASE ~Refused(files)
    <3>1. proc' = Down(proc, Procs) /\ upd' = Idle
      BY <1>5, <2>3 DEF WatchdogExpires
    <3>2. mode = "managed" => proc'["manager"].at = "binary"
      BY <3>1, ProcsAre, DownType DEF Typed, ProcOK
    <3> QED
      BY <2>1, <3>1, <3>2, NoFailedMine DEF Idle
  <2> QED
    BY <2>2, <2>3
<1> QED
  BY <1>1, <1>2, <1>3, <1>4, <1>5

LEMMA EndMine ==
    ASSUME Typed, Layout, Mine, (\E p \in Procs : Kill(p)) \/ PowerLoss \/ Tick
    PROVE  Mine'
<1>1. /\ proc \in [Procs -> Process] /\ (mode = "managed" => "manager" \in Procs)
      /\ mode = "managed" => Updater = "manager"
  BY ProcsAre DEF Typed, ProcOK, Updater
<1>2. ASSUME NEW p \in Procs, Kill(p)
      PROVE  Mine'
  <2>1. /\ UNCHANGED <<mode, files, confirmed, vouched>> /\ proc' = Down(proc, {p})
        /\ upd' = IF p = Updater THEN Idle ELSE upd
        /\ watch' = IF p = "manager" THEN Disowned(watch) ELSE watch
    BY <1>2 DEF Kill
  <2>2. CASE mode = "managed" /\ p = "manager"
    <3>1. proc'[p].at = "binary"
      BY <1>1, <2>1, DownType
    <3>2. proc'["manager"].at = "binary" /\ upd' = Idle
      BY <1>1, <2>1, <2>2, <3>1
    <3> QED
      BY <2>1, <3>2, NoFailedMine DEF Idle
  <2>3. CASE mode = "managed" /\ p # "manager"
    <3>1. proc'["manager"] = proc["manager"] /\ upd' = upd /\ watch' = watch
      BY <1>1, <2>1, <2>3, DownType
    <3> QED
      BY <2>1, <3>1, SameMine DEF FailedAt
  <2>4. CASE mode # "managed"
    BY <2>1, <2>4 DEF Mine
  <2> QED
    BY <2>2, <2>3, <2>4
<1>3. CASE PowerLoss
  BY <1>3, NoWatchMine DEF PowerLoss
<1>4. CASE Tick
  <2>1. /\ UNCHANGED <<mode, files, confirmed, vouched, upd>> /\ upd.stage = "idle"
        /\ proc' = Down(proc, {p \in Procs : proc[p].ver \in broken})
    BY <1>4 DEF Tick, Settled, counts
  <2>2. CASE mode = "managed" /\ proc["manager"].ver \in broken
    <3>1. proc'["manager"].at = "binary"
      BY <1>1, <2>1, <2>2, DownType
    <3> QED
      BY <2>1, <3>1, NoFailedMine
  <2>3. CASE mode = "managed" /\ proc["manager"].ver \notin broken
    <3>1. proc'["manager"] = proc["manager"]
      BY <1>1, <2>1, <2>3, DownType
    <3>2. ~ \E p \in {"manager"} \cap Procs : proc[p].ver \in broken
      BY <2>3
    <3>3. ASSUME FailedAt', NEW x \in watch'
          PROVE  OwnOf(x)'
      <4>1. PICK w \in watch : x.expect = w.expect /\ x.own = w.own
        BY <1>4, <3>2, TickWatch
      <4>2. OwnOf(w)
        BY <2>1, <2>3, <3>1, <3>3 DEF Mine, FailedAt
      <4> QED
        BY <2>1, <3>1, <4>1, <4>2 DEF OwnOf
    <3> QED
      BY <3>3 DEF Mine
  <2>4. CASE mode # "managed"
    BY <2>1, <2>4 DEF Mine
  <2> QED
    BY <2>2, <2>3, <2>4
<1> QED
  BY <1>2, <1>3, <1>4

LEMMA NextMine ==
    ASSUME Typed, Layout, Pace, Watches, Mine, [Next]_vars
    PROVE  Mine'
<1>1. ASSUME NEW p \in Procs, Boot(p) \/ BootClears(p) \/ BootRollsBack(p) \/ Kill(p)
      PROVE  Mine'
  BY <1>1, StartMine, EndMine
<1>2. CASE (\E v \in Versions : MarkPending(v)) \/ Backup \/ Place \/ PlaceFails \/ Reexec
  BY <1>2, InstallMine
<1>3. CASE Handover \/ HandoverFails
  BY <1>3, HandoffMine
<1>4. CASE Report \/ Look \/ Confirm
           \/ \E w \in watch : WatchdogConfirms(w) \/ WatchdogExpires(w)
  BY <1>4, ConfirmationMine
<1>5. CASE PowerLoss \/ Tick
  BY <1>5, EndMine
<1>6. CASE UNCHANGED vars
  BY <1>6, SameMine DEF vars, FailedAt
<1> QED
  BY <1>1, <1>2, <1>3, <1>4, <1>5, <1>6, Zenon DEF Next

\* A confirmed version under the service's path is not one a watchdog would replace.
Spared(e) == e \in vouched /\ files["binary"] = e => confirmed = e \/ files["backup"] = None
AllSpared == \A w \in watch : Spared(w.expect)

LEMMA SameSpared ==
    ASSUME AllSpared, \A x \in watch' : \E w \in watch : x.expect = w.expect,
           \/ /\ files'["binary"] \in {files["binary"], None}
              /\ files'["backup"] = files["backup"]
              /\ vouched' \subseteq vouched /\ confirmed' = confirmed
           \/ files'["backup"] = None,
           Typed, None \notin vouched
    PROVE  AllSpared'
  BY DEF AllSpared, Spared

\* A manager that confirms itself is the service's file, or the backup is gone.
LEMMA ConfirmSpared ==
    ASSUME Typed, Layout, Pace, Mine, AllSpared, Confirm
    PROVE  AllSpared'
<1>1. /\ UNCHANGED <<mode, files, watch, proc, upd>> /\ mode = "managed"
      /\ proc["manager"].up /\ confirmed' = proc["manager"].ver
      /\ vouched' = vouched \cup {proc["manager"].ver}
  BY DEF Confirm, Typed, LookOK
<1>2. /\ Updater = "manager" /\ "manager" \in Procs
      /\ proc["manager"].at \in Paths \cup {"gone"}
  BY <1>1, ProcsAre DEF Updater, Typed, ProcOK, Process
<1>3. ASSUME NEW w \in watch, w.expect # proc["manager"].ver, w.expect \in vouched,
             files["binary"] = w.expect
      PROVE  files["backup"] = None
  <2>1. w.expect \in Versions
    BY DEF Typed, WatchOK, Watcher
  <2>2. proc["manager"].at # "binary"
    BY <1>1, <1>2, <1>3 DEF Layout, RunsItsFile, Located, Typed, ProcOK
  <2>3. ~FailedAt
    BY <1>1, <1>3 DEF Mine, OwnOf
  <2>4. proc["manager"].at # "backup"
    <3> SUFFICES ASSUME proc["manager"].at = "backup" PROVE FALSE
      OBVIOUS
    <3>1. upd.stage \in {"moved", "placed"} /\ upd.path \in Paths /\ upd.path # "backup"
      BY <1>2 DEF Layout, NotBackup, Typed, UpdOK
    <3>2. upd.path = "binary"
      BY <2>3, <3>1 DEF FailedAt, Paths
    <3>3. upd.stage = "moved" => files["binary"] = None
      BY <3>2 DEF Layout, MovedPath
    <3>4. upd.stage = "placed" => files["binary"] \notin vouched
      BY <3>2 DEF Pace, PlacedFile
    <3> QED
      BY <1>3, <2>1, <3>1, <3>3, <3>4, Bounds
  <2>5. proc["manager"].at = "gone"
    BY <1>2, <2>2, <2>3, <2>4 DEF Paths, FailedAt
  <2> QED
    BY <1>1, <1>2, <2>5 DEF Pace, GoneAlone
<1>4. ASSUME NEW w \in watch
      PROVE  Spared(w.expect)'
  <2>1. CASE w.expect = proc["manager"].ver
    BY <1>1, <2>1 DEF Spared
  <2>2. CASE w.expect # proc["manager"].ver
    BY <1>1, <1>3, <2>2 DEF Spared
  <2> QED
    BY <2>1, <2>2
<1> QED
  BY <1>1, <1>4 DEF AllSpared

LEMMA HandoverSpared ==
    ASSUME Typed, Layout, Pace, Mine, AllSpared, Handover
    PROVE  AllSpared'
<1>1. /\ UNCHANGED <<mode, files, vouched>> /\ mode = "managed"
      /\ upd.stage = "placed" /\ \A w \in watch : ~w.own
      /\ \A x \in watch' : x \in watch \/ x.expect = upd.ver
  BY HandoverWatch
<1>2. files[upd.path] = upd.ver /\ upd.ver \notin vouched
  BY <1>1 DEF Pace, PlacedFile
<1>3. upd.path = "binary" \/ upd.path = "failed"
  BY <1>1 DEF Typed, UpdOK, Paths, Layout, NotBackup
<1>4. CASE upd.path = "binary"
  BY <1>1, <1>2, <1>4 DEF AllSpared, Spared
<1>5. CASE upd.path = "failed"
  <2>1. watch = {}
    BY <1>1, <1>5 DEF Mine, FailedAt, OwnOf
  <2> QED
    BY <1>1, <1>2, <2>1 DEF AllSpared, Spared
<1> QED
  BY <1>3, <1>4, <1>5

LEMMA InstallSpared ==
    ASSUME Typed, Layout, Watches, Mine, AllSpared,
           (\E v \in Versions : MarkPending(v)) \/ Backup \/ Place \/ PlaceFails \/ Reexec
    PROVE  AllSpared'
<1>0. None \notin vouched /\ files \in Files
  BY Bounds DEF Typed, WatchOK, FilesOK
<1>1. CASE (\E v \in Versions : MarkPending(v)) \/ Reexec
  <2>1. UNCHANGED <<files, watch, vouched, confirmed>>
    BY <1>1 DEF MarkPending, Reexec, counts
  <2> QED
    BY <2>1 DEF AllSpared, Spared
<1>2. CASE Backup
  <2>1. UNCHANGED <<watch, vouched, confirmed>> /\ upd.stage = "marked"
    BY <1>2 DEF Backup, counts
  <2>2. CASE upd.path # "gone" /\ files[upd.path] # None
    <3>1. /\ upd.path = proc[Updater].at /\ upd.path # "backup" /\ upd.path \in Paths
          /\ files' = [files EXCEPT !["backup"] = files[upd.path], ![upd.path] = None]
      BY <1>2, <2>2, BackupMoves
    <3>2. CASE upd.path = "binary"
      <4>1. files'["binary"] = None
        BY <1>0, <3>1, <3>2 DEF Files, Paths
      <4> QED
        BY <1>0, <2>1, <4>1 DEF AllSpared, Spared
    <3>3. CASE upd.path = "failed"
      <4>1. files'["binary"] = files["binary"]
        BY <1>0, <3>1, <3>3 DEF Files, Paths
      <4>2. ASSUME NEW w \in watch, w.expect \in vouched
            PROVE  confirmed = w.expect
        <5>1. mode = "managed"
          BY <4>2 DEF Watches, NoWatch, Typed, ModeOK
        <5>2. FailedAt
          BY <3>1, <3>3, <5>1 DEF FailedAt, Updater
        <5> QED
          BY <4>2, <5>1, <5>2 DEF Mine, OwnOf
      <4> QED
        BY <2>1, <4>2 DEF AllSpared, Spared
    <3> QED
      BY <3>1, <3>2, <3>3 DEF Paths
  <2>3. CASE ~(upd.path # "gone" /\ files[upd.path] # None)
    <3>1. files' = [files EXCEPT !.backup = None]
      BY <1>2, <2>3 DEF Backup
    <3>2. files'["backup"] = None
      BY <1>0, <3>1 DEF Files, Paths
    <3> QED
      BY <2>1, <3>2 DEF AllSpared, Spared
  <2> QED
    BY <2>2, <2>3
<1>3. CASE Place
  <2>1. /\ watch' = watch /\ confirmed' = confirmed /\ vouched' = vouched \ {upd.ver}
        /\ files' = [files EXCEPT ![upd.path] = upd.ver]
        /\ upd.path \in Paths /\ upd.path # "backup"
    BY <1>3 DEF Place, Typed, UpdOK, Layout, NotBackup
  <2>2. /\ files'["backup"] = files["backup"]
        /\ files'["binary"] \in {files["binary"], upd.ver}
    BY <1>0, <2>1 DEF Files, Paths
  <2> QED
    BY <2>1, <2>2 DEF AllSpared, Spared
<1>4. CASE PlaceFails
  <2>1. /\ watch' = watch
        /\ files' = [files EXCEPT ![upd.path] = files["backup"], !["backup"] = None]
    BY <1>4 DEF PlaceFails, PutBack
  <2>2. files'["backup"] = None
    BY <1>0, <2>1 DEF Files, Paths
  <2> QED
    BY <2>1, <2>2 DEF AllSpared, Spared
<1> QED
  BY <1>1, <1>2, <1>3, <1>4

LEMMA NextSpared ==
    ASSUME Typed, Layout, Pace, Watches, Mine, AllSpared, [Next]_vars
    PROVE  AllSpared'
<1>0. None \notin vouched /\ files \in Files
  BY Bounds DEF Typed, WatchOK, FilesOK
<1>1. /\ files' = [files EXCEPT !.backup = None] => files'["backup"] = None
      /\ files' = RolledBack(files) => files'["backup"] = None
  BY <1>0 DEF RolledBack, Files, Paths
<1>2. CASE UNCHANGED vars
  BY <1>2 DEF vars, AllSpared, Spared
<1>3. CASE Handover
  BY <1>3, HandoverSpared
<1>4. CASE Confirm
  BY <1>4, ConfirmSpared
<1>5. CASE (\E v \in Versions : MarkPending(v)) \/ Backup \/ Place \/ PlaceFails \/ Reexec
  BY <1>5, InstallSpared
<1>6. CASE PowerLoss
  BY <1>6 DEF PowerLoss, AllSpared
<1>7. CASE Tick
  <2>1. UNCHANGED <<files, vouched, confirmed>>
    BY <1>7 DEF Tick, counts
  <2>2. \A x \in watch' : \E w \in watch : x.expect = w.expect
    BY <1>7, TickWatch
  <2> QED
    BY <1>0, <2>1, <2>2, SameSpared
<1>8. ASSUME Next, ~Handover, ~Tick
      PROVE  \A x \in watch' : \E w \in watch : x.expect = w.expect
  BY <1>8, WatchKept
<1>9. ASSUME NEW p \in Procs, Boot(p) \/ BootClears(p) \/ Kill(p)
      PROVE  UNCHANGED <<files, vouched, confirmed>>
  BY <1>9 DEF Boot, BootClears, Kill, Runs
<1>10. ASSUME NEW p \in Procs, BootRollsBack(p)
       PROVE  files'["backup"] = None
  BY <1>1, <1>10 DEF BootRollsBack
<1>11. ASSUME HandoverFails
       PROVE  files'["backup"] = None \/ UNCHANGED <<files, vouched, confirmed>>
  BY <1>1, <1>11 DEF HandoverFails, counts
<1>12. ASSUME Report \/ Look
       PROVE  files'["backup"] = None \/ UNCHANGED <<files, vouched, confirmed>>
  <2>1. \/ files' = [files EXCEPT !.backup = None]
        \/ UNCHANGED <<files, vouched, confirmed>>
    BY <1>12 DEF Report, Look, counts
  <2> QED
    BY <1>1, <2>1
<1>13. ASSUME NEW w \in watch, WatchdogConfirms(w) \/ WatchdogExpires(w)
       PROVE  files'["backup"] = None \/ UNCHANGED <<files, vouched, confirmed>>
  <2>1. \/ files' = [files EXCEPT !.backup = None] \/ files' = RolledBack(files)
        \/ UNCHANGED <<files, vouched, confirmed>>
    BY <1>13 DEF WatchdogConfirms, WatchdogExpires, counts
  <2> QED
    BY <1>1, <2>1
<1>14. CASE /\ Next /\ ~Handover /\ ~Tick /\ ~Confirm /\ ~PowerLoss
            /\ ~((\E v \in Versions : MarkPending(v)) \/ Backup \/ Place \/ PlaceFails \/ Reexec)
  <2>1. files'["backup"] = None \/ UNCHANGED <<files, vouched, confirmed>>
    BY <1>9, <1>10, <1>11, <1>12, <1>13, <1>14, Zenon DEF Next
  <2> QED
    BY <1>0, <1>8, <1>14, <2>1, SameSpared
<1> QED
  BY <1>2, <1>3, <1>4, <1>5, <1>6, <1>7, <1>14

Kept == Pace /\ Watches /\ Mine /\ AllSpared

LEMMA InitKept == Init => Kept
<1> SUFFICES ASSUME Init PROVE Kept
  OBVIOUS
<1>1. /\ upd.stage = "idle" /\ marker = {} /\ watch = {}
      /\ proc = [p \in Procs |-> [up |-> FALSE, ver |-> None, at |-> "binary"]]
      /\ mode \in {"managed", "rootless"}
  BY DEF Init, Idle
<1>2. ~proc[Updater].up
  BY <1>1 DEF Updater, Procs
<1> QED
  BY <1>1, <1>2 DEF Kept, Pace, FreshMarker, UpdNewer, PlacedFile, GoneAlone, Watches, Timed,
     OneOwn, NoWatch, Mine, AllSpared

LEMMA NextKept ==
    ASSUME Typed, Layout, Kept, [Next]_vars
    PROVE  Kept'
<1> USE DEF Kept
<1>1. Layout'
  BY NextLayout
<1> QED
  BY <1>1, NextPace, NextWatches, NextMine, NextSpared

(***************************************************************************)
(* A watchdog never rolls back the version it was started for once that    *)
(* version's manager has confirmed it (manager.rs:286).  The confirmation  *)
(* file holds one version at a time, so the invariant says who may still   *)
(* overwrite or outlive it: no watchdog is older than the marker of its    *)
(* installation, and a manager that runs from .failed after a rollback has *)
(* no other's watchdog beside it.                                          *)
(***************************************************************************)
THEOREM ConfirmedVersionsStay == Spec => ConfirmedIsKept
<1> DEFINE Keeps == \A w \in watch : /\ WatchdogExpires(w) /\ files.binary = w.expect
                                     /\ files'.binary # files.binary
                       => w.expect \notin vouched
<1>1. Typed /\ Kept /\ [Next]_vars => [Keeps]_vars
  <2> SUFFICES ASSUME Kept, NEW w \in watch, WatchdogExpires(w), files["binary"] = w.expect,
                      files'["binary"] # files["binary"]
               PROVE  w.expect \notin vouched
    OBVIOUS
  <2>1. ~Refused(files) /\ confirmed # w.expect
    BY DEF WatchdogExpires, Expired
  <2>2. files["backup"] # None
    BY <2>1 DEF Refused
  <2>3. Spared(w.expect)
    BY DEF Kept, AllSpared
  <2> QED
    BY <2>1, <2>2, <2>3 DEF Spared
<1>2. Spec => [](Typed /\ Layout /\ Kept)
  BY AlwaysTyped, AlwaysLayout, InitKept, NextKept, PTL DEF Spec
<1>3. Spec => [][Keeps]_vars
  BY <1>1, <1>2, PTL DEF Spec
<1> QED
  BY <1>3 DEF ConfirmedIsKept
=============================================================================
