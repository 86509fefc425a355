---------------------------- MODULE AgentUpdate ----------------------------
(***************************************************************************)
(* The Agent replaces its own executable: agent/src/updater.rs, the update *)
(* part of agent/src/manager.rs and the start of agent/src/main.rs.        *)
(*                                                                         *)
(* An installation writes a pending marker, moves the executable to .bak   *)
(* and a downloaded one into its place.  Two nets catch a version that     *)
(* does not work.  Any start that finds an old marker puts .bak back.      *)
(* Where a privileged manager runs ("managed"), a watchdog started from    *)
(* .bak puts it back unless the new manager confirms in time that it sees  *)
(* a steady telemetry process.  A successful report confirms the update:   *)
(* it removes the marker and, where the process may, .bak ("rootless").    *)
(*                                                                         *)
(* A version of `broken` dies soon after every start and never reports.    *)
(* Paths are named binary, backup (.bak) and failed (.failed); a process   *)
(* remembers under which path its own file is now (current_exe), "gone"    *)
(* when it was removed.                                                    *)
(***************************************************************************)
EXTENDS Integers, FiniteSets

CONSTANTS
    Versions,       \* versions, 1 is the one installed at first
    FirstLook,      \* ticks from a manager's start to its first look, and to
                    \* the first update check (60 s each)
    Stability,      \* ticks between its two looks (30 s)
    WatchdogTicks,  \* ticks a watchdog waits for the confirmation (180 s)
    ConfirmWindow,  \* ticks after which a marker is stale (1800 s)
    MaxInstalls,    \* bound: installations begun
    MaxFaults       \* bound: processes killed, power losses, failing renames

ASSUME UpdateAssumption ==
    /\ Versions \subseteq Nat \ {0} /\ 1 \in Versions
    /\ {FirstLook, Stability, WatchdogTicks, ConfirmWindow} \subseteq Nat \ {0}
    /\ FirstLook + Stability < WatchdogTicks /\ WatchdogTicks < ConfirmWindow
    /\ MaxInstalls \in Nat /\ MaxFaults \in Nat

VARIABLES
    mode,       \* how the Agent was installed: "managed" or "rootless"
    broken,     \* the versions that do not work
    files,      \* the version under each path, None where there is no file
    marker,     \* the pending marker: set of at most one [ver, age]
    confirmed,  \* the version in the manager's confirmation file
    proc,       \* per process: running, version, path of its file
    upd,        \* the updater's installation: stage, path it replaces, version
    age,        \* ticks since the updater's process started
    look,       \* the new manager's confirmation thread
    watch,      \* running watchdogs: [expect, left, own]
    installs, faults,
    vouched,    \* installed versions a manager confirmed (history)
    raced,      \* the last installation lost its marker or backup to a process
                \* or watchdog of another version (history)
    cut         \* the Agent ended between the two renames, or the second one
                \* failed when the backup was gone (history)

vars == <<mode, broken, files, marker, confirmed, proc, upd, age, look, watch,
          installs, faults, vouched, raced, cut>>
counts == <<mode, broken, installs, vouched, raced, cut>>

None == 0
Idle == [stage |-> "idle", path |-> "binary", ver |-> None]
Procs == IF mode = "managed" THEN {"telemetry", "manager"} ELSE {"telemetry"}
Updater == IF mode = "managed" THEN "manager" ELSE "telemetry"
ConfirmAt == FirstLook + Stability
Up(p) == p \in Procs /\ proc[p].up

\* A rename from one path to another takes along the file of the processes
\* that run it; what was under the other path is gone.
Renamed(ps, from, to) ==
    [p \in DOMAIN ps |->
        IF ~ps[p].up THEN ps[p]
        ELSE IF ps[p].at = from THEN [ps[p] EXCEPT !.at = to]
        ELSE IF ps[p].at = to THEN [ps[p] EXCEPT !.at = "gone"] ELSE ps[p]]

\* A process that ended is started by its supervisor from the service's path.
Down(ps, who) ==
    [p \in DOMAIN ps |->
        IF p \in who THEN [up |-> FALSE, ver |-> None, at |-> "binary"]
        ELSE ps[p]]
LookLost(who) ==
    IF "manager" \in who THEN "off"
    ELSE IF "telemetry" \in who /\ look = "watching" THEN "lost" ELSE look
\* A transient unit is named after the pid of the manager that started it.
Disowned(ws) == {[w EXCEPT !.own = FALSE] : w \in ws}

Init ==
    /\ mode \in {"managed", "rootless"}
    /\ broken \in SUBSET (Versions \ {1})
    /\ files = [binary |-> 1, backup |-> None, failed |-> None]
    /\ marker = {} /\ confirmed = None /\ watch = {}
    /\ proc = [p \in Procs |-> [up |-> FALSE, ver |-> None, at |-> "binary"]]
    /\ upd = Idle /\ age = 0 /\ look = "off"
    /\ installs = 0 /\ faults = 0
    /\ vouched = {} /\ raced = FALSE /\ cut = FALSE

-----------------------------------------------------------------------------
(***************************************************************************)
(* A process starts: main, up to the manager's confirmation thread.        *)
(***************************************************************************)

\* The marker of a privileged manager is readable by root only; the telemetry
\* user takes an unreadable marker for an old one.
Stale(p) == \E k \in marker : \/ k.age > ConfirmWindow
                              \/ (mode = "managed" /\ p = "telemetry")
MayWrite(p) == mode = "rootless" \/ p = "manager"

Starts(p) == /\ p \in Procs /\ ~proc[p].up
             /\ files[proc[p].at] # None

\* The process runs the file under its path and stays there.
Runs(p) ==
    /\ proc' = [proc EXCEPT ![p] = [up |-> TRUE, ver |-> files[proc[p].at],
                                    at |-> proc[p].at]]
    /\ age' = IF p = Updater THEN 0 ELSE age
    /\ look' = IF p = "manager"
               THEN IF files.backup # None THEN "waiting" ELSE "off"
               ELSE look
    /\ UNCHANGED <<mode, broken, files, confirmed, upd, watch, installs, faults,
                   vouched, cut>>

\* There is no marker, a fresh one, or an old one this process cannot act on.
Boot(p) ==
    /\ Starts(p)
    /\ Stale(p) => files.backup # None /\ ~MayWrite(p)
    /\ Runs(p)
    /\ UNCHANGED <<marker, raced>>

\* An old marker without a backup is removed; the telemetry user removes a
\* fresh one as well, when an installation has not moved the executable yet.
BootClears(p) ==
    /\ Starts(p) /\ Stale(p) /\ files.backup = None
    /\ Runs(p)
    /\ marker' = {}
    /\ raced' = (raced \/ upd.stage # "idle")

\* An old marker: the executable becomes .failed, .bak the executable.  Then
\* main executes current_exe, the file that was just renamed to .failed.  (A
\* process starts from .failed with a fresh marker or none: the code's removal
\* of an earlier .failed does not meet its own executable.)
RollsBack(p) == /\ Starts(p) /\ proc[p].at = "binary" /\ Stale(p)
                /\ files.backup # None /\ MayWrite(p)
RolledBackDropped(fs) == [fs EXCEPT !.failed = fs.binary, !.backup = None]

RolledBack(fs) == [fs EXCEPT !.failed = fs.binary, !.binary = fs.backup,
                             !.backup = None]
RenamedBack(ps) == Renamed(Renamed(ps, "binary", "failed"), "backup", "binary")
BootRollsBack(p) ==
    /\ RollsBack(p)
    /\ files' = RolledBack(files)
    /\ proc' = [RenamedBack(proc) EXCEPT ![p].at = "failed"]
    /\ marker' = {}
    /\ UNCHANGED <<confirmed, upd, age, look, watch, faults, counts>>

-----------------------------------------------------------------------------
(***************************************************************************)
(* The update worker: install_linux_update, then the restart by the main   *)
(* loop of the process.                                                    *)
(***************************************************************************)

MarkedLate(v) == marker

Marked(v) == {[ver |-> v, age |-> 0]}

\* A newer version was downloaded and verified; the marker is written first.
MarkPending(v) ==
    /\ Up(Updater) /\ proc[Updater].ver \notin broken
    /\ upd.stage = "idle" /\ age >= FirstLook
    /\ v > proc[Updater].ver /\ installs < MaxInstalls
    /\ installs' = installs + 1
    /\ marker' = Marked(v)
    /\ upd' = [stage |-> "marked", path |-> proc[Updater].at, ver |-> v]
    /\ raced' = FALSE
    /\ UNCHANGED <<mode, broken, files, confirmed, proc, age, look, watch,
                   faults, vouched, cut>>

\* The old backup is removed, the executable renamed to .bak.
Backup ==
    /\ upd.stage = "marked"
    /\ IF upd.path # "gone" /\ files[upd.path] # None
       THEN /\ files' = [files EXCEPT !.backup = files[upd.path], ![upd.path] = None]
            /\ proc' = Renamed(proc, upd.path, "backup")
            /\ upd' = [upd EXCEPT !.stage = "moved"]
       ELSE /\ files' = [files EXCEPT !.backup = None]
            /\ proc' = Renamed(proc, "", "backup")
            /\ upd' = Idle
    /\ UNCHANGED <<marker, confirmed, age, look, watch, faults, counts>>

Place ==
    /\ upd.stage = "moved"
    /\ files' = [files EXCEPT ![upd.path] = upd.ver]
    /\ upd' = [upd EXCEPT !.stage = "placed"]
    /\ vouched' = vouched \ {upd.ver}
    /\ UNCHANGED <<mode, broken, marker, confirmed, proc, age, look, watch,
                   installs, faults, raced, cut>>

PutBackNothing(fs) == fs

\* The second rename fails: the backup goes back, if it is still there.
PutBack(fs) == [fs EXCEPT ![upd.path] = fs.backup, !.backup = None]
PlaceFails ==
    /\ upd.stage = "moved" /\ faults < MaxFaults
    /\ faults' = faults + 1
    /\ files' = PutBack(files)
    /\ proc' = Renamed(proc, "backup", upd.path)
    /\ marker' = {}
    /\ upd' = Idle
    /\ cut' = (cut \/ files.backup = None)
    /\ UNCHANGED <<mode, broken, confirmed, age, look, watch, installs, vouched,
                   raced>>

\* A rootless Agent executes the path it has just replaced.
Reexec ==
    /\ upd.stage = "placed" /\ mode = "rootless"
    /\ proc' = [proc EXCEPT ![Updater] =
                   [up |-> FALSE, ver |-> None, at |-> upd.path]]
    /\ upd' = Idle
    /\ UNCHANGED <<files, marker, confirmed, age, look, watch, faults, counts>>

\* The manager starts a watchdog from .bak, restarts the telemetry service
\* and executes the new file in its own place: its pid stays.
CanWatch == files.backup # None /\ ~ \E w \in watch : w.own
Handover ==
    /\ upd.stage = "placed" /\ mode = "managed" /\ CanWatch
    /\ confirmed' = None
    /\ watch' = watch \cup {[expect |-> upd.ver, left |-> WatchdogTicks, own |-> TRUE]}
    /\ proc' = [Down(proc, {"telemetry", "manager"}) EXCEPT !["manager"].at = upd.path]
    /\ upd' = Idle /\ look' = "off"
    /\ UNCHANGED <<files, marker, age, faults, counts>>

\* The watchdog does not start: rollback_failed_update, and the manager ends.
Refused(fs) == fs.binary = None \/ fs.backup = None
HandoverFails ==
    /\ upd.stage = "placed" /\ mode = "managed" /\ ~CanWatch
    /\ files' = IF Refused(files) THEN files ELSE RolledBack(files)
    /\ confirmed' = IF Refused(files) THEN confirmed ELSE None
    /\ proc' = Down(IF Refused(files) THEN proc ELSE RenamedBack(proc), {"manager"})
    /\ upd' = Idle /\ look' = "off"
    /\ watch' = Disowned(watch)
    /\ UNCHANGED <<marker, age, faults, counts>>

-----------------------------------------------------------------------------
(***************************************************************************)
(* Confirmation by a report, by the manager, and the watchdog.             *)
(***************************************************************************)

\* confirm_pending_update after every accepted report, by whatever version.
Report ==
    /\ Up("telemetry") /\ proc["telemetry"].ver \notin broken
    /\ marker # {}
    /\ marker' = {}
    /\ IF mode = "rootless"
       THEN /\ files' = [files EXCEPT !.backup = None]
            /\ proc' = Renamed(proc, "", "backup")
       ELSE UNCHANGED <<files, proc>>
    /\ raced' = (raced \/ \E k \in marker : k.ver # proc["telemetry"].ver)
    /\ UNCHANGED <<mode, broken, confirmed, upd, age, look, watch, installs,
                   faults, vouched, cut>>

\* spawn_update_confirmation: two looks at the telemetry process.
Look ==
    /\ look = "waiting" /\ Up("manager") /\ age >= FirstLook
    /\ look' = IF Up("telemetry") THEN "watching" ELSE "lost"
    /\ UNCHANGED <<files, marker, confirmed, proc, upd, age, watch, faults, counts>>

Confirm ==
    /\ look = "watching" /\ age >= ConfirmAt
    /\ look' = "off"
    /\ confirmed' = proc["manager"].ver
    /\ vouched' = vouched \cup {proc["manager"].ver}
    /\ UNCHANGED <<mode, broken, files, marker, proc, upd, age, watch, installs,
                   faults, raced, cut>>

\* run_update_watchdog reads the confirmation it expects: it removes the
\* backup under its path, whichever version that is by now.
WatchdogConfirms(w) ==
    /\ w \in watch /\ confirmed = w.expect
    /\ watch' = watch \ {w}
    /\ confirmed' = None
    /\ files' = [files EXCEPT !.backup = None]
    /\ proc' = Renamed(proc, "", "backup")
    /\ raced' = (raced \/ upd.stage \in {"moved", "placed"}
                       \/ files.binary # w.expect)
    /\ UNCHANGED <<mode, broken, marker, upd, age, look, installs, faults,
                   vouched, cut>>

ExpiredAnyway(w) == w.left = 0

Expired(w) == w.left = 0 /\ confirmed # w.expect

\* The watchdog's time is over: the backup is restored, both services restart.
WatchdogExpires(w) ==
    /\ w \in watch /\ Expired(w)
    /\ watch' = Disowned(watch \ {w})
    /\ IF Refused(files)
       THEN UNCHANGED <<files, proc, upd, look, confirmed>>
       ELSE /\ files' = RolledBack(files)
            /\ proc' = Down(proc, Procs)
            /\ upd' = Idle /\ look' = "off" /\ confirmed' = None
    /\ UNCHANGED <<marker, age, faults, counts>>

-----------------------------------------------------------------------------
(***************************************************************************)
(* Faults and time.                                                        *)
(***************************************************************************)
Kill(p) ==
    /\ Up(p) /\ faults < MaxFaults
    /\ faults' = faults + 1
    /\ proc' = Down(proc, {p})
    /\ look' = LookLost({p})
    /\ upd' = IF p = Updater THEN Idle ELSE upd
    /\ watch' = IF p = "manager" THEN Disowned(watch) ELSE watch
    /\ cut' = (cut \/ (p = Updater /\ upd.stage = "moved"))
    /\ UNCHANGED <<mode, broken, files, marker, confirmed, age, installs,
                   vouched, raced>>

\* The machine loses its power, perhaps between the two renames of a rollback.
PowerLoss ==
    /\ faults < MaxFaults
    /\ faults' = faults + 1
    /\ proc' = Down(proc, Procs)
    /\ look' = "off" /\ upd' = Idle /\ watch' = {}
    /\ \/ /\ \/ \E p \in Procs : RollsBack(p)
             \/ \E w \in watch : Expired(w) /\ ~Refused(files)
          /\ files' = [files EXCEPT !.failed = files.binary, !.binary = None]
          /\ cut' = TRUE
       \/ /\ UNCHANGED files
          /\ cut' = (cut \/ upd.stage = "moved")
    /\ UNCHANGED <<mode, broken, marker, confirmed, age, installs, vouched, raced>>

\* A tick is longer than a restart by the supervisor, the manager's loop and
\* the watchdog's poll: what they have to do is done first.  A broken version
\* dies within the tick.
Settled ==
    /\ \A p \in Procs : \/ proc[p].up
                        \/ proc[p].at = "binary" /\ files.binary = None
    /\ upd.stage = "idle"
    /\ ~(look = "waiting" /\ age >= FirstLook)
    /\ ~(look = "watching" /\ age >= ConfirmAt)
    /\ \A w \in watch : w.left > 0 /\ w.expect # confirmed
Tick ==
    /\ Settled
    /\ LET dead == {p \in Procs : proc[p].ver \in broken} IN
       /\ proc' = Down(proc, dead)
       /\ look' = LookLost(dead)
       /\ watch' = {[w EXCEPT !.left = @ - 1] : w \in
                       IF "manager" \in dead THEN Disowned(watch) ELSE watch}
    /\ marker' = {[k EXCEPT !.age = IF @ > ConfirmWindow THEN @ ELSE @ + 1] : k \in marker}
    /\ age' = IF age < ConfirmAt THEN age + 1 ELSE age
    /\ UNCHANGED <<files, confirmed, upd, faults, counts>>

Next ==
    \/ \E p \in Procs : \/ Boot(p) \/ BootClears(p) \/ BootRollsBack(p) \/ Kill(p)
    \/ \E v \in Versions : MarkPending(v)
    \/ Backup \/ Place \/ PlaceFails \/ Reexec \/ Handover \/ HandoverFails
    \/ Report \/ Look \/ Confirm
    \/ \E w \in watch : WatchdogConfirms(w) \/ WatchdogExpires(w)
    \/ PowerLoss \/ Tick

Spec == Init /\ [][Next]_vars

\* Supervisors restart what ended, threads and watchdogs go on, time passes.
Proceeds ==
    \/ \E p \in Procs : Boot(p) \/ BootClears(p) \/ BootRollsBack(p)
    \/ Backup \/ Place \/ Reexec \/ Handover \/ HandoverFails
    \/ Look \/ Confirm
    \/ \E w \in watch : WatchdogConfirms(w) \/ WatchdogExpires(w)
FairSpec == Spec /\ WF_vars(Proceeds) /\ WF_vars(Tick)

-----------------------------------------------------------------------------
(***************************************************************************)
(* Properties.                                                             *)
(***************************************************************************)

\* Every variable keeps its type, and the files carry versions.
TypeOK ==
    /\ mode \in {"managed", "rootless"} /\ broken \subseteq Versions
    /\ files \in [{"binary", "backup", "failed"} -> Versions \cup {None}]
    /\ marker \subseteq [ver : Versions, age : 0..ConfirmWindow + 1]
    /\ Cardinality(marker) <= 1
    /\ confirmed \in Versions \cup {None}
    /\ proc \in [Procs -> [up : BOOLEAN, ver : Versions \cup {None},
                           at : {"binary", "backup", "failed", "gone"}]]
    /\ upd \in [stage : {"idle", "marked", "moved", "placed"},
                path : {"binary", "backup", "failed", "gone"},
                ver : Versions \cup {None}]
    /\ age \in 0..ConfirmAt
    /\ look \in {"off", "waiting", "watching", "lost"}
    /\ watch \subseteq [expect : Versions, left : 0..WatchdogTicks, own : BOOLEAN]
    /\ installs \in 0..MaxInstalls /\ faults \in 0..MaxFaults
    /\ vouched \subseteq Versions /\ raced \in BOOLEAN /\ cut \in BOOLEAN

\* The service's path has an executable at all times except between the two
\* renames of an installation, unless the Agent ended right there or a report
\* of the old process had removed the backup that a failing rename restores
\* (updater.rs:628, manager.rs:405).
PathHasExecutable ==
    files.binary = None => cut \/ upd.stage = "moved"

\* While a version that does not work is under the service's path, a working
\* one is beside it and a marker or a watchdog will bring it back
\* (updater.rs:622, manager.rs:240).
BrokenCanBeLeft ==
    files.binary \in broken =>
        \/ raced \/ cut
        \/ /\ files.backup \notin broken \cup {None}
           /\ marker # {} \/ watch # {}

\* A watchdog never rolls back the version it was started for once that
\* version's manager has confirmed it (manager.rs:286).
ConfirmedIsKept ==
    [][\A w \in watch : /\ WatchdogExpires(w) /\ files.binary = w.expect
                        /\ files'.binary # files.binary
           => w.expect \notin vouched]_vars

\* A version that does not work leaves the service's path in the end
\* (updater.rs:426, manager.rs:296).
BrokenIsLeft ==
    files.binary \in broken ~> (files.binary \notin broken \/ raced \/ cut)
=============================================================================
