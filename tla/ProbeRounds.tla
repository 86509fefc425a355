---------------------------- MODULE ProbeRounds -----------------------------
(***************************************************************************)
(* The minute's probe rounds of one target: the history scheduler, the     *)
(* fast-status scheduler and the merge of their updates into the status    *)
(* kept in R2 (worker/src/probe.js, storage.js, index.js), with the        *)
(* incident rows of D1 and their hourly reconciliation                     *)
(* (admin/check-buckets.js).  Cron invocations overlap under a lease, the  *)
(* administrator's probe has none.  PROBE_LATEST_STATUS_TO_D1 is "false",  *)
(* as in wrangler.toml: D1 holds no status that a scheduler reads.         *)
(*                                                                         *)
(* A time is modelled by its age in ticks, 0 .. MaxAge, so that behaviours *)
(* are infinite: what is older than MaxAge is as old as never.             *)
(***************************************************************************)
EXTENDS Naturals

CONSTANTS
    Runs,           \* cron invocations (runScheduledTasks)
    Manuals,        \* requests of the administrator (probeNow)
    HistoryDue,     \* historyDueIntervalSec of an up target
    FastDue,        \* fastStatusDueInterval of an up target
    DownDue,        \* both, of a down target
    BucketSlack,    \* lastPersistedCheckAt rounds down to BUCKET_SEC
    LeaseTtl,       \* the ttlSec of acquireProbeRunLease
    LockTtl,        \* R2_LOCK_TTL_SEC
    Window,         \* the 1800 s of reconcileOpenIncidents
    MaxRun,         \* ticks the platform lets an invocation live
    MaxAge,         \* bound of an age
    MaxOverlaps,    \* bound: requests, and rounds begun while another goes on
    MaxFaults       \* bound: failing operations and killed invocations

Procs  == Runs \cup Manuals
Ages   == 0 .. MaxAge
NoOne  == "no one"

ASSUME ProcsAssumption == NoOne \notin Procs /\ Runs \cap Manuals = {}
ASSUME TimesAssumption ==
    /\ {HistoryDue, FastDue, DownDue, Window} \subseteq 1 .. MaxAge
    /\ {LeaseTtl, LockTtl, MaxRun, BucketSlack, MaxAge, MaxOverlaps, MaxFaults} \subseteq Nat

VARIABLES
    up,        \* whether the target answers
    status,    \* its entry of the R2 state
    lease,     \* probe:run:lease
    lock,      \* r2_state_lock
    open,      \* its open incident: there is one, the age of started_at
    okPoint,   \* age of its newest successful history point
    run,       \* process -> its progress
    overlaps, faults,
    overrun    \* history: a commit wrote after its lock was taken over

vars == <<up, status, lease, lock, open, okPoint, run, overlaps, faults, overrun>>
db   == <<open, okPoint>>

NoStatus   == [checked |-> MaxAge, history |-> MaxAge, ok |-> "none"]
Statuses   == [checked : Ages, history : Ages, ok : {"none", "up", "down"}]
Idle       == [at |-> "idle", age |-> 0, prev |-> NoStatus,
               history |-> NoStatus, fast |-> NoStatus]
Free       == [by |-> NoOne, age |-> 0]
NoIncident == [open |-> FALSE, age |-> 0]
Older(a)   == IF a = MaxAge THEN a ELSE a + 1
Newer(a, b) == IF a < b THEN a ELSE b

Init ==
    /\ up \in BOOLEAN
    /\ status = NoStatus
    /\ lease = Free /\ lock = Free
    /\ open = NoIncident
    /\ okPoint = MaxAge
    /\ run = [p \in Procs |-> Idle]
    /\ overlaps = 0 /\ faults = 0 /\ overrun = FALSE

Failing == faults < MaxFaults /\ faults' = faults + 1
At(p, at) == run[p].at = at
Goto(p, at) == run' = [run EXCEPT ![p].at = at]

\* acquireProbeRunLease, acquireR2Lock: a row whose time is over is taken over.
Takeable(l, ttl) == l.by = NoOne \/ l.age > ttl
Taken(p) == [by |-> p, age |-> 0]
\* Released by its token.
Given(l, p) == IF l.by = p THEN Free ELSE l

-----------------------------------------------------------------------------
(* The merge of updates.                                                   *)

ApplyUpdateLast(base, u) ==
    IF u = NoStatus THEN base ELSE [u EXCEPT !.history = Newer(u.history, base.history)]

\* applyR2StateUpdate: the newer check wins, the history marker never goes back.
ApplyUpdate(base, u) ==
    LET winner == IF base.ok = "none" \/ u.checked <= base.checked THEN u ELSE base
    IN  IF u = NoStatus THEN base
        ELSE [winner EXCEPT !.history = Newer(u.history, base.history)]

\* The updates of a round in the order they were added to its session.
MergeRound(base, r) == ApplyUpdate(ApplyUpdate(base, r.history), r.fast)

\* applyOverlay.
Overlay(base, r) == ApplyUpdate(base, r.history)

-----------------------------------------------------------------------------
(* The history scheduler.                                                  *)

DueAfter(ok, interval) == IF ok = "down" THEN Newer(DownDue, interval) ELSE interval
HistoryMayBeDue(s)  == s.history + BucketSlack >= DueAfter(s.ok, HistoryDue)
HistoryMustBeDue(s) == s.history >= DueAfter(s.ok, HistoryDue)

Begins(p) ==
    /\ At(p, "idle")
    /\ \/ (\A q \in Procs : At(q, "idle")) /\ UNCHANGED overlaps
       \/ (\E q \in Procs : ~At(q, "idle")) /\ overlaps < MaxOverlaps /\ overlaps' = overlaps + 1

\* runScheduledTasks begins with runDueTargets; a held lease skips the history.
RoundStarts(r) ==
    /\ Begins(r)
    /\ IF Takeable(lease, LeaseTtl)
       THEN lease' = Taken(r) /\ run' = [run EXCEPT ![r] = [Idle EXCEPT !.at = "due"]]
       ELSE run' = [run EXCEPT ![r] = [Idle EXCEPT !.at = "fast"]] /\ UNCHANGED lease
    /\ UNCHANGED <<up, status, lock, db, faults, overrun>>

\* A target that is not due, or a failing read, ends the history scheduler.
NotDue(r) ==
    /\ At(r, "due")
    /\ (~HistoryMustBeDue(status) /\ UNCHANGED faults) \/ Failing
    /\ Goto(r, "fast")
    /\ lease' = Given(lease, r)
    /\ UNCHANGED <<up, status, lock, db, overlaps, overrun>>

\* probeTarget.
Seen == IF up THEN "up" ELSE "down"

\* The target is probed with the status read before; probeNow without a lease.
Probing(p) ==
    /\ run' = [run EXCEPT ![p].at = "save", ![p].prev = status,
                          ![p].history = [checked |-> 0, history |-> 0, ok |-> Seen]]
    /\ UNCHANGED <<up, status, lease, lock, db, faults, overrun>>

HistoryProbe(r) ==
    At(r, "due") /\ HistoryMayBeDue(status) /\ Probing(r) /\ UNCHANGED overlaps

ManualProbe(m) ==
    /\ At(m, "idle") /\ overlaps < MaxOverlaps
    /\ overlaps' = overlaps + 1
    /\ Probing(m)

\* buildIncidentUpdate and incidentEventStatement: INSERT OR IGNORE under the
\* unique index of open incidents, or an UPDATE of all that are open.
IncidentAfter(was, now, age) ==
    CASE now = "down" /\ was # "down" -> IF open.open THEN open ELSE [open |-> TRUE, age |-> age]
      [] now = "up" /\ was = "down"   -> NoIncident
      [] OTHER                        -> open

\* saveCheck: the point goes to the history, the incident to D1; a failing D1
\* batch is only logged.  Then the lease goes.
Save(p) ==
    LET u == run[p].history
    IN  /\ At(p, "save")
        /\ okPoint' = IF u.ok = "up" THEN Newer(u.checked, okPoint) ELSE okPoint
        /\ \/ open' = IncidentAfter(run[p].prev.ok, u.ok, u.checked) /\ UNCHANGED faults
           \/ Failing /\ UNCHANGED open
        /\ run' = [run EXCEPT ![p].prev = NoStatus,
                              ![p].at = IF p \in Runs THEN "fast" ELSE "commit"]
        /\ lease' = Given(lease, p)
        /\ UNCHANGED <<up, status, lock, overlaps, overrun>>

-----------------------------------------------------------------------------
(* The fast-status scheduler.                                              *)

\* Targets are chosen by what is read before the lease is asked for; a read that
\* fails ends the scheduler.
FastBegins(r) ==
    LET seen == Overlay(status, run[r])
        due  == seen.checked >= DueAfter(seen.ok, FastDue)
    IN  /\ At(r, "fast")
        /\ \/ /\ due /\ Takeable(lease, LeaseTtl)
              /\ lease' = Taken(r)
              /\ run' = [run EXCEPT ![r].at = "probe", ![r].prev = seen]
              /\ UNCHANGED faults
           \/ /\ (~(due /\ Takeable(lease, LeaseTtl)) /\ UNCHANGED faults) \/ Failing
              /\ Goto(r, "commit")
              /\ UNCHANGED lease
        /\ UNCHANGED <<up, status, lock, db, overlaps, overrun>>

\* buildFastStatusResult: everything but the check is the previous state's.
FastProbe(r) ==
    /\ At(r, "probe")
    /\ run' = [run EXCEPT ![r].at = "commit", ![r].prev = NoStatus,
                          ![r].fast = [run[r].prev EXCEPT !.checked = 0, !.ok = Seen]]
    /\ lease' = Given(lease, r)
    /\ UNCHANGED <<up, status, lock, db, overlaps, faults, overrun>>

-----------------------------------------------------------------------------
(* commitR2StateSync and the maintenance at the end of the round.          *)

Nothing(p) == run[p].history = NoStatus /\ run[p].fast = NoStatus
\* A round goes on with its maintenance, a request is over.
Committed(p) ==
    run' = [run EXCEPT ![p] = IF p \in Runs THEN [Idle EXCEPT !.at = "maintenance", !.age = run[p].age]
                              ELSE Idle]

\* mergeR2StateUpdates: without the lock, or when the read fails, nothing is
\* written.
CommitBegins(p) ==
    /\ At(p, "commit")
    /\ \/ /\ ~Nothing(p) /\ Takeable(lock, LockTtl)
          /\ lock' = Taken(p)
          /\ run' = [run EXCEPT ![p].at = "write", ![p].prev = status]
          /\ UNCHANGED faults
       \/ /\ (~(~Nothing(p) /\ Takeable(lock, LockTtl)) /\ UNCHANGED faults) \/ Failing
          /\ Committed(p)
          /\ UNCHANGED lock
    /\ UNCHANGED <<up, status, lease, db, overlaps, overrun>>

\* A failing PUT may have written.
CommitWrite(p) ==
    /\ At(p, "write")
    /\ \/ status' = MergeRound(run[p].prev, run[p]) /\ UNCHANGED faults
       \/ Failing /\ UNCHANGED status
       \/ Failing /\ status' = MergeRound(run[p].prev, run[p])
    /\ Committed(p)
    /\ lock' = Given(lock, p)
    /\ overrun' = (overrun \/ lock.by # p)
    /\ UNCHANGED <<up, lease, db, overlaps>>

RecoveredBefore == open.open /\ okPoint >= open.age /\ okPoint <= Window

\* reconcileOpenIncidents: a success after the start and within the window.
Recovered == open.open /\ okPoint <= open.age /\ okPoint <= Window
Maintains(r) == At(r, "maintenance") /\ run' = [run EXCEPT ![r] = Idle]
Maintenance(r) ==
    /\ Maintains(r)
    /\ open' = IF Recovered THEN NoIncident ELSE open
    /\ UNCHANGED <<up, status, lease, lock, okPoint, overlaps, faults, overrun>>

\* claimHourlyMaintenanceSlot: not in this round.
NoMaintenance(r) ==
    /\ Maintains(r)
    /\ UNCHANGED <<up, status, lease, lock, db, overlaps, faults, overrun>>

\* An invocation is killed; what it holds times out.
Killed(p) ==
    /\ ~At(p, "idle") /\ Failing
    /\ run' = [run EXCEPT ![p] = Idle]
    /\ UNCHANGED <<up, status, lease, lock, db, overlaps, overrun>>

-----------------------------------------------------------------------------
TargetFlips == up' = ~up /\ UNCHANGED <<status, lease, lock, db, run, overlaps, faults, overrun>>

Aged(s) == [s EXCEPT !.checked = Older(@), !.history = Older(@)]
\* Time passes; every invocation begins again each minute and is killed at its
\* limit.
Tick ==
    /\ \A p \in Procs : ~At(p, "idle") => run[p].age < MaxRun
    /\ status' = Aged(status)
    /\ lease' = [lease EXCEPT !.age = IF lease.by = NoOne THEN 0 ELSE Newer(@ + 1, LeaseTtl + 1)]
    /\ lock' = [lock EXCEPT !.age = IF lock.by = NoOne THEN 0 ELSE Newer(@ + 1, LockTtl + 1)]
    /\ open' = [open EXCEPT !.age = IF open.open THEN Older(@) ELSE 0]
    /\ okPoint' = Older(okPoint)
    /\ run' = [p \in Procs |->
                 IF At(p, "idle") THEN Idle
                 ELSE [run[p] EXCEPT !.age = @ + 1, !.prev = Aged(@),
                                     !.history = Aged(@), !.fast = Aged(@)]]
    /\ UNCHANGED <<up, overlaps, faults, overrun>>

RunStep(r) == \/ RoundStarts(r) \/ NotDue(r) \/ HistoryProbe(r) \/ FastBegins(r)
              \/ FastProbe(r) \/ Maintenance(r) \/ NoMaintenance(r)
ProcStep(p) == Save(p) \/ CommitBegins(p) \/ CommitWrite(p)

Next == \/ \E r \in Runs : RunStep(r)
        \/ \E m \in Manuals : ManualProbe(m)
        \/ \E p \in Procs : ProcStep(p) \/ Killed(p)
        \/ TargetFlips \/ Tick

Spec == Init /\ [][Next]_vars

\* Cron starts a round each minute, a started one goes on, time passes.
FairSpec == /\ Spec /\ WF_vars(Tick)
            /\ \A r \in Runs : WF_vars(RunStep(r) \/ ProcStep(r))
            /\ \A r \in Runs : SF_vars(Maintenance(r))
            /\ \A m \in Manuals : WF_vars(ProcStep(m))

-----------------------------------------------------------------------------
TypeOK ==
    /\ up \in BOOLEAN /\ status \in Statuses
    /\ lease.by \in Runs \cup {NoOne} /\ lock.by \in Procs \cup {NoOne}
    /\ open \in [open : BOOLEAN, age : Ages] /\ okPoint \in Ages
    /\ \A p \in Procs : {run[p].prev, run[p].history, run[p].fast} \subseteq Statuses

\* "fast status must see freshly probed history targets so they are not probed
\* twice in one round" (storage.js:223-225): a fast probe in a round that saved
\* a history check happens only after another interval has passed.
NotProbedTwice ==
    \A r \in Runs : (At(r, "probe") /\ run[r].history # NoStatus) =>
        run[r].history.checked >= Newer(FastDue, DownDue)

\* Only the holder of the lease probes for a scheduler, as long as its time is not
\* over: one that finishes late does not give another's lease away
\* (acquireProbeRunLease, releaseProbeRunLease).
OnlyHolderProbes ==
    \A r \in Runs : (run[r].at \in {"due", "save", "probe"} /\ run[r].age <= LeaseTtl)
        => lease.by = r

\* Whatever overlaps, the status in R2 never becomes older and the history
\* marker never goes back, until a commit has overrun its lock
\* (applyR2StateUpdate, acquireR2Lock). 
StatusNeverOlder ==
    [][(\E p \in Procs : CommitWrite(p)) =>
           overrun' \/ (status'.checked <= status.checked /\ status'.history <= status.history)]_vars

\* A target that stays up, or down, is shown so for good, and no incident of one
\* that stays up stays open: through overlapping rounds, failing reads and
\* writes, killed rounds and incident rows that were not written.
SettledTargetIsShown ==
    /\ <>[]up => <>[](status.ok = "up" /\ ~open.open)
    /\ <>[]~up => <>[](status.ok = "down")

\* INCIDENTS_TO_D1 "write incidents to D1" (docs/en/07-configuration.md:29): a
\* target that stays down has an incident.
OutageIsRecorded == <>[]~up => <>open.open
=============================================================================
