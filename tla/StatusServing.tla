--------------------------- MODULE StatusServing ---------------------------
(***************************************************************************)
(* GET /api/status: worker/src/status.js, with the administrator's edits   *)
(* (clearStatusCaches in worker/src/routes.js) and the cron that writes    *)
(* the snapshot (worker/src/index.js).                                     *)
(*                                                                         *)
(* An answer comes from the edge cache, from a snapshot in R2, or from D1  *)
(* and R2 themselves.  An edit deletes the snapshot and the cached answer  *)
(* and has the snapshot rebuilt, while the cron and other requests read    *)
(* and write the same two.                                                 *)
(*                                                                         *)
(* What is served is a pair of versions: of the probe status and of what   *)
(* the administrator edits.                                                *)
(***************************************************************************)
EXTENDS Naturals

CONSTANTS
    Requests,     \* concurrent requests for the status
    Builders,     \* concurrent builds of the snapshot
    MaxProbes,    \* bound: changes of the probe status
    MaxEdits,     \* bound: administrator's edits
    MaxFailures   \* bound: R2 and cache operations that fail

ASSUME ServingAssumption == {MaxProbes, MaxEdits, MaxFailures} \subseteq Nat

VARIABLES
    truth,     \* the versions in D1 and R2
    snap,      \* the snapshot in R2 and its age
    edge,      \* the answer in the edge cache
    req,       \* per request: its step and the answer it carries
    build,     \* per build: its step and the payload
    admin,     \* step of the edit's handler
    failures,
    raced      \* the last clearing met something older that was still to be
               \* written, or failed (history)

servingVars == <<truth, snap, edge, req, build, admin, failures, raced>>

Data == [probe : 0..MaxProbes, edit : 0..MaxEdits]

\* STATUS_SNAPSHOT_EVERY_SEC, _LIVE_WINDOW_SEC and _MAX_AGE_SEC divide the
\* life of a snapshot: too new to replace, served as it is, served with the
\* current probe status laid over it, not served.
SnapAges == {"new", "due", "aged", "expired"}
OlderSnap == [new |-> "due", due |-> "aged", aged |-> "expired", expired |-> "expired"]

NoSnap == [there |-> FALSE]
Snap(d) == [there |-> TRUE, data |-> d, age |-> "new"]
NoEdge == [there |-> FALSE]
Cached(d) == [there |-> TRUE, data |-> d]
Resting == [at |-> "idle"]

ServingInit ==
    /\ truth = [probe |-> 0, edit |-> 0]
    /\ snap = NoSnap /\ edge = NoEdge
    /\ req = [r \in Requests |-> Resting]
    /\ build = [b \in Builders |-> Resting]
    /\ admin = "idle" /\ failures = 0 /\ raced = FALSE

-----------------------------------------------------------------------------
(***************************************************************************)
(* A request: getStatusCached.                                             *)
(***************************************************************************)
UsableAlways(s) == s.there

\* getStatusSnapshot refuses an old snapshot; the cache is bypassed then.
Usable(s) == s.there /\ s.age # "expired"

\* overlayLiveTargetStatus takes the probe status from D1 or R2; what an
\* administrator edits stays the snapshot's.
Overlaid(d) == [d EXCEPT !.probe = truth.probe]

\* What a request that misses the edge cache reads.  A failing overlay is
\* served without it.
Read ==
    IF ~Usable(snap) THEN {truth}
    ELSE IF snap.age = "aged"
    THEN {Overlaid(snap.data)} \cup (IF failures < MaxFailures THEN {snap.data} ELSE {})
    ELSE {snap.data}

\* The edge has no answer: the request reads one, and puts it there later.
Miss(r) ==
    /\ req[r].at = "idle" /\ ~edge.there
    /\ \E d \in Read :
        /\ req' = [req EXCEPT ![r] = [at |-> "read", data |-> d]]
        /\ failures' = IF Usable(snap) /\ snap.age = "aged" /\ d # Overlaid(snap.data)
                     THEN failures + 1 ELSE failures
    /\ UNCHANGED <<truth, snap, edge, build, admin, raced>>

PutEdge(r) ==
    /\ req[r].at = "read"
    /\ edge' = Cached(req[r].data)
    /\ req' = [req EXCEPT ![r] = Resting]
    /\ UNCHANGED <<truth, snap, build, admin, failures, raced>>

\* The put fails: the answer is served uncached.
PutEdgeFails(r) ==
    /\ req[r].at = "read" /\ failures < MaxFailures
    /\ failures' = failures + 1
    /\ req' = [req EXCEPT ![r] = Resting]
    /\ UNCHANGED <<truth, snap, edge, build, admin, raced>>

-----------------------------------------------------------------------------
(***************************************************************************)
(* The snapshot: writeStatusSnapshot, by the cron or forced by an edit.    *)
(***************************************************************************)
TooSoon == snap.there /\ snap.age = "new"

CronBuilds(b) ==
    /\ build[b].at = "idle" /\ ~TooSoon
    /\ build' = [build EXCEPT ![b] = [at |-> "start"]]
    /\ UNCHANGED <<truth, snap, edge, req, admin, failures, raced>>

\* buildStatusPayload reads everything, then the payload is put.
BuildReads(b) ==
    /\ build[b].at = "start"
    /\ build' = [build EXCEPT ![b] = [at |-> "read", data |-> truth]]
    /\ UNCHANGED <<truth, snap, edge, req, admin, failures, raced>>

BuildPuts(b) ==
    /\ build[b].at = "read"
    /\ snap' = Snap(build[b].data)
    /\ build' = [build EXCEPT ![b] = Resting]
    /\ UNCHANGED <<truth, edge, req, admin, failures, raced>>

\* D1 or R2 fails, or the invocation ends: nothing is written.
BuildFails(b) ==
    /\ build[b].at # "idle" /\ failures < MaxFailures
    /\ failures' = failures + 1
    /\ build' = [build EXCEPT ![b] = Resting]
    /\ UNCHANGED <<truth, snap, edge, req, admin, raced>>

-----------------------------------------------------------------------------
(***************************************************************************)
(* Changes: a probe, an edit and clearStatusCaches after it.               *)
(***************************************************************************)
Probe ==
    /\ truth.probe < MaxProbes
    /\ truth' = [truth EXCEPT !.probe = @ + 1]
    /\ UNCHANGED <<snap, edge, req, build, admin, failures, raced>>

Edit ==
    /\ admin = "idle" /\ truth.edit < MaxEdits
    /\ truth' = [truth EXCEPT !.edit = @ + 1]
    /\ admin' = "snapshot" /\ raced' = FALSE
    /\ UNCHANGED <<snap, edge, req, build, failures>>

AfterSnapshotDone == "idle"
AfterSnapshot == "edge"

\* A build, or a request, that read before the edit and has yet to write.
OldWork(w) == w.at = "read" /\ w.data.edit # truth.edit
OldBuild == \E b \in Builders : OldWork(build[b])
OldRequest == \E r \in Requests : OldWork(req[r])

\* The snapshot is deleted and its rebuild begins behind the handler's back.
ClearSnapshot ==
    /\ admin = "snapshot" /\ admin' = AfterSnapshot
    /\ \E b \in Builders :
        /\ build[b].at = "idle"
        /\ build' = [build EXCEPT ![b] = [at |-> "start"]]
    /\ \/ snap' = NoSnap /\ raced' = OldBuild /\ UNCHANGED failures
       \/ /\ failures < MaxFailures /\ snap.there
          /\ failures' = failures + 1 /\ raced' = TRUE
          /\ UNCHANGED snap
    /\ UNCHANGED <<truth, edge, req>>

ClearEdge ==
    /\ admin = "edge" /\ admin' = "idle"
    /\ edge' = NoEdge
    /\ raced' = (raced \/ OldRequest)
    /\ UNCHANGED <<truth, snap, req, build, failures>>

\* The handler dies between the two: the client sees an error.
ClearDies ==
    /\ admin # "idle" /\ failures < MaxFailures
    /\ failures' = failures + 1
    /\ admin' = "idle" /\ raced' = TRUE
    /\ UNCHANGED <<truth, snap, edge, req, build>>

\* Time passes.
SnapshotAges ==
    /\ snap.there /\ snap.age # "expired"
    /\ snap' = [snap EXCEPT !.age = OlderSnap[@]]
    /\ UNCHANGED <<truth, edge, req, build, admin, failures, raced>>

EdgeExpires ==
    /\ edge.there
    /\ edge' = NoEdge
    /\ UNCHANGED <<truth, snap, req, build, admin, failures, raced>>

ServingNext ==
    \/ \E r \in Requests : Miss(r) \/ PutEdge(r) \/ PutEdgeFails(r)
    \/ \E b \in Builders : CronBuilds(b) \/ BuildReads(b) \/ BuildPuts(b) \/ BuildFails(b)
    \/ Probe \/ Edit \/ ClearSnapshot \/ ClearEdge \/ ClearDies
    \/ SnapshotAges \/ EdgeExpires

ServingSpec == ServingInit /\ [][ServingNext]_servingVars

\* Handlers that began go on, and what is cached grows old.  Nothing is
\* assumed of the cron: it skips the snapshot when no target is due.
FairServing ==
    /\ ServingSpec
    /\ \A r \in Requests : WF_servingVars(PutEdge(r))
    /\ \A b \in Builders : WF_servingVars(BuildReads(b) \/ BuildPuts(b))
    /\ WF_servingVars(ClearSnapshot) /\ WF_servingVars(ClearEdge)
    /\ WF_servingVars(SnapshotAges) /\ WF_servingVars(EdgeExpires)

-----------------------------------------------------------------------------
(***************************************************************************)
(* Properties.                                                             *)
(***************************************************************************)

Snaps == {NoSnap} \cup [there : {TRUE}, data : Data, age : SnapAges]
Answers == {NoEdge} \cup [there : {TRUE}, data : Data]
Works == {Resting, [at |-> "start"]} \cup [at : {"read"}, data : Data]

\* Every variable keeps its type.
ServingTypeOK ==
    /\ truth \in Data
    /\ snap \in Snaps
    /\ edge \in Answers
    /\ req \in [Requests -> Works \ {[at |-> "start"]}]
    /\ build \in [Builders -> Works]
    /\ admin \in {"idle", "snapshot", "edge"}
    /\ failures \in 0..MaxFailures /\ raced \in BOOLEAN

EdgeCurrent == edge.there => edge.data.edit = truth.edit
SnapCurrent == snap.there => snap.data.edit = truth.edit
Current == EdgeCurrent /\ SnapCurrent

\* Once an edit has cleared the caches nobody is served what it replaced, by
\* the edge or from the snapshot, unless a request or a build that had read
\* the older state was still under way (routes.js:666).
ClearedIsCurrent == (admin = "idle" /\ ~raced) => Current

\* The same without the exception, which the code does not keep: a build that
\* read before the edit puts its snapshot after it was deleted.
EditIsServed == (admin = "idle" /\ failures = 0) => Current

\* Whatever raced, was lost or skipped, the answers become current and stay
\* so (status.js:459).
ServedSettles ==
    <>[](/\ edge.there => edge.data = truth
         /\ \A d \in Read : d = truth)
=============================================================================
