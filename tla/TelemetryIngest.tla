-------------------------- MODULE TelemetryIngest ---------------------------
(***************************************************************************)
(* How the TelemetryBuffer Durable Object takes WebSocket reports of one   *)
(* agent (worker/src/telemetry-buffer.js): webSocketMessage keeps them in  *)
(* memory and acknowledges, the alarm's drainPendingReports writes them to *)
(* storage and D1, DELETE /latest and /delete-agent end the lifecycle of   *)
(* the agent, and the object restarts without its memory.                  *)
(*                                                                         *)
(* As in TelemetryFlush a step ends where the code awaits D1.  Reports are *)
(* numbered as they arrive; the time of a state is the server's clock.     *)
(***************************************************************************)
EXTENDS Naturals, Sequences, FiniteSets

CONSTANTS
    MirrorToD1,   \* ~bufferedAgentStateEnabled: the latest state is also
                  \* written to D1 (the default)
    MaxReports,   \* MAX_MEM_REPORTS
    MaxBytes,     \* MAX_MEM_REPORTS_BYTES, in reports of one size
    MaxMessages,  \* bound: messages in a behaviour
    MaxHandlers,  \* bound: messages being processed at the same time
    MaxClock,     \* bound: ticks of the clock
    MaxDeletes,   \* bound: deletions of the agent
    MaxRestarts,  \* bound: restarts of the object
    D1Outcomes    \* whether a D1 write succeeds: BOOLEAN or {TRUE}

ASSUME IngestAssumption ==
    /\ MirrorToD1 \in BOOLEAN /\ D1Outcomes \subseteq BOOLEAN
    /\ MaxReports \in Nat \ {0} /\ MaxBytes \in Nat \ {0}
    /\ MaxMessages \in Nat /\ MaxHandlers \in Nat
    /\ MaxClock \in Nat \ {0} /\ MaxDeletes \in Nat /\ MaxRestarts \in Nat

VARIABLES
    epoch,         \* agent:lifecycle epoch, 0 before the first connection
    deleted,       \* agent:lifecycle deleted_at is set
    purging,       \* /delete-agent is still to come
    sockets,       \* lifecycle epochs attached to the open sockets
    handlers,      \* webSocketMessage calls awaiting D1
    clock,         \* nowSec()
    memLatest,     \* memLatest: updated_at, 0 if absent
    stLatest,      \* latest:state in storage: updated_at, 0 if absent
    throttled,     \* latestPersistAt is less than 300 s ago
    mem,           \* memReports
    memBytes,      \* memReportsBytes: what was ever pushed less what was shed
    drain,         \* progress of drainPendingReports
    rows,          \* reports whose points are in chunk rows
    alarm,         \* an alarm is set
    \* History, read by the properties only:
    received,      \* messages received so far
    acked,         \* reports acknowledged with ok: true and not dropped
    ended,         \* reports of a lifecycle that was deleted
    memLost,       \* reports lost with the memory or over its capacity
    stale,         \* a report of a deleted lifecycle was queued again
    deletes, restarts

memory  == <<handlers, memLatest, throttled, mem, memBytes, drain>>
storage == <<epoch, deleted, stLatest, rows, alarm>>
history == <<received, acked, ended, memLost, stale, deletes, restarts>>
vars    == <<memory, storage, purging, sockets, clock, history>>

NoDrain == [at |-> "idle", group |-> <<>>, failed |-> FALSE]

Ids(q)       == {q[i].id : i \in 1..Len(q)}
Latest(a, b) == IF a > b THEN a ELSE b
Last(q)      == q[Len(q)]

\* Operators named after a definition with a suffix are broken variants of it
\* that the properties must tell from the definition; nothing uses them.

\* currentAgentLifecycleEpoch(agentId, expected) === expected
IsCurrentNever(e) == TRUE
IsCurrent(e) == ~deleted /\ epoch = e

Oldest(q, n)     == Ids(SubSeq(q, 1, n))
WithoutOldest(q, n) == SubSeq(q, n + 1, Len(q))

\* slice() of a requeued list to its newest MAX_MEM_REPORTS.
Surplus(q) == IF Len(q) > MaxReports THEN Len(q) - MaxReports ELSE 0

\* memReports.shift() while there are too many reports, or too many bytes and
\* more than one report.
Shed(q, bytes) ==
    CHOOSE n \in 0..Len(q) :
        LET over(k) == \/ Len(q) - k > MaxReports
                       \/ bytes - k > MaxBytes /\ Len(q) - k > 1
        IN  ~over(n) /\ \A k \in 0..(n - 1) : over(k)

Init ==
    /\ epoch = 0 /\ deleted = FALSE /\ purging = FALSE
    /\ sockets = {} /\ handlers = {} /\ clock = 1
    /\ memLatest = 0 /\ stLatest = 0 /\ throttled = FALSE
    /\ mem = <<>> /\ memBytes = 0 /\ drain = NoDrain /\ rows = {} /\ alarm = FALSE
    /\ received = 0 /\ acked = {} /\ ended = {} /\ memLost = {} /\ stale = FALSE
    /\ deletes = 0 /\ restarts = 0

-----------------------------------------------------------------------------
(* Sockets and messages.                                                   *)

\* openAgentMetricsSocket: openAgentLifecycle, then attach its epoch.  The
\* credentials of a deleted agent are gone before its telemetry is purged.
OpenSocket ==
    LET e == IF deleted \/ epoch = 0 THEN epoch + 1 ELSE epoch
    IN  /\ ~purging
        /\ e \notin sockets
        /\ epoch' = e
        /\ deleted' = FALSE
        /\ sockets' = sockets \cup {e}
        /\ UNCHANGED <<memory, stLatest, rows, alarm, purging, clock, history>>

\* A message up to the await of processAgentMetricsPayload.
Receive(e) ==
    /\ e \in sockets /\ IsCurrent(e)
    /\ received < MaxMessages /\ Cardinality(handlers) < MaxHandlers
    /\ received' = received + 1
    /\ handlers' = handlers \cup
           {[id |-> received + 1, epoch |-> e, prev |-> Latest(stLatest, memLatest), upd |-> 0]}
    /\ UNCHANGED <<memLatest, throttled, mem, memBytes, drain, storage, purging, sockets, clock,
                   acked, ended, memLost, stale, deletes, restarts>>

\* A socket of an older lifecycle is closed on its next message.
CloseStaleSocket(e) ==
    /\ e \in sockets /\ ~IsCurrent(e)
    /\ sockets' = sockets \ {e}
    /\ UNCHANGED <<memory, storage, purging, clock, history>>

\* persistAgentMetrics stamps the state, then more of D1 is read.
StampState(h) ==
    /\ h.upd = 0
    /\ handlers' = (handlers \ {h}) \cup {[h EXCEPT !.upd = clock]}
    /\ UNCHANGED <<memLatest, throttled, mem, memBytes, drain, storage, purging, sockets, clock, history>>

\* processAgentMetricsPayload throws: the agent is told and keeps its samples.
RejectMessage(h) ==
    /\ FALSE \in D1Outcomes
    /\ handlers' = handlers \ {h}
    /\ UNCHANGED <<memLatest, throttled, mem, memBytes, drain, storage, purging, sockets, clock, history>>

Report(h, state) == [id |-> h.id, epoch |-> h.epoch, upd |-> state,
                     appended |-> FALSE, persisted |-> FALSE, traffic |-> FALSE]

\* The lifecycle is read again, then the report is kept and acknowledged.
AcceptMessage(h) ==
    LET accepted == h.upd >= h.prev
        q        == Append(mem, Report(h, IF accepted THEN h.upd ELSE 0))
        shed     == Shed(q, memBytes + 1)
    IN  /\ h.upd > 0 /\ IsCurrent(h.epoch)
        /\ handlers' = handlers \ {h}
        /\ memLatest' = IF accepted THEN h.upd ELSE h.prev
        /\ mem' = WithoutOldest(q, shed)
        /\ memBytes' = memBytes + 1 - shed
        /\ memLost' = memLost \cup Oldest(q, shed)
        /\ alarm' = TRUE
        /\ acked' = acked \cup {h.id}
        /\ UNCHANGED <<throttled, drain, epoch, deleted, stLatest, rows, purging, sockets,
                       clock, received, ended, stale, deletes, restarts>>

\* The lifecycle ended while D1 was awaited: close the socket, keep nothing.
AbandonMessage(h) ==
    /\ h.upd > 0 /\ ~IsCurrent(h.epoch)
    /\ handlers' = handlers \ {h}
    /\ sockets' = sockets \ {h.epoch}
    /\ UNCHANGED <<memLatest, throttled, mem, memBytes, drain, storage, purging, clock, history>>

-----------------------------------------------------------------------------
(* drainPendingReports.                                                    *)

\* The alarm splices memReports, then awaits the targets of D1.
DrainLoad ==
    /\ alarm /\ drain.at = "idle"
    /\ alarm' = FALSE
    /\ mem' = <<>>
    /\ drain' = IF mem = <<>> THEN NoDrain
                ELSE [at |-> "check", group |-> mem, failed |-> FALSE]
    /\ UNCHANGED <<handlers, memLatest, throttled, memBytes, epoch, deleted, stLatest, rows, purging,
                   sockets, clock, history>>

\* The report with the newest state of a group, if one has a state.
Stated(q)    == {i \in 1..Len(q) : q[i].upd > 0}
NewestIdx(q) == CHOOSE i \in Stated(q) : /\ \A j \in Stated(q) : q[j].upd <= q[i].upd
                                         /\ \A j \in Stated(q) : q[j].upd = q[i].upd => i <= j
Marked(q)    == IF Stated(q) = {} THEN q ELSE [q EXCEPT ![NewestIdx(q)].persisted = TRUE]
MustPersist(q) == Stated(q) # {} /\ ~q[NewestIdx(q)].persisted

\* persistLatestState of the newest state: nothing within the throttle.
PersistLatest(q) ==
    IF MustPersist(q) /\ ~throttled
    THEN throttled' = TRUE /\ stLatest' = q[NewestIdx(q)].upd
    ELSE UNCHANGED <<throttled, stLatest>>

\* appendLocal, unless every report of the group was appended before.
AppendGroupSome(q) ==
    IF \E i \in 1..Len(q) : q[i].appended THEN rows ELSE rows \cup Ids(q)
AppendGroup(q) ==
    IF \A i \in 1..Len(q) : q[i].appended THEN rows ELSE rows \cup Ids(q)
Appended(q) == [i \in 1..Len(q) |-> [q[i] EXCEPT !.appended = TRUE]]

\* The lifecycle of the group's first report decides about the whole group.
DrainStaleGroup ==
    /\ drain.at = "check" /\ ~IsCurrent(drain.group[1].epoch)
    /\ drain' = NoDrain
    /\ UNCHANGED <<handlers, memLatest, throttled, mem, memBytes, storage, purging, sockets, clock, history>>

DrainPersist ==
    LET q == drain.group
        mirrors == MirrorToD1 /\ MustPersist(q) /\ ~throttled
    IN  /\ drain.at = "check" /\ IsCurrent(q[1].epoch)
        /\ PersistLatest(q)
        /\ IF mirrors
           THEN drain' = [drain EXCEPT !.at = "mirror"] /\ rows' = rows
           ELSE /\ drain' = [drain EXCEPT !.at = "effects", !.group = Appended(Marked(q))]
                /\ rows' = AppendGroup(q)
        /\ UNCHANGED <<handlers, memLatest, mem, memBytes, epoch, deleted, alarm, purging, sockets, clock,
                       history>>

\* The mirror in D1 was written, or failed; the group is appended either way.
DrainMirror ==
    \E ok \in D1Outcomes :
        LET q == IF ok THEN Marked(drain.group) ELSE drain.group
        IN  /\ drain.at = "mirror"
            /\ rows' = AppendGroup(q)
            /\ drain' = [at |-> "effects", group |-> Appended(q), failed |-> ~ok]
            /\ UNCHANGED <<handlers, memLatest, throttled, mem, memBytes, epoch, deleted, stLatest, alarm,
                           purging, sockets, clock, history>>

\* Traffic and availability are written to D1, report by report; a state not
\* persisted before is tried again; a group that failed is queued again.
RequeuedAlone(q) == WithoutOldest(q, Surplus(q))
Requeued(q) == WithoutOldest(q \o mem, Surplus(q \o mem))
RetryAlarm == TRUE
DrainEffects ==
    \E fails \in [1..Len(drain.group) -> {~ok : ok \in D1Outcomes}] :
        LET q == [i \in 1..Len(drain.group) |->
                     [drain.group[i] EXCEPT !.traffic = @ \/ ~fails[i]]]
            failed == drain.failed \/ \E i \in 1..Len(q) : ~q[i].traffic
        IN  /\ drain.at = "effects"
            /\ \A i \in 1..Len(q) : drain.group[i].traffic => ~fails[i]
            /\ PersistLatest(q)
            /\ drain' = NoDrain
            /\ IF failed
               THEN /\ mem' = Requeued(Marked(q))
                    /\ alarm' = RetryAlarm
                    /\ memLost' = memLost \cup Oldest(q \o mem, Surplus(q \o mem))
                    /\ stale' = (stale \/ ~IsCurrent(q[1].epoch))
               ELSE UNCHANGED <<mem, alarm, memLost, stale>>
            /\ UNCHANGED <<handlers, memLatest, memBytes, epoch, deleted, rows, purging, sockets, clock,
                           received, acked, ended, deletes, restarts>>

-----------------------------------------------------------------------------
(* Deletion, time and restarts.                                            *)

\* DELETE /latest: markAgentDeleted and everything in memory of the agent.
DeleteLatest ==
    /\ deletes < MaxDeletes /\ ~purging
    /\ deletes' = deletes + 1
    /\ epoch' = epoch + 1 /\ deleted' = TRUE /\ purging' = TRUE
    /\ memLatest' = 0 /\ stLatest' = 0 /\ throttled' = FALSE
    /\ mem' = <<>>
    /\ sockets' = {}
    /\ ended' = ended \cup acked
    /\ UNCHANGED <<handlers, memBytes, drain, rows, alarm, clock, received, acked, memLost, stale, restarts>>

\* POST /delete-agent: deleteAgentBuffer removes the chunk rows.
DeleteBuffer ==
    /\ purging
    /\ purging' = FALSE
    /\ rows' = {}
    /\ UNCHANGED <<memory, epoch, deleted, stLatest, alarm, sockets, clock, history>>

Tick ==
    /\ clock < MaxClock
    /\ clock' = clock + 1
    /\ UNCHANGED <<memory, storage, purging, sockets, history>>

\* LATEST_PERSIST_THROTTLE_SEC passes.
ThrottleEnds ==
    /\ throttled
    /\ throttled' = FALSE
    /\ UNCHANGED <<handlers, memLatest, mem, memBytes, drain, storage, purging, sockets, clock, history>>

\* The object restarts: storage and sockets stay, the memory does not, and an
\* interrupted alarm is delivered again.
Restart ==
    /\ restarts < MaxRestarts
    /\ restarts' = restarts + 1
    /\ handlers' = {} /\ memLatest' = 0 /\ throttled' = FALSE
    /\ mem' = <<>> /\ memBytes' = 0 /\ drain' = NoDrain
    /\ alarm' = (alarm \/ drain.at # "idle")
    /\ memLost' = memLost \cup Ids(mem) \cup Ids(drain.group)
    /\ UNCHANGED <<epoch, deleted, stLatest, rows, purging, sockets, clock, received, acked,
                   ended, stale, deletes>>

DrainStep == DrainStaleGroup \/ DrainPersist \/ DrainMirror \/ DrainEffects

Next ==
    \/ OpenSocket
    \/ \E e \in sockets : Receive(e) \/ CloseStaleSocket(e)
    \/ \E h \in handlers : \/ StampState(h) \/ RejectMessage(h)
                           \/ AcceptMessage(h) \/ AbandonMessage(h)
    \/ DrainLoad \/ DrainStep
    \/ DeleteLatest \/ DeleteBuffer
    \/ Tick \/ ThrottleEnds \/ Restart

Spec == Init /\ [][Next]_vars
FairSpec == Spec /\ WF_vars(DrainLoad) /\ WF_vars(DrainStep)

-----------------------------------------------------------------------------
(* Properties.                                                             *)

ReportType == [id : 1..MaxMessages, epoch : Nat, upd : 0..MaxClock,
               appended : BOOLEAN, persisted : BOOLEAN, traffic : BOOLEAN]

\* The memory holds at most MAX_MEM_REPORTS reports, also after a requeue.
TypeOK ==
    /\ epoch \in Nat /\ deleted \in BOOLEAN /\ purging \in BOOLEAN
    /\ sockets \subseteq 1..epoch
    /\ handlers \subseteq [id : 1..MaxMessages, epoch : 1..epoch, prev : 0..MaxClock,
                           upd : 0..MaxClock]
    /\ clock \in 1..MaxClock /\ memLatest \in 0..MaxClock /\ stLatest \in 0..MaxClock
    /\ throttled \in BOOLEAN /\ alarm \in BOOLEAN /\ stale \in BOOLEAN
    /\ mem \in Seq(ReportType) /\ Len(mem) <= MaxReports /\ memBytes \in 0..MaxMessages
    /\ drain \in [at : {"idle", "check", "mirror", "effects"}, group : Seq(ReportType), failed : BOOLEAN]
    /\ received \in 0..MaxMessages
    /\ \A S \in {rows, acked, ended, memLost} : S \subseteq 1..MaxMessages

\* An acknowledged report is in memory, in the drain or in storage while its
\* lifecycle lasts, unless memory was lost or full, or reports of a deleted
\* lifecycle were queued again.
AckedReportKept ==
    stale \/ acked \ (ended \cup memLost) \subseteq rows \cup Ids(mem) \cup Ids(drain.group)

\* telemetry-buffer.test.mjs:212: an old socket never enqueues after deletion,
\* whatever happened while its message awaited D1.
OldSocketNeverEnqueues ==
    [][acked' # acked => ~deleted /\ Last(mem').epoch = epoch]_vars

\* While the agent is deleted storage holds no row and no latest state of it,
\* although a drain was under way (where the latest state is not mirrored).
DeletedLeavesNothing == deleted /\ ~purging => rows = {} /\ stLatest = 0

\* An acknowledged report reaches storage, unless its lifecycle ends or its
\* memory is lost first.
AckedReportIsStored ==
    \A i \in 1..MaxMessages : i \in acked ~> i \in rows \cup ended \cup memLost \/ stale

\* telemetry-buffer.test.mjs:218: a new lifecycle may report normally after
\* recreation: its acknowledged reports are kept too.
NewLifecycleReportKept ==
    acked \ (ended \cup memLost) \subseteq rows \cup Ids(mem) \cup Ids(drain.group)

\* telemetry-buffer.js:31: the bounds bound the buffer: a report in memory is
\* shed for a new one only when the buffer is full by one of them.
ShedOnlyWhenFull ==
    [][acked' # acked /\ Len(mem') <= Len(mem) => Len(mem) >= MaxReports \/ Len(mem) >= MaxBytes]_vars

\* telemetry-buffer.js:593: the state in memory is never older than its
\* persisted copy.
MemoryNeverOlder == memLatest # 0 => memLatest >= stLatest
=============================================================================
