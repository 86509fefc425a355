--------------------------- MODULE TelemetryFlush ---------------------------
(***************************************************************************)
(* How the Worker's TelemetryBuffer Durable Object moves buffered          *)
(* telemetry into R2 (worker/src/telemetry-buffer.js): five-minute chunks  *)
(* in its storage, merged hour by hour into one R2 object per hour, with a *)
(* read-modify-write of the object, a HEAD and GET readback, deletion of   *)
(* the chunks, and the queue of hours to export to a time-series database. *)
(*                                                                         *)
(* One agent is modelled: chunks, objects and export entries of different  *)
(* agents have different keys.  Storage operations of a Durable Object are *)
(* atomic up to its next external await (input gates), so a step ends      *)
(* where the code awaits R2, D1 or the exporter, and only there do the     *)
(* alarm and the POST /append handlers (the HTTP fallback) interleave.     *)
(* A point is identified by its timestamp: merging is set union.           *)
(***************************************************************************)
EXTENDS Naturals, FiniteSets

CONSTANTS
    Points,        \* telemetry points of one agent
    Chunks,        \* chunkStart values
    Hours,         \* hourStart values, a set of naturals
    ChunkOf,       \* Points -> Chunks
    HourOf,        \* Chunks -> Hours
    Handlers,      \* POST /append requests that may run at the same time
    ExportEnabled, \* timeseriesExportEnabled
    MaxAttempts,   \* maxExportAttempts
    MaxRestarts    \* bound: restarts of the object in a behaviour

Alarm == "alarm"
Procs == {Alarm} \cup Handlers

ASSUME PointsAssumption == /\ Hours \subseteq Nat /\ IsFiniteSet(Hours)
                           /\ ChunkOf \in [Points -> Chunks]
                           /\ HourOf \in [Chunks -> Hours]
ASSUME ProcsAssumption  == Alarm \notin Handlers
ASSUME ExportAssumption == /\ ExportEnabled \in BOOLEAN
                           /\ MaxAttempts \in Nat \ {0}
                           /\ MaxRestarts \in Nat

VARIABLES
    buffer,        \* chunk rows in storage: chunk -> points, {} when absent
    archive,       \* R2 telemetry.json objects: hour -> points, {} if none
    exports,       \* export entries in storage: hour -> failed attempts
    alarm,         \* an alarm is set
    flusher,       \* process -> its progress in flushCompletedHours
    completed,     \* hours that ended more than FLUSH_GRACE_SEC ago
    \* History, read by the properties only:
    stored,        \* points ever written to storage
    raced,         \* hours flushed while another step changed their rows
    exported,      \* points sent to the time-series database, or given up
                   \* after the attempt limit
    exportRaced,   \* hours queued while another process was exporting them
    restarts       \* restarts of the object

storage == <<buffer, exports>>
history == <<stored, raced, exported, exportRaced, restarts>>
vars    == <<storage, archive, alarm, flusher, completed, history>>

PHour(p)      == HourOf[ChunkOf[p]]
PointsOf(h)   == {p \in Points : PHour(p) = h}
ChunksOf(h)   == {c \in Chunks : HourOf[c] = h}
\* Operators named after a definition with a suffix are broken variants of it
\* that the properties must tell from the definition; nothing uses them.
Least(S)      == CHOOSE h \in S : \A g \in S : h <= g
Rows(b)       == {c \in Chunks : b[c] # {}}

\* A process in flushCompletedHours: the rows it read (`completed`), the hours
\* still to flush, the object it read or wrote, `retry`, and the export
\* entries it listed.
NoEntries == [h \in {} |-> 0]
Idle == [at |-> "idle", rows |-> [c \in Chunks |-> {}], todo |-> {},
         object |-> {}, retry |-> FALSE, listed |-> NoEntries, sending |-> {}]

Holds(f, c)    == HourOf[c] \in f.todo /\ f.rows[c] # {}
RowsOf(f, h)   == [c \in ChunksOf(h) |-> f.rows[c]]
Snapshot(f, h) == UNION {f.rows[c] : c \in ChunksOf(h)}

\* appendLocal: merge a batch into its chunk rows.
AppendLocal(b, batch) ==
    [c \in Chunks |-> b[c] \cup {p \in batch : ChunkOf[p] = c}]

\* Some process is flushing a row that the batch changes.
Overlaps(batch) == {h \in Hours : \E q \in Procs, p \in batch :
                        PHour(p) = h /\ Holds(flusher[q], ChunkOf[p])
                                     /\ p \notin flusher[q].rows[ChunkOf[p]]}

\* The rows of completed hours, as bufferRows returns them for b.
Completed(b) == [c \in Chunks |-> IF HourOf[c] \in completed THEN b[c] ELSE {}]
NewFlush(b)  == [Idle EXCEPT !.rows = Completed(b),
                             !.todo = {HourOf[c] : c \in Rows(Completed(b))}]

\* Some other process is flushing one of these hours from other rows.
Conflicts(p, f) == {h \in f.todo : \E q \in Procs \ {p} :
                        h \in flusher[q].todo /\ RowsOf(flusher[q], h) # RowsOf(f, h)}

Init ==
    /\ buffer = [c \in Chunks |-> {}]
    /\ archive = [h \in Hours |-> {}]
    /\ exports = NoEntries
    /\ alarm = FALSE
    /\ flusher = [p \in Procs |-> Idle]
    /\ completed = {}
    /\ stored = {}
    /\ raced = {}
    /\ exported = {}
    /\ exportRaced = {}
    /\ restarts = 0

-----------------------------------------------------------------------------
(* Continuations of process p at the end of a step that leaves the rows b, *)
(* the export entries e and the alarm a behind it.                         *)

\* The end of flushCompletedHours: scheduleAlarmIfSooner or scheduleFlush.
NeedsAlarmForgotten(f, b) == f.retry
NeedsAlarm(f, b) == f.retry \/ Rows(b) # {}

Finish(p, f, b, a) ==
    /\ flusher' = [flusher EXCEPT ![p] = Idle]
    /\ alarm' = (a \/ NeedsAlarm(f, b))

\* flushPendingExports lists the entries; one that failed before may still be
\* waiting for its next_at, and asks for another alarm.
ListExports(p, f, b, e, a) ==
    \E due \in SUBSET DOMAIN e :
        LET g == [f EXCEPT !.retry = f.retry \/ due # DOMAIN e, !.rows = Idle.rows]
        IN  /\ {h \in DOMAIN e : e[h] = 0} \subseteq due
            /\ IF due # {}
               THEN /\ flusher' = [flusher EXCEPT ![p] =
                           [g EXCEPT !.at = "export", !.listed = [h \in due |-> e[h]]]]
                    /\ alarm' = a
               ELSE Finish(p, g, b, a)

\* The next group of flushCompletedHours, or what follows the last one.
NextGroup(p, f, b, e, a) ==
    IF f.todo # {}
    THEN /\ flusher' = [flusher EXCEPT ![p] = [f EXCEPT !.at = "get"]]
         /\ alarm' = a
    ELSE ListExports(p, f, b, e, a)

\* `catch`: keep the rows, remember to retry, go on with the next group.
WithoutGroup(f)   == [f EXCEPT !.todo = f.todo \ {Least(f.todo)}, !.object = {}]
GroupFailed(p) ==
    NextGroup(p, [WithoutGroup(flusher[p]) EXCEPT !.retry = TRUE], buffer, exports, alarm)

-----------------------------------------------------------------------------
(* Entry points.                                                           *)

\* POST /append: append, scheduleFlush, and the flush up to its first await.
HttpAppend(p, batch) ==
    /\ flusher[p].at = "idle"
    /\ LET b == AppendLocal(buffer, batch)
       IN  /\ buffer' = b
           /\ raced' = raced \cup Overlaps(batch) \cup Conflicts(p, NewFlush(b))
           /\ NextGroup(p, NewFlush(b), b, exports, TRUE)
    /\ stored' = stored \cup batch
    /\ UNCHANGED <<exports, archive, completed, exported, exportRaced, restarts>>

\* alarm(): drainPendingReports appends the reports of the WebSocket agents,
\* then awaits D1 for their traffic and availability.
AlarmDrain(batch) ==
    /\ alarm /\ flusher[Alarm].at = "idle"
    /\ alarm' = FALSE
    /\ flusher' = [flusher EXCEPT ![Alarm].at = "drained"]
    /\ buffer' = AppendLocal(buffer, batch)
    /\ stored' = stored \cup batch
    /\ raced' = raced \cup Overlaps(batch)
    /\ UNCHANGED <<exports, archive, completed, exported, exportRaced, restarts>>

\* alarm(): flushCompletedHours after the drain.
AlarmFlush ==
    /\ flusher[Alarm].at = "drained"
    /\ NextGroup(Alarm, NewFlush(buffer), buffer, exports, alarm)
    /\ raced' = raced \cup Conflicts(Alarm, NewFlush(buffer))
    /\ UNCHANGED <<storage, archive, completed, stored, exported, exportRaced, restarts>>

\* A WebSocket report is accepted: scheduleReportDrain.
ReportArrives ==
    /\ ~alarm
    /\ alarm' = TRUE
    /\ UNCHANGED <<storage, archive, flusher, completed, history>>

\* Time passes FLUSH_GRACE_SEC after the end of the oldest open hour.
HourCompletes ==
    /\ completed # Hours
    /\ completed' = completed \cup {Least(Hours \ completed)}
    /\ UNCHANGED <<storage, archive, alarm, flusher, history>>

-----------------------------------------------------------------------------
(* flushHour for the oldest remaining group, one step per R2 request.      *)

\* The object to write: what R2 holds merged with the rows that were read.
MergedObjectOverwrites(f, h) == Snapshot(f, h)
MergedObject(f, h) == archive[h] \cup Snapshot(f, h)

\* readR2Object; it may fail.
FlushGet(p) ==
    LET f == flusher[p]
    IN  /\ f.at = "get"
        /\ \/ /\ flusher' = [flusher EXCEPT ![p] = [f EXCEPT
                     !.at = "put", !.object = MergedObject(f, Least(f.todo))]]
              /\ alarm' = alarm
           \/ GroupFailed(p)
        /\ UNCHANGED <<storage, archive, completed, history>>

\* ARCHIVE.put; it may fail before or after it took effect.
FlushPut(p) ==
    LET f == flusher[p]
        written == [archive EXCEPT ![Least(f.todo)] = f.object]
    IN  /\ f.at = "put"
        /\ \/ /\ archive' = written
              /\ flusher' = [flusher EXCEPT ![p].at = "head", ![p].object = {}]
              /\ alarm' = alarm
           \/ archive' \in {archive, written} /\ GroupFailed(p)
        /\ UNCHANGED <<storage, completed, history>>

\* ARCHIVE.head and the size test: a request may fail, and the size of another
\* process's object may or may not match.
FlushHead(p) ==
    /\ flusher[p].at = "head"
    /\ \/ /\ flusher' = [flusher EXCEPT ![p].at = "readback"]
          /\ alarm' = alarm
       \/ GroupFailed(p)
    /\ UNCHANGED <<storage, archive, completed, history>>

QueueExportSkipped(h) == exports
QueueExport(h) ==
    IF ExportEnabled /\ h \notin DOMAIN exports
    THEN [g \in DOMAIN exports \cup {h} |-> IF g = h THEN 0 ELSE exports[g]]
    ELSE exports

DeleteRows(f, h) ==
    [c \in Chunks |-> IF HourOf[c] = h /\ f.rows[c] # {} THEN {} ELSE buffer[c]]

\* The readback GET; then queueExport and the deletion of the keys read.  The
\* readback tests the envelope of the object, not its points.
FlushReadback(p) ==
    LET f == flusher[p]
        h == Least(f.todo)
    IN  /\ f.at = "readback"
        /\ \/ /\ exports' = QueueExport(h)
              /\ buffer' = DeleteRows(f, h)
              /\ NextGroup(p, WithoutGroup(f), DeleteRows(f, h), QueueExport(h), alarm)
              /\ exportRaced' = exportRaced \cup
                     {g \in {h} : \E q \in Procs \ {p} : g \in DOMAIN flusher[q].listed}
           \/ GroupFailed(p) /\ UNCHANGED <<storage, exportRaced>>
        /\ UNCHANGED <<archive, completed, stored, raced, exported, restarts>>

-----------------------------------------------------------------------------
(* flushPendingExports for the oldest listed entry.                        *)

Drop(e, h)          == [g \in DOMAIN e \ {h} |-> e[g]]
PutEntry(e, h, n)   == [g \in DOMAIN e \cup {h} |-> IF g = h THEN n ELSE e[g]]

\* The next listed entry, or the end of the flush.
NextExport(p, f, e) ==
    LET h == Least(DOMAIN f.listed)
        g == [f EXCEPT !.at = "export", !.listed = Drop(f.listed, h), !.sending = {}]
    IN  /\ exports' = e
        /\ IF DOMAIN g.listed # {}
           THEN flusher' = [flusher EXCEPT ![p] = g] /\ alarm' = alarm
           ELSE Finish(p, g, buffer, alarm)

\* `catch`: count the attempt in the entry that was listed, or give up.
AttemptLimit(n) == n + 1 >= MaxAttempts
ExportFailed(p, points, sent) ==
    LET f == flusher[p]
        h == Least(DOMAIN f.listed)
        n == f.listed[h]
    IN  IF AttemptLimit(n)
        THEN /\ exported' = sent \cup points
             /\ NextExport(p, f, Drop(exports, h))
        ELSE /\ exported' = sent
             /\ NextExport(p, [f EXCEPT !.retry = TRUE], PutEntry(exports, h, n + 1))

\* readR2Object of the hour; an absent object ends the export of the hour.
ExportGet(p) ==
    LET f == flusher[p]
        h == Least(DOMAIN f.listed)
    IN  /\ f.at = "export"
        /\ \/ /\ archive[h] # {}
              /\ flusher' = [flusher EXCEPT ![p] =
                     [f EXCEPT !.at = "send", !.sending = archive[h]]]
              /\ UNCHANGED <<alarm, exports, exported>>
           \/ archive[h] = {} /\ NextExport(p, f, Drop(exports, h)) /\ exported' = exported
           \/ ExportFailed(p, archive[h], exported)
        /\ UNCHANGED <<buffer, archive, completed, stored, raced, exportRaced, restarts>>

\* exportTelemetryHour; the request may fail although it took effect.
ExportSend(p) ==
    LET f == flusher[p]
    IN  /\ f.at = "send"
        /\ \/ /\ exported' = exported \cup f.sending
              /\ NextExport(p, f, Drop(exports, Least(DOMAIN f.listed)))
           \/ \E sent \in {exported, exported \cup f.sending} :
                  ExportFailed(p, archive[Least(DOMAIN f.listed)], sent)
        /\ UNCHANGED <<buffer, archive, completed, stored, raced, exportRaced, restarts>>

-----------------------------------------------------------------------------
(* The object restarts: handlers die, an interrupted alarm is delivered    *)
(* again.                                                                  *)
Restart ==
    /\ restarts < MaxRestarts
    /\ restarts' = restarts + 1
    /\ \E p \in Procs : flusher[p].at # "idle"
    /\ flusher' = [p \in Procs |-> Idle]
    /\ alarm' = (alarm \/ flusher[Alarm].at # "idle")
    /\ UNCHANGED <<storage, archive, completed, stored, raced, exported, exportRaced>>

FlushStep(p) == \/ FlushGet(p) \/ FlushPut(p) \/ FlushHead(p) \/ FlushReadback(p)
                \/ ExportGet(p) \/ ExportSend(p)

Next ==
    \/ \E p \in Handlers, batch \in SUBSET Points \ {{}} : HttpAppend(p, batch)
    \/ \E batch \in SUBSET Points : AlarmDrain(batch)
    \/ AlarmFlush
    \/ ReportArrives
    \/ HourCompletes
    \/ \E p \in Procs : FlushStep(p)
    \/ Restart

Spec == Init /\ [][Next]_vars

(* Scheduling: a set alarm is delivered, an R2 or exporter request returns,  *)
(* one that the alarm repeats for ever for an hour succeeds once, an hour    *)
(* ends, and an export entry that is listed for ever is once listed after    *)
(* its next_at.                                                              *)
AllListed == /\ flusher'[Alarm].at = "export"
             /\ DOMAIN flusher'[Alarm].listed = DOMAIN exports'

Flushing(p, h) == flusher[p].todo # {} /\ h = Least(flusher[p].todo)

Fairness ==
    /\ WF_vars(\E batch \in SUBSET Points : AlarmDrain(batch))
    /\ WF_vars(AlarmFlush)
    /\ WF_vars(HourCompletes)
    /\ \A p \in Procs : WF_vars(FlushStep(p))
    /\ \A h \in Hours :
        /\ SF_vars(Flushing(Alarm, h) /\ FlushGet(Alarm) /\ flusher'[Alarm].at = "put")
        /\ SF_vars(Flushing(Alarm, h) /\ FlushPut(Alarm) /\ flusher'[Alarm].at = "head")
        /\ SF_vars(Flushing(Alarm, h) /\ FlushHead(Alarm) /\ flusher'[Alarm].at = "readback")
        /\ SF_vars(Flushing(Alarm, h) /\ FlushReadback(Alarm) /\ buffer' # buffer)
    /\ SF_vars((AlarmFlush \/ FlushStep(Alarm)) /\ AllListed)

FairSpec == Spec /\ Fairness

-----------------------------------------------------------------------------
(* Properties.                                                             *)

Entries == UNION {[H -> 0..(MaxAttempts - 1)] : H \in SUBSET Hours}
FlusherType ==
    [at : {"idle", "drained", "get", "put", "head", "readback", "export", "send"},
     rows : [Chunks -> SUBSET Points], todo : SUBSET Hours, object : SUBSET Points,
     retry : BOOLEAN, listed : Entries, sending : SUBSET Points]

\* Every row and object holds only points of its own chunk or hour, and an
\* export entry is dropped before it counts maxExportAttempts failures.
TypeOK ==
    /\ buffer \in [Chunks -> SUBSET Points] /\ archive \in [Hours -> SUBSET Points]
    /\ \A c \in Chunks : buffer[c] \subseteq {p \in Points : ChunkOf[p] = c}
    /\ \A h \in Hours : archive[h] \subseteq PointsOf(h)
    /\ exports \in Entries
    /\ alarm \in BOOLEAN
    /\ flusher \in [Procs -> FlusherType]
    /\ completed \subseteq Hours /\ raced \subseteq Hours /\ exportRaced \subseteq Hours
    /\ stored \subseteq Points /\ exported \subseteq Points
    /\ restarts \in 0..MaxRestarts

Kept(p) == p \in buffer[ChunkOf[p]] \cup archive[PHour(p)]

\* A stored point is in its row or in the R2 object of its hour, whatever R2
\* request fails and whenever the object restarts, as long as no append fell
\* into rows being flushed and no two flushes of its hour read different rows.
NothingLostUnlessRaced == \A p \in stored : PHour(p) \notin raced => Kept(p)

\* A point that reached R2 is exported, queued for export, still buffered (and
\* so exported by a later flush) or was given up after the attempt limit,
\* unless its hour was queued again during an export or flushed in a race.
ExportNotForgotten ==
    ExportEnabled =>
        \A h \in Hours \ (raced \cup exportRaced) : \A p \in archive[h] :
            p \in exported \cup buffer[ChunkOf[p]] \/ h \in DOMAIN exports

\* CHANGELOG.md:420: after a failed readback the source data are kept and the
\* flush is retried.  The rows of a group whose HEAD or GET failed are still
\* buffered, or archived.
FailedFlushKeepsSource ==
    [][\A p \in Procs :
        /\ flusher[p].at \in {"head", "readback"}
        /\ flusher'[p].todo = flusher[p].todo \ {Least(flusher[p].todo)}
        /\ buffer' = buffer
        => \A x \in Snapshot(flusher[p], Least(flusher[p].todo)) : Kept(x)']_vars

\* The buffer with its archive implements the abstract store: no append,
\* flush, failure or restart loses a point or takes one back from the archive,
\* but for the hours two flushes worked on at once.
AtRisk == {p \in Points : PHour(p) \in raced}
Store == INSTANCE TelemetryStore
             WITH kept <- {p \in stored : Kept(p)},
                  archived <- UNION {archive[h] : h \in Hours},
                  atRisk <- AtRisk
ImplementsStore == Store!Spec

\* Every stored point of an hour that ends reaches R2 and is exported, or
\* given up after the attempt limit, although requests fail and the object
\* restarts: each failure leaves rows or entries, and an alarm, behind.
StoredPointIsExported ==
    \A h \in Hours :
        (\E p \in PointsOf(h) : p \in stored) ~>
            \/ \A p \in PointsOf(h) \cap stored : p \in archive[h] \cap exported
            \/ h \in raced \cup exportRaced

=============================================================================
