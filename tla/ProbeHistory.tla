---------------------------- MODULE ProbeHistory ----------------------------
(***************************************************************************)
(* The history of a target's probes in the shared ProbeHistoryBuffer       *)
(* Durable Object (worker/src/probe-history-buffer.js): points of a day    *)
(* are collected in memory, flushed into a row per day, merged into one R2 *)
(* object per day when the day is over, kept as rows for the public read   *)
(* window, and moved to a dead letter when R2 keeps failing.  The alarm,   *)
(* the administrator's replays and the import of the former per-target     *)
(* instance interleave where the code awaits R2 or the other instance.     *)
(* Rows of different targets have different keys, so one target is         *)
(* modelled; a point is its timestamp, so merging is union.                *)
(***************************************************************************)
EXTENDS Naturals, FiniteSets

CONSTANTS
    Points,           \* probe points of the target
    DayOf,            \* Points -> day (dayFromSec)
    LastDay,          \* bound: days 0 .. LastDay
    LegacyPoints,     \* points the former instance still holds
    LegacyDead,       \* points in its dead letters
    Replayers,        \* requests of the administrator that replay a day
    Importers,        \* requests that find the target not yet migrated
    MaxAttempts,      \* MAX_MEM_DAY_ATTEMPTS, MAX_ARCHIVE_DAY_ATTEMPTS
    MaxConfirmFails,  \* MAX_ARCHIVE_CONFIRM_FAILS
    Retention,        \* ARCHIVE_READ_RETENTION_SEC, in days
    ArchiveBudget,    \* MAX_ARCHIVE_WRITES_PER_ALARM
    MaxFaults,        \* bound: failing R2 operations
    MaxRestarts       \* bound: evictions of the object

Days  == 0 .. LastDay
Alarm == "alarm"
Procs == {Alarm} \cup Replayers

ASSUME PointsAssumption == /\ LastDay \in Nat
                           /\ DayOf \in [Points -> Days]
                           /\ LegacyPoints \subseteq Points
                           /\ LegacyDead \subseteq Points
ASSUME ProcsAssumption == Alarm \notin Replayers
ASSUME LimitsAssumption == /\ MaxAttempts \in Nat \ {0}
                           /\ MaxConfirmFails \in Nat \ {0}
                           /\ Retention \in Nat
                           /\ ArchiveBudget \in Nat \ {0}
                           /\ MaxFaults \in Nat /\ MaxRestarts \in Nat

VARIABLES
    today,        \* the local day
    mem,          \* memDays: day -> points, {} when absent
    memTries,     \* memDayAttempts
    tries,        \* archiveAttempts
    rows,         \* day rows in storage
    dead,         \* dead-letter rows: day -> points, {} when absent
    archive,      \* R2 objects: day -> points, {} when absent
    alarm,        \* the day at whose start it fires, Soon or NoAlarm
    flush,        \* progress of the alarm handler
    merge,        \* process -> its progress in mergeArchiveDay
    legacy,       \* points left in the former instance
    migrated,     \* migratedTargets and the flag row
    import,       \* request -> its progress in ensureLegacyBufferMigrated
    faults, restarts,
    \* History, read by the properties only:
    accepted,     \* points appended or imported
    stored,       \* points that have been in a row or a dead letter
    raced,        \* points removed by a step that did not know of them
    overwritten,  \* points of a row replaced by those of a later flush
    evicted       \* points in memory when the object was evicted

memory  == <<mem, memTries, tries>>
storage == <<rows, dead>>
history == <<accepted, stored, raced, overwritten, evicted>>
former  == <<legacy, migrated, import>>
vars    == <<today, memory, storage, archive, alarm, flush, merge, former,
             faults, restarts, history>>

NoAlarm  == LastDay + 2
Soon     == 0
NoRow    == [points |-> {}, archived |-> "no", fails |-> 0]
Nothing  == [d \in Days |-> {}]
Zero     == [d \in Days |-> 0]
OfDay(S) == [d \in Days |-> {p \in S : DayOf[p] = d}]
All(f)   == UNION {f[d] : d \in Days}

\* read: what a request for the target's history can be answered with.
Readable == UNION {mem[d] \cup rows[d].points \cup dead[d] \cup archive[d] : d \in Days}

FlushIdle == [at |-> "idle", took |-> Nothing, failed |-> Nothing, done |-> {},
              budget |-> 0, pending |-> FALSE]
MergeIdle == [at |-> "idle", day |-> 0, points |-> {}, seen |-> {}]

Init ==
    /\ today = 0
    /\ mem = Nothing /\ memTries = Zero /\ tries = Zero
    /\ rows = [d \in Days |-> NoRow]
    /\ dead = Nothing
    /\ archive = Nothing
    /\ alarm = NoAlarm
    /\ flush = FlushIdle
    /\ merge = [p \in Procs |-> MergeIdle]
    /\ legacy = LegacyPoints \cup LegacyDead
    /\ migrated = FALSE
    /\ import = [i \in Importers |-> [at |-> "idle", points |-> {}]]
    /\ faults = 0 /\ restarts = 0
    /\ accepted = {} /\ stored = {} /\ raced = {}
    /\ overwritten = {} /\ evicted = {}

-----------------------------------------------------------------------------
(* Appending, and the import of the former instance.                       *)

RescheduledIfPending(a, pending) == IF pending THEN Soon ELSE a

\* scheduleFlush: soon while something is pending, else after midnight; an
\* alarm that is set and earlier stays.
Rescheduled(a, pending) ==
    IF pending THEN Soon ELSE IF a < today + 1 THEN a ELSE today + 1

\* append, appendLocal: only memory is written before the answer.  A batch that
\* was checked before midnight may arrive after it.
Append(p) ==
    /\ p \notin accepted \cup LegacyPoints \cup LegacyDead
    /\ today \in {DayOf[p], DayOf[p] + 1}
    /\ mem' = [mem EXCEPT ![DayOf[p]] = @ \cup {p}]
    /\ accepted' = accepted \cup {p}
    /\ alarm' = Rescheduled(alarm, TRUE)
    /\ UNCHANGED <<today, memTries, tries, storage, archive, flush, merge, former,
                   faults, restarts, stored, raced, overwritten, evicted>>

\* ensureLegacyBufferMigrated asks the former instance for a snapshot; a failed
\* export is not recorded.
ImportExport(i) ==
    /\ import[i].at = "idle" /\ ~migrated /\ legacy # {}
    /\ \/ /\ import' = [import EXCEPT ![i] = [at |-> "import", points |-> legacy]]
          /\ UNCHANGED faults
       \/ faults < MaxFaults /\ faults' = faults + 1 /\ UNCHANGED import
    /\ UNCHANGED <<today, memory, storage, archive, alarm, flush, merge, legacy,
                   migrated, restarts, history>>

\* The days go to memory, the dead letters replace those of the same day.
ImportDays(i) ==
    LET letters == OfDay(import[i].points \cap LegacyDead)
        days    == OfDay(import[i].points \cap LegacyPoints)
        Written(d) == letters[d] # {}
    IN  /\ import[i].at = "import"
        /\ import' = [import EXCEPT ![i].at = "delete"]
        /\ mem' = [d \in Days |-> mem[d] \cup days[d]]
        /\ dead' = [d \in Days |-> IF Written(d) THEN letters[d] ELSE dead[d]]
        /\ accepted' = accepted \cup import[i].points
        /\ stored' = stored \cup All(letters)
        /\ raced' = raced \cup UNION {dead[d] \ letters[d] : d \in {e \in Days : Written(e)}}
        /\ UNCHANGED <<today, memTries, tries, rows, archive, alarm, flush, merge, legacy,
                       migrated, faults, restarts, overwritten, evicted>>

\* The former instance is deleted (a failure is ignored), the import recorded.
ImportDelete(i) ==
    /\ import[i].at = "delete"
    /\ import' = [import EXCEPT ![i] = [at |-> "idle", points |-> {}]]
    /\ migrated' = TRUE
    /\ \/ legacy' = {} /\ UNCHANGED faults
       \/ faults < MaxFaults /\ faults' = faults + 1 /\ UNCHANGED legacy
    /\ alarm' = IF mem = Nothing THEN alarm ELSE Rescheduled(alarm, TRUE)
    /\ UNCHANGED <<today, memory, storage, archive, flush, merge, restarts, history>>

-----------------------------------------------------------------------------
(* mergeArchiveDay: GET, PUT, HEAD and readback, without a condition.      *)

Failing == faults < MaxFaults /\ faults' = faults + 1

MergedObjectReplaced(seen, points) == points

\* mergeDay: points by their time.
MergedObject(seen, points) == seen \cup points

\* Process p reads the object of day d to merge these points into it.
StartMerge(p, d, points) ==
    /\ merge[p].at = "idle"
    /\ LET m == [MergeIdle EXCEPT !.day = d, !.points = points]
       IN  \/ /\ merge' = [merge EXCEPT ![p] = [m EXCEPT !.at = "put", !.seen = archive[d]]]
              /\ UNCHANGED faults
           \/ Failing /\ merge' = [merge EXCEPT ![p] = [m EXCEPT !.at = "failed"]]

\* A PUT may take effect although it fails.
MergePut(p) ==
    /\ merge[p].at = "put"
    /\ LET d == merge[p].day
           object == MergedObject(merge[p].seen, merge[p].points)
           Write == /\ archive' = [archive EXCEPT ![d] = object]
                    /\ raced' = raced \cup (archive[d] \ (merge[p].seen \cup merge[p].points))
       IN  \/ Write /\ merge' = [merge EXCEPT ![p].at = "check"] /\ UNCHANGED faults
           \/ /\ Failing /\ merge' = [merge EXCEPT ![p].at = "failed"]
              /\ Write \/ UNCHANGED <<archive, raced>>
    /\ UNCHANGED <<today, memory, storage, alarm, flush, former, restarts, accepted,
                   stored, overwritten, evicted>>

MergeCheck(p) ==
    /\ merge[p].at = "check"
    /\ \/ merge' = [merge EXCEPT ![p].at = "done"] /\ UNCHANGED faults
       \/ Failing /\ merge' = [merge EXCEPT ![p].at = "failed"]
    /\ UNCHANGED <<today, memory, storage, archive, alarm, flush, former, restarts, history>>

MergeOver(p) == merge' = [merge EXCEPT ![p] = MergeIdle]
Merged(p, at) == merge[p].at = at

WriteDeadUnsaved(d, points) == UNCHANGED <<dead, stored>>

\* writeDeadLetterDay.
WriteDead(d, points) ==
    /\ dead' = [dead EXCEPT ![d] = @ \cup points]
    /\ stored' = stored \cup points

-----------------------------------------------------------------------------
(* alarm, flushMemDays.                                                    *)

\* (Days after the last one are not counted.)
AlarmFires ==
    /\ flush.at = "idle"
    /\ alarm <= today \/ (today = LastDay /\ alarm # NoAlarm)
    /\ alarm' = NoAlarm
    /\ flush' = [FlushIdle EXCEPT !.at = "mem", !.budget = ArchiveBudget,
                                  !.pending = mem # Nothing]
    /\ UNCHANGED <<today, memory, storage, archive, merge, former, faults, restarts, history>>

\* The loop takes the points a key has when it comes to it.
MemDay(d) == flush.at = "mem" /\ mem[d] # {} /\ flush.took[d] = {} /\ merge[Alarm].at = "idle"
Took(d)   == [flush EXCEPT !.took[d] = mem[d]]

\* The current day goes into its row.
MemCurrent(d) ==
    /\ MemDay(d) /\ d >= today
    /\ rows' = [rows EXCEPT ![d] = [NoRow EXCEPT !.points = rows[d].points \cup mem[d]]]
    /\ stored' = stored \cup mem[d]
    /\ memTries' = [memTries EXCEPT ![d] = 0]
    /\ flush' = Took(d)
    /\ UNCHANGED <<today, mem, tries, dead, archive, alarm, merge, former, faults, restarts,
                   accepted, raced, overwritten, evicted>>

\* A day that is over goes to R2.
MemPast(d) ==
    /\ MemDay(d) /\ d < today
    /\ StartMerge(Alarm, d, mem[d])
    /\ flush' = Took(d)
    /\ UNCHANGED <<today, memory, storage, archive, alarm, former, restarts, history>>

\* ... and its row keeps the points of this flush only.
MemRow(d, points) == [points |-> points, archived |-> "fresh", fails |-> 0]
MemArchived ==
    LET d == merge[Alarm].day  points == merge[Alarm].points
    IN  /\ flush.at = "mem" /\ Merged(Alarm, "done")
        /\ rows' = [rows EXCEPT ![d] = MemRow(d, points)]
        /\ overwritten' = overwritten \cup (rows[d].points \ points)
        /\ stored' = stored \cup points
        /\ memTries' = [memTries EXCEPT ![d] = 0]
        /\ MergeOver(Alarm)
        /\ UNCHANGED <<today, mem, tries, dead, archive, alarm, flush, former, faults,
                       restarts, accepted, raced, evicted>>

Exhausted(attempts) == attempts + 1 >= MaxAttempts

\* After some attempts the points become a dead letter, before that they stay.
MemFailed ==
    LET d == merge[Alarm].day  points == merge[Alarm].points
    IN  /\ flush.at = "mem" /\ Merged(Alarm, "failed")
        /\ IF Exhausted(memTries[d])
           THEN /\ WriteDead(d, points)
                /\ memTries' = [memTries EXCEPT ![d] = 0]
                /\ UNCHANGED flush
           ELSE /\ memTries' = [memTries EXCEPT ![d] = @ + 1]
                /\ flush' = [flush EXCEPT !.failed[d] = points]
                /\ UNCHANGED <<dead, stored>>
        /\ MergeOver(Alarm)
        /\ UNCHANGED <<today, mem, tries, rows, archive, alarm, former, faults, restarts,
                       accepted, raced, overwritten, evicted>>

\* memDays becomes the failed days, whatever was appended meanwhile.
MemEnds ==
    /\ flush.at = "mem" /\ merge[Alarm].at = "idle"
    /\ \A d \in Days : mem[d] # {} => flush.took[d] # {}
    /\ mem' = flush.failed
    /\ raced' = raced \cup UNION {mem[d] \ flush.took[d] : d \in Days}
    /\ flush' = [flush EXCEPT !.at = "days", !.took = Nothing, !.failed = Nothing]
    /\ UNCHANGED <<today, memTries, tries, storage, archive, alarm, merge, former, faults,
                   restarts, accepted, stored, overwritten, evicted>>

-----------------------------------------------------------------------------
(* flushCompletedDays: the rows of past days in the order of their days.   *)

NextDay(d) ==
    LET due == {e \in Days : e < today /\ rows[e] # NoRow /\ e \notin flush.done}
    IN  /\ flush.at = "days" /\ merge[Alarm].at = "idle"
        /\ d \in due /\ \A e \in due : d <= e

Handled(d) == flush' = [flush EXCEPT !.done = @ \cup {d}, !.pending = TRUE]
Spent(d)   == flush' = [flush EXCEPT !.done = @ \cup {d}, !.budget = @ - 1]

\* Archived less than ARCHIVE_CONFIRM_WINDOW_SEC ago, or no budget left.
DayWaits(d) ==
    /\ NextDay(d)
    /\ rows[d].archived = "fresh" \/ flush.budget = 0
    /\ Handled(d)
    /\ UNCHANGED <<today, memory, storage, archive, alarm, merge, former, faults, restarts, history>>

\* Not archived yet.
DayArchive(d) ==
    /\ NextDay(d) /\ rows[d].archived = "no" /\ flush.budget > 0
    /\ StartMerge(Alarm, d, rows[d].points)
    /\ Spent(d)
    /\ UNCHANGED <<today, memory, storage, archive, alarm, former, restarts, history>>

\* archiveDayPersisted finds a valid object, whatever points it holds.
Persisted(d) == archive[d] # {}
\* The row goes when the read window is over.
MayDrop(d) == today - d >= Retention
DayConfirmed(d) ==
    /\ NextDay(d) /\ rows[d].archived = "due" /\ flush.budget > 0
    /\ Persisted(d)
    /\ IF MayDrop(d)
       THEN /\ rows' = [rows EXCEPT ![d] = NoRow]
            /\ tries' = [tries EXCEPT ![d] = 0]
            /\ Spent(d)
       ELSE /\ flush' = [flush EXCEPT !.done = @ \cup {d}, !.budget = @ - 1, !.pending = TRUE]
            /\ UNCHANGED <<rows, tries>>
    /\ UNCHANGED <<today, mem, memTries, dead, archive, alarm, merge, former, faults,
                   restarts, history>>

\* It does not (also when the read fails): archive again, or give up.
DayUnconfirmed(d) ==
    /\ NextDay(d) /\ rows[d].archived = "due" /\ flush.budget > 0
    /\ IF rows[d].fails + 1 >= MaxConfirmFails
       THEN /\ Failing
            /\ WriteDead(d, rows[d].points)
            /\ rows' = [rows EXCEPT ![d] = NoRow]
            /\ tries' = [tries EXCEPT ![d] = 0]
            /\ UNCHANGED merge
       ELSE /\ Failing
            /\ merge' = [merge EXCEPT ![Alarm] = [at |-> "put", day |-> d,
                             points |-> rows[d].points, seen |-> archive[d]]]
            /\ UNCHANGED <<dead, stored, rows, tries>>
    /\ Spent(d)
    /\ UNCHANGED <<today, mem, memTries, archive, alarm, former, restarts, accepted,
                   raced, overwritten, evicted>>

DayMerged ==
    LET d == merge[Alarm].day
    IN  /\ flush.at = "days" /\ Merged(Alarm, "done")
        /\ rows' = [rows EXCEPT ![d].archived = "fresh",
                                ![d].fails = IF rows[d].archived = "no" THEN 0 ELSE @ + 1]
        /\ MergeOver(Alarm) /\ Handled(d)
        /\ UNCHANGED <<today, memory, dead, archive, alarm, former, faults, restarts, history>>

DayFailed ==
    LET d == merge[Alarm].day
    IN  /\ flush.at = "days" /\ Merged(Alarm, "failed")
        /\ IF Exhausted(tries[d])
           THEN /\ WriteDead(d, rows[d].points)
                /\ rows' = [rows EXCEPT ![d] = NoRow]
                /\ tries' = [tries EXCEPT ![d] = 0]
                /\ UNCHANGED flush
           ELSE /\ tries' = [tries EXCEPT ![d] = @ + 1]
                /\ Handled(d)
                /\ UNCHANGED <<rows, dead, stored>>
        /\ MergeOver(Alarm)
        /\ UNCHANGED <<today, mem, memTries, archive, alarm, former, faults, restarts,
                       accepted, raced, overwritten, evicted>>

DaysEnd ==
    /\ flush.at = "days" /\ merge[Alarm].at = "idle"
    /\ \A d \in Days : ~NextDay(d)
    /\ flush' = [flush EXCEPT !.at = "dead", !.done = {d \in Days : dead[d] = {}}]
    /\ UNCHANGED <<today, memory, storage, archive, alarm, merge, former, faults, restarts, history>>

-----------------------------------------------------------------------------
(* drainDeadLetters, replayDeadLetter: by the alarm, or a request.         *)

AlarmReplays(d) ==
    /\ flush.at = "dead" /\ d \notin flush.done /\ dead[d] # {}
    /\ StartMerge(Alarm, d, dead[d])
    /\ flush' = [flush EXCEPT !.done = @ \cup {d}]
    /\ UNCHANGED <<today, memory, storage, archive, alarm, former, restarts, history>>

AdminReplays(r, d) ==
    /\ dead[d] # {}
    /\ StartMerge(r, d, dead[d])
    /\ UNCHANGED <<today, memory, storage, archive, alarm, flush, former, restarts, history>>

\* The letter is deleted by its key, a failed one stays.
Replayed(p) ==
    LET d == merge[p].day
    IN  /\ p = Alarm => flush.at = "dead"
        /\ \/ /\ Merged(p, "done")
              /\ dead' = [dead EXCEPT ![d] = {}]
              /\ raced' = raced \cup (dead[d] \ merge[p].points)
           \/ Merged(p, "failed") /\ UNCHANGED <<dead, raced>>
        /\ MergeOver(p)
        /\ UNCHANGED <<today, memory, rows, archive, alarm, flush, former, faults, restarts,
                       accepted, stored, overwritten, evicted>>

\* The last step of alarm.  The rows of days within the read window are what
\* keeps pending TRUE, so the next alarm is soon.
StillPending == flush.pending \/ dead # Nothing
AlarmEnds ==
    /\ flush.at = "dead" /\ merge[Alarm].at = "idle"
    /\ \A d \in Days : d \in flush.done \/ dead[d] = {}
    /\ alarm' = Rescheduled(alarm, StillPending)
    /\ flush' = FlushIdle
    /\ UNCHANGED <<today, memory, storage, archive, merge, former, faults, restarts, history>>

-----------------------------------------------------------------------------
\* The local day ends.
Midnight ==
    /\ today < LastDay
    /\ today' = today + 1
    /\ UNCHANGED <<memory, storage, archive, alarm, flush, merge, former, faults, restarts, history>>

\* ARCHIVE_CONFIRM_WINDOW_SEC passes.
WindowPasses(d) ==
    /\ rows[d].archived = "fresh"
    /\ rows' = [rows EXCEPT ![d].archived = "due"]
    /\ UNCHANGED <<today, memory, dead, archive, alarm, flush, merge, former, faults, restarts, history>>

\* The object is evicted: memory and requests are gone, an alarm handler that
\* did not finish is started again.
Restart ==
    /\ restarts < MaxRestarts
    /\ restarts' = restarts + 1
    /\ mem' = Nothing /\ memTries' = Zero /\ tries' = Zero
    /\ evicted' = evicted \cup All(mem)
    /\ alarm' = IF flush.at = "idle" THEN alarm ELSE Soon
    /\ flush' = FlushIdle
    /\ merge' = [p \in Procs |-> MergeIdle]
    /\ import' = [i \in Importers |-> [at |-> "idle", points |-> {}]]
    /\ UNCHANGED <<today, storage, archive, legacy, migrated, faults, accepted, stored,
                   raced, overwritten>>

AlarmStep ==
    \/ AlarmFires \/ MemArchived \/ MemFailed \/ MemEnds
    \/ DayMerged \/ DayFailed \/ DaysEnd \/ AlarmEnds
    \/ MergePut(Alarm) \/ MergeCheck(Alarm) \/ Replayed(Alarm)
    \/ \E d \in Days : \/ MemCurrent(d) \/ MemPast(d) \/ DayWaits(d) \/ DayArchive(d)
                       \/ DayConfirmed(d) \/ DayUnconfirmed(d) \/ AlarmReplays(d)

Request ==
    \/ \E p \in Points : Append(p)
    \/ \E i \in Importers : ImportExport(i) \/ ImportDays(i) \/ ImportDelete(i)
    \/ \E r \in Replayers : \/ MergePut(r) \/ MergeCheck(r) \/ Replayed(r)
                            \/ \E d \in Days : AdminReplays(r, d)

Next == \/ AlarmStep \/ Request \/ Midnight \/ Restart
        \/ \E d \in Days : WindowPasses(d)

Spec == Init /\ [][Next]_vars

\* A set alarm is delivered and its handler runs, a started import goes on, the
\* confirmation window and the days pass.
FairSpec == /\ Spec /\ WF_vars(AlarmStep) /\ WF_vars(Midnight)
            /\ \A i \in Importers : WF_vars(ImportDays(i) \/ ImportDelete(i))
            /\ \A d \in Days : WF_vars(WindowPasses(d))

-----------------------------------------------------------------------------
Excused  == raced \cup overwritten \cup evicted

TypeOK ==
    /\ today \in Days
    /\ \A d \in Days : /\ mem[d] \subseteq Points /\ dead[d] \subseteq Points
                       /\ archive[d] \subseteq Points /\ rows[d].points \subseteq Points
                       /\ memTries[d] < MaxAttempts /\ tries[d] < MaxAttempts
                       /\ rows[d].archived \in {"no", "fresh", "due"}
                       /\ rows[d].fails < MaxConfirmFails
    /\ alarm \in 0 .. NoAlarm
    /\ flush.budget \in 0 .. ArchiveBudget
    /\ Excused \cup accepted \cup stored \subseteq Points

\* Whatever R2 does and however the alarm, replays and the import interleave, a
\* point that was accepted is in memory, a row, a dead letter or the archive,
\* unless it was in memory at an eviction, was in a row that a later flush of
\* the same day replaced, or was removed by a step that had read the place
\* before the point came there (flushMemDays:507, flushCompletedDays,
\* replayDeadLetter).
NothingForgotten == accepted \subseteq Readable \cup Excused

\* The row of a day leaves storage only when all its points are in the archive
\* or in a dead letter, unless another merge of the day clobbered the object
\* (flushCompletedDays:374-392; archiveDayPersisted does not look at points).
DayLeavesWhenSafe ==
    [][\A d \in Days : (rows[d] # NoRow /\ rows'[d] = NoRow) =>
           rows[d].points \subseteq archive[d] \cup dead'[d] \cup Excused]_vars

\* Every accepted point is archived at last, through retries, dead letters and
\* evictions, because there is always an alarm (alarm, scheduleFlush).
PointIsArchived ==
    \A p \in Points : p \in accepted ~> (p \in archive[DayOf[p]] \/ p \in Excused)

\* "hub history reads merge archived and hot days per target": what has been in
\* a row or a dead letter can be read (tests/probe-history-hub.test.mjs:53).
StoredStaysReadable == stored \subseteq Readable
=============================================================================
