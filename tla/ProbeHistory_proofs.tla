------------------------ MODULE ProbeHistory_proofs ------------------------
(* Theorems about ProbeHistory, for every value of its constants.          *)
EXTENDS ProbeHistory, TLAPS

RowSet   == [points : SUBSET Points, archived : {"no", "fresh", "due"},
             fails : 0 .. MaxConfirmFails - 1]
FlushSet == [at : {"idle", "mem", "days", "dead"}, took : [Days -> SUBSET Points],
             failed : [Days -> SUBSET Points], done : SUBSET Days,
             budget : 0 .. ArchiveBudget, pending : BOOLEAN]
MergeSet == [at : {"idle", "put", "check", "done", "failed"}, day : Days,
             points : SUBSET Points, seen : SUBSET Points]
Legacy   == LegacyPoints \cup LegacyDead
ImportSet == [at : {"idle", "import", "delete"}, points : SUBSET Legacy]

ClockOK   == today \in Days /\ alarm \in 0 .. NoAlarm
MemoryOK  == /\ mem \in [Days -> SUBSET Points]
             /\ memTries \in [Days -> 0 .. MaxAttempts - 1]
             /\ tries \in [Days -> 0 .. MaxAttempts - 1]
StorageOK == /\ rows \in [Days -> RowSet]
             /\ dead \in [Days -> SUBSET Points]
             /\ archive \in [Days -> SUBSET Points]
FlushOK   == flush \in FlushSet /\ merge \in [Procs -> MergeSet]
ImportOK  == /\ legacy \subseteq Legacy /\ migrated \in BOOLEAN
             /\ import \in [Importers -> ImportSet]
HistoryOK == /\ accepted \subseteq Points /\ stored \subseteq Points
             /\ raced \subseteq Points /\ overwritten \subseteq Points
             /\ evicted \subseteq Points
\* The alarm merges a row that is not archived, or not yet given up.
MergingRow == flush.at = "days" /\ merge[Alarm].at # "idle"
ConfirmOK == MergingRow =>
    LET row == rows[merge[Alarm].day]
    IN  /\ row.archived # "fresh"
        /\ row.archived = "due" => row.fails + 1 < MaxConfirmFails

Typed == /\ ClockOK /\ MemoryOK /\ StorageOK /\ FlushOK /\ ImportOK /\ HistoryOK
         /\ ConfirmOK

LEMMA EmptyDays ==
    /\ Nothing \in [Days -> SUBSET Points] /\ Zero \in [Days -> 0 .. MaxAttempts - 1]
    /\ NoRow \in RowSet /\ MergeIdle \in MergeSet /\ FlushIdle \in FlushSet
    /\ Days \subseteq Nat /\ 0 \in Days
  BY PointsAssumption, LimitsAssumption
     DEF Nothing, Zero, NoRow, RowSet, MergeIdle, MergeSet, FlushIdle, FlushSet, Days

LEMMA OfDayType ==
    ASSUME NEW S \in SUBSET Points
    PROVE  OfDay(S) \in [Days -> SUBSET Points] /\ All(OfDay(S)) = S
  BY PointsAssumption DEF OfDay, All

LEMMA AllType ==
    ASSUME NEW f \in [Days -> SUBSET Points]
    PROVE  All(f) \subseteq Points
  BY DEF All

LEMMA RescheduledType ==
    ASSUME Typed, NEW pending \in BOOLEAN
    PROVE  Rescheduled(alarm, pending) \in 0 .. NoAlarm
  BY PointsAssumption DEF Typed, ClockOK, Rescheduled, Soon, NoAlarm, Days

LEMMA InitTyped == Init => Typed
<1> SUFFICES ASSUME Init PROVE Typed
  OBVIOUS
<1>1. MemoryOK /\ StorageOK /\ FlushOK
  BY EmptyDays DEF Init, MemoryOK, StorageOK, FlushOK
<1>2. ClockOK /\ HistoryOK
  BY EmptyDays, PointsAssumption DEF Init, ClockOK, HistoryOK, NoAlarm
<1>3. ImportOK
  BY DEF Init, ImportOK, ImportSet, Legacy
<1>4. ConfirmOK
  BY DEF Init, ConfirmOK, MergingRow, FlushIdle
<1> QED
  BY <1>1, <1>2, <1>3, <1>4 DEF Typed

LEMMA AppendTyped == ASSUME Typed, NEW p \in Points, Append(p) PROVE Typed'
<1>1. Rescheduled(alarm, TRUE) \in 0 .. NoAlarm
  BY RescheduledType
<1> QED
  BY <1>1, PointsAssumption
     DEF Append, Typed, ClockOK, MemoryOK, StorageOK, FlushOK, ImportOK, HistoryOK,
         ConfirmOK, MergingRow, former, storage

LEMMA ImportTyped ==
    ASSUME Typed, NEW i \in Importers, ImportExport(i) \/ ImportDays(i) \/ ImportDelete(i)
    PROVE  Typed'
<1>1. CASE ImportExport(i)
  BY <1>1
     DEF ImportExport, Typed, ClockOK, MemoryOK, StorageOK, FlushOK, ImportOK, HistoryOK,
         ConfirmOK, MergingRow, ImportSet, memory, storage, history
<1>2. CASE ImportDays(i)
  <2> DEFINE letters == OfDay(import[i].points \cap LegacyDead)
             days == OfDay(import[i].points \cap LegacyPoints)
  <2>1. import[i].points \subseteq Points /\ import[i] \in ImportSet
    BY PointsAssumption DEF Typed, ImportOK, ImportSet, Legacy
  <2>2. letters \in [Days -> SUBSET Points] /\ days \in [Days -> SUBSET Points]
        /\ All(letters) \subseteq Points
    BY <2>1, OfDayType, AllType
  <2>3. MemoryOK' /\ StorageOK'
    BY <1>2, <2>2 DEF ImportDays, Typed, MemoryOK, StorageOK
  <2>4. HistoryOK'
    BY <1>2, <2>1, <2>2 DEF ImportDays, Typed, HistoryOK, StorageOK
  <2>5. ImportOK'
    BY <1>2, <2>1 DEF ImportDays, Typed, ImportOK, ImportSet
  <2> HIDE DEF letters, days
  <2> QED
    BY <1>2, <2>3, <2>4, <2>5 DEF ImportDays, Typed, ClockOK, FlushOK, ConfirmOK, MergingRow
<1>3. CASE ImportDelete(i)
  <2>1. Rescheduled(alarm, TRUE) \in 0 .. NoAlarm
    BY RescheduledType
  <2> QED
    BY <1>3, <2>1
       DEF ImportDelete, Typed, ClockOK, MemoryOK, StorageOK, FlushOK, ImportOK, HistoryOK,
           ConfirmOK, MergingRow, ImportSet, memory, storage, history
<1> QED
  BY <1>1, <1>2, <1>3

-----------------------------------------------------------------------------
(* The steps of a merge.                                                   *)

LEMMA StartMergeType ==
    ASSUME FlushOK, archive \in [Days -> SUBSET Points],
           NEW p \in Procs, NEW d \in Days, NEW points \in SUBSET Points,
           StartMerge(p, d, points)
    PROVE  /\ merge' \in [Procs -> MergeSet]
           /\ \A q \in Procs \ {p} : merge'[q] = merge[q]
           /\ merge'[p].at \in {"put", "failed"} /\ merge'[p].day = d
           /\ merge'[p].points = points
           /\ merge[p].at = "idle"
<1> DEFINE m == [MergeIdle EXCEPT !.day = d, !.points = points]
           read == [m EXCEPT !.at = "put", !.seen = archive[d]]
           unread == [m EXCEPT !.at = "failed"]
<1>1. /\ read \in MergeSet /\ read.at = "put" /\ read.day = d /\ read.points = points
      /\ unread \in MergeSet /\ unread.at = "failed" /\ unread.day = d
      /\ unread.points = points
  BY EmptyDays DEF MergeIdle, MergeSet
<1>2. /\ merge[p].at = "idle"
      /\ merge' = [merge EXCEPT ![p] = read] \/ merge' = [merge EXCEPT ![p] = unread]
  BY DEF StartMerge
<1> HIDE DEF read, unread
<1> QED
  BY <1>1, <1>2 DEF FlushOK

LEMMA MergeStepTyped ==
    ASSUME Typed, NEW p \in Procs, MergePut(p) \/ MergeCheck(p)
    PROVE  Typed'
<1>1. CASE MergePut(p)
  <2>1. archive' \in [Days -> SUBSET Points] /\ raced' \subseteq Points
    BY <1>1 DEF MergePut, MergedObject, Typed, StorageOK, FlushOK, MergeSet, HistoryOK
  <2>2. merge' \in [Procs -> MergeSet] /\ (merge[Alarm].at = "idle" <=> merge'[Alarm].at = "idle")
        /\ merge'[Alarm].day = merge[Alarm].day
    BY <1>1 DEF MergePut, Typed, FlushOK, MergeSet, Procs
  <2> QED
    BY <1>1, <2>1, <2>2
       DEF MergePut, Typed, ClockOK, MemoryOK, StorageOK, FlushOK, ImportOK, HistoryOK,
           ConfirmOK, MergingRow, memory, storage, former
<1>2. CASE MergeCheck(p)
  <2>2. merge' \in [Procs -> MergeSet] /\ (merge[Alarm].at = "idle" <=> merge'[Alarm].at = "idle")
        /\ merge'[Alarm].day = merge[Alarm].day
    BY <1>2 DEF MergeCheck, Typed, FlushOK, MergeSet, Procs
  <2> QED
    BY <1>2, <2>2
       DEF MergeCheck, Typed, ClockOK, MemoryOK, StorageOK, FlushOK, ImportOK, HistoryOK,
           ConfirmOK, MergingRow, memory, storage, former, history
<1> QED
  BY <1>1, <1>2

LEMMA WriteDeadType ==
    ASSUME Typed, NEW d \in Days, NEW points \in SUBSET Points, WriteDead(d, points)
    PROVE  dead' \in [Days -> SUBSET Points] /\ stored' \subseteq Points
  BY DEF WriteDead, Typed, StorageOK, HistoryOK

-----------------------------------------------------------------------------
(* The alarm over the days in memory.                                      *)

LEMMA MemTyped ==
    ASSUME Typed, \/ AlarmFires \/ MemArchived \/ MemFailed \/ MemEnds
                  \/ \E d \in Days : MemCurrent(d) \/ MemPast(d)
    PROVE  Typed'
<1> USE DEF Typed
<1>a. Alarm \in Procs
  BY DEF Procs
<1>1. CASE AlarmFires
  <2>a. flush' = [at |-> "mem", took |-> Nothing, failed |-> Nothing, done |-> {},
                  budget |-> ArchiveBudget, pending |-> mem # Nothing]
        /\ alarm' = NoAlarm
    BY <1>1 DEF AlarmFires, FlushIdle
  <2>b. (mem # Nothing) \in BOOLEAN
    BY Zenon
  <2>c. ArchiveBudget \in 0 .. ArchiveBudget
    BY LimitsAssumption
  <2>1. flush' \in FlushSet /\ flush'.at = "mem" /\ alarm' \in 0 .. NoAlarm
    <3>1. flush' \in FlushSet /\ flush'.at = "mem"
      BY <2>a, <2>b, <2>c, EmptyDays, Zenon DEF FlushSet
    <3> QED
      BY <3>1, <2>a, PointsAssumption DEF NoAlarm
  <2> QED
    BY <1>1, <2>1
       DEF AlarmFires, ClockOK, MemoryOK, StorageOK, FlushOK, ImportOK, HistoryOK,
           ConfirmOK, MergingRow, memory, storage, former, history
<1>2. CASE MemArchived
  <2> DEFINE d == merge[Alarm].day
             points == merge[Alarm].points
  <2>1. d \in Days /\ points \in SUBSET Points
    BY <1>a DEF FlushOK, MergeSet
  <2>2. rows' \in [Days -> RowSet] /\ memTries' \in [Days -> 0 .. MaxAttempts - 1]
    BY <1>2, <2>1, LimitsAssumption DEF MemArchived, MemRow, RowSet, StorageOK, MemoryOK
  <2>3. merge' \in [Procs -> MergeSet] /\ flush' = flush /\ flush.at = "mem"
    BY <1>2, EmptyDays DEF MemArchived, MergeOver, FlushOK
  <2>4. HistoryOK'
    BY <1>2, <2>1 DEF MemArchived, HistoryOK, StorageOK, RowSet
  <2> QED
    BY <1>2, <2>2, <2>3, <2>4
       DEF MemArchived, ClockOK, MemoryOK, StorageOK, FlushOK, ImportOK, ConfirmOK,
           MergingRow, former
<1>3. CASE MemFailed
  <2> DEFINE d == merge[Alarm].day
             points == merge[Alarm].points
  <2>1. d \in Days /\ points \in SUBSET Points
    BY <1>a DEF FlushOK, MergeSet
  <2>2. memTries' \in [Days -> 0 .. MaxAttempts - 1]
    BY <1>3, <2>1, LimitsAssumption DEF MemFailed, Exhausted, MemoryOK
  <2>a. merge' \in [Procs -> MergeSet]
    BY <1>3, EmptyDays DEF MemFailed, MergeOver, FlushOK
  <2>b. flush' = flush \/ flush' = [flush EXCEPT !.failed[d] = points]
    BY <1>3 DEF MemFailed
  <2>c. flush.at = "mem"
    BY <1>3 DEF MemFailed
  <2> HIDE DEF d, points
  <2>3. merge' \in [Procs -> MergeSet] /\ flush' \in FlushSet /\ flush'.at = "mem"
    BY <2>a, <2>b, <2>c, <2>1 DEF FlushOK, FlushSet
  <2> USE DEF d, points
  <2>4. dead' \in [Days -> SUBSET Points] /\ stored' \subseteq Points
    BY <1>3, <2>1, WriteDeadType DEF MemFailed, StorageOK, HistoryOK
  <2> QED
    BY <1>3, <2>2, <2>3, <2>4
       DEF MemFailed, ClockOK, MemoryOK, StorageOK, FlushOK, ImportOK, HistoryOK, ConfirmOK,
           MergingRow, former
<1>4. CASE MemEnds
  <2>1. mem' \in [Days -> SUBSET Points] /\ raced' \subseteq Points
    BY <1>4 DEF MemEnds, FlushOK, FlushSet, HistoryOK, MemoryOK
  <2>2. flush' \in FlushSet /\ merge'[Alarm].at = "idle"
    BY <1>4, EmptyDays DEF MemEnds, FlushOK, FlushSet
  <2> QED
    BY <1>4, <2>1, <2>2
       DEF MemEnds, ClockOK, MemoryOK, StorageOK, FlushOK, ImportOK, HistoryOK, ConfirmOK,
           MergingRow, storage, former
<1>5. ASSUME NEW d \in Days, MemCurrent(d) PROVE Typed'
  <2>1. mem[d] \in SUBSET Points /\ flush' \in FlushSet /\ flush'.at = "mem"
    BY <1>5 DEF MemCurrent, MemDay, Took, MemoryOK, FlushOK, FlushSet
  <2>2. rows' \in [Days -> RowSet] /\ memTries' \in [Days -> 0 .. MaxAttempts - 1]
    BY <1>5, <2>1, LimitsAssumption DEF MemCurrent, NoRow, RowSet, StorageOK, MemoryOK
  <2> QED
    BY <1>5, <2>1, <2>2
       DEF MemCurrent, ClockOK, MemoryOK, StorageOK, FlushOK, ImportOK, HistoryOK,
           ConfirmOK, MergingRow, former
<1>6. ASSUME NEW d \in Days, MemPast(d) PROVE Typed'
  <2>1. mem[d] \in SUBSET Points /\ flush' \in FlushSet /\ flush'.at = "mem"
    BY <1>6 DEF MemPast, MemDay, Took, MemoryOK, FlushOK, FlushSet
  <2>2. merge' \in [Procs -> MergeSet]
    BY <1>6, <1>a, <2>1, StartMergeType DEF MemPast, StorageOK
  <2> QED
    BY <1>6, <2>1, <2>2
       DEF MemPast, ClockOK, MemoryOK, StorageOK, FlushOK, ImportOK, HistoryOK, ConfirmOK,
           MergingRow, memory, storage, former, history
<1> QED
  BY <1>1, <1>2, <1>3, <1>4, <1>5, <1>6

-----------------------------------------------------------------------------
(* The alarm over the rows of past days.                                   *)

LEMMA SpentType ==
    ASSUME FlushOK, NEW d \in Days, flush.budget > 0, Spent(d)
    PROVE  flush' \in FlushSet /\ flush'.at = flush.at
<1>1. flush.budget - 1 \in 0 .. ArchiveBudget
  BY LimitsAssumption DEF FlushOK, FlushSet
<1>2. flush.done \cup {d} \in SUBSET Days
  BY DEF FlushOK, FlushSet
<1> QED
  BY <1>1, <1>2 DEF Spent, FlushOK, FlushSet

LEMMA HandledType ==
    ASSUME FlushOK, NEW d \in Days, Handled(d)
    PROVE  flush' \in FlushSet /\ flush'.at = flush.at
  BY DEF Handled, FlushOK, FlushSet

LEMMA DayReadTyped ==
    ASSUME Typed, NEW d \in Days, DayWaits(d) \/ DayArchive(d) \/ DayConfirmed(d)
    PROVE  Typed'
<1> USE DEF Typed
<1>a. Alarm \in Procs
  BY DEF Procs
<1>1. CASE DayWaits(d)
  BY <1>1, HandledType
     DEF DayWaits, NextDay, ClockOK, MemoryOK, StorageOK, FlushOK, ImportOK, HistoryOK,
         ConfirmOK, MergingRow, memory, storage, former, history
<1>2. CASE DayArchive(d)
  <2>1. rows[d] \in RowSet /\ rows[d].archived = "no"
    BY <1>2 DEF DayArchive, StorageOK
  <2>2. rows[d].points \in SUBSET Points
    BY <2>1 DEF RowSet
  <2>3. merge' \in [Procs -> MergeSet] /\ merge'[Alarm].day = d
    BY <1>2, <1>a, <2>2, StartMergeType DEF DayArchive, StorageOK
  <2>4. flush' \in FlushSet
    BY <1>2, SpentType DEF DayArchive
  <2>5. UNCHANGED <<today, memory, storage, archive, alarm, former, history>>
    BY <1>2 DEF DayArchive
  <2>6. ConfirmOK'
    BY <2>1, <2>3, <2>5 DEF ConfirmOK, MergingRow, storage
  <2>7. ClockOK' /\ MemoryOK' /\ StorageOK' /\ ImportOK' /\ HistoryOK'
    BY <2>5 DEF ClockOK, MemoryOK, StorageOK, ImportOK, HistoryOK, memory, storage, former,
                history
  <2> QED
    BY <2>3, <2>4, <2>6, <2>7 DEF FlushOK
<1>3. CASE DayConfirmed(d)
  <2>b. flush \in FlushSet /\ flush.budget > 0 /\ ArchiveBudget \in Nat
    BY <1>3, LimitsAssumption DEF DayConfirmed, FlushOK
  <2>a. flush.budget - 1 \in 0 .. ArchiveBudget /\ flush.done \cup {d} \in SUBSET Days
    BY <2>b DEF FlushSet
  <2>c. merge[Alarm].at = "idle" /\ UNCHANGED merge
    BY <1>3 DEF DayConfirmed, NextDay
  <2>d. Spent(d) => flush' \in FlushSet
    BY <2>a, <2>b DEF Spent, FlushSet
  <2>e. [flush EXCEPT !.done = @ \cup {d}, !.budget = @ - 1, !.pending = TRUE] \in FlushSet
    BY <2>a, <2>b DEF FlushSet
  <2>1. flush' \in FlushSet /\ merge'[Alarm].at = "idle"
    BY <1>3, <2>c, <2>d, <2>e DEF DayConfirmed
  <2>2. rows' \in [Days -> RowSet] /\ tries' \in [Days -> 0 .. MaxAttempts - 1]
    BY <1>3, EmptyDays, LimitsAssumption DEF DayConfirmed, StorageOK, MemoryOK
  <2> QED
    BY <1>3, <2>1, <2>2
       DEF DayConfirmed, ClockOK, MemoryOK, StorageOK, FlushOK, ImportOK, HistoryOK,
           ConfirmOK, MergingRow, former, history
<1> QED
  BY <1>1, <1>2, <1>3

LEMMA DayUnconfirmedTyped ==
    ASSUME Typed, NEW d \in Days, DayUnconfirmed(d)
    PROVE  Typed'
<1> USE DEF Typed
<1>1. flush' \in FlushSet /\ merge[Alarm].at = "idle" /\ Alarm \in Procs
  BY SpentType DEF DayUnconfirmed, NextDay, Procs
<1>2. rows[d] \in RowSet /\ rows[d].points \in SUBSET Points /\ rows[d].archived = "due"
  BY DEF DayUnconfirmed, StorageOK, RowSet
<1>3. CASE rows[d].fails + 1 >= MaxConfirmFails
  <2>1. dead' \in [Days -> SUBSET Points] /\ stored' \subseteq Points
    BY <1>2, <1>3, WriteDeadType DEF DayUnconfirmed
  <2>2. rows' \in [Days -> RowSet] /\ tries' \in [Days -> 0 .. MaxAttempts - 1]
    BY <1>3, EmptyDays, LimitsAssumption DEF DayUnconfirmed, StorageOK, MemoryOK
  <2>3. merge' = merge
    BY <1>3 DEF DayUnconfirmed
  <2> QED
    BY <1>1, <2>1, <2>2, <2>3
       DEF DayUnconfirmed, ClockOK, MemoryOK, StorageOK, FlushOK, ImportOK, HistoryOK,
           ConfirmOK, MergingRow, former
<1>4. CASE ~(rows[d].fails + 1 >= MaxConfirmFails)
  <2> DEFINE m == [at |-> "put", day |-> d, points |-> rows[d].points, seen |-> archive[d]]
  <2>1. m \in MergeSet /\ m.day = d
    BY <1>2 DEF MergeSet, StorageOK
  <2>2. merge' = [merge EXCEPT ![Alarm] = m] /\ UNCHANGED <<dead, stored, rows, tries>>
    BY <1>4 DEF DayUnconfirmed
  <2> HIDE DEF m
  <2>3. merge' \in [Procs -> MergeSet] /\ merge'[Alarm].day = d
    BY <1>1, <2>1, <2>2 DEF FlushOK
  <2>4. rows[d].fails + 1 < MaxConfirmFails
    BY <1>2, <1>4, LimitsAssumption DEF RowSet
  <2> QED
    BY <1>1, <1>2, <2>2, <2>3, <2>4
       DEF DayUnconfirmed, ClockOK, MemoryOK, StorageOK, FlushOK, ImportOK, HistoryOK,
           ConfirmOK, MergingRow, former
<1> QED
  BY <1>3, <1>4

LEMMA DayEndsTyped ==
    ASSUME Typed, DayMerged \/ DayFailed \/ DaysEnd
    PROVE  Typed'
<1> USE DEF Typed
<1> DEFINE d == merge[Alarm].day
<1>a. Alarm \in Procs /\ d \in Days
  BY DEF Procs, FlushOK, MergeSet
<1>b. rows[d] \in RowSet
  BY <1>a DEF StorageOK
<1>1. CASE DayMerged
  <2>1. merge' \in [Procs -> MergeSet] /\ merge'[Alarm].at = "idle"
    BY <1>1, <1>a, EmptyDays DEF DayMerged, MergeOver, FlushOK, MergeIdle
  <2>2. flush' \in FlushSet
    BY <1>1, <1>a, HandledType DEF DayMerged
  <2>3. flush.at = "days" /\ merge[Alarm].at # "idle"
    BY <1>1 DEF DayMerged, Merged
  <2>4. rows[d].archived = "due" => rows[d].fails + 1 < MaxConfirmFails
    BY <2>3 DEF ConfirmOK, MergingRow
  <2>5. rows[d].archived # "fresh"
    BY <2>3 DEF ConfirmOK, MergingRow
  <2>6. (IF rows[d].archived = "no" THEN 0 ELSE rows[d].fails + 1) \in 0 .. MaxConfirmFails - 1
    BY <1>b, <2>4, <2>5, LimitsAssumption DEF RowSet
  <2>7. rows' = [rows EXCEPT ![d] = [rows[d] EXCEPT !.archived = "fresh",
                    !.fails = IF rows[d].archived = "no" THEN 0 ELSE rows[d].fails + 1]]
    BY <1>1, <1>a, <1>b DEF DayMerged, StorageOK, RowSet
  <2> HIDE DEF d
  <2>8. rows' \in [Days -> RowSet]
    BY <1>a, <1>b, <2>6, <2>7 DEF RowSet, StorageOK
  <2> QED
    BY <1>1, <2>1, <2>2, <2>8
       DEF DayMerged, ClockOK, MemoryOK, StorageOK, FlushOK, ImportOK, HistoryOK, ConfirmOK,
           MergingRow, memory, former, history
<1>2. CASE DayFailed
  <2>1. merge' \in [Procs -> MergeSet] /\ merge'[Alarm].at = "idle"
    BY <1>2, <1>a, EmptyDays DEF DayFailed, MergeOver, FlushOK, MergeIdle
  <2>2. flush' \in FlushSet
    BY <1>2, <1>a, HandledType DEF DayFailed, FlushOK
  <2>3. dead' \in [Days -> SUBSET Points] /\ stored' \subseteq Points
    BY <1>2, <1>a, <1>b, WriteDeadType DEF DayFailed, StorageOK, HistoryOK, RowSet
  <2>4. tries' \in [Days -> 0 .. MaxAttempts - 1]
    BY <1>2, <1>a, LimitsAssumption DEF DayFailed, Exhausted, MemoryOK
  <2>5. rows' \in [Days -> RowSet]
    BY <1>2, <1>a, EmptyDays DEF DayFailed, StorageOK
  <2> QED
    BY <1>2, <2>1, <2>2, <2>3, <2>4, <2>5
       DEF DayFailed, ClockOK, MemoryOK, StorageOK, FlushOK, ImportOK, HistoryOK, ConfirmOK,
           MergingRow, former
<1>3. CASE DaysEnd
  <2>1. flush' \in FlushSet /\ flush'.at = "dead"
    BY <1>3 DEF DaysEnd, FlushOK, FlushSet
  <2> QED
    BY <1>3, <2>1
       DEF DaysEnd, ClockOK, MemoryOK, StorageOK, FlushOK, ImportOK, HistoryOK, ConfirmOK,
           MergingRow, memory, storage, former, history
<1> QED
  BY <1>1, <1>2, <1>3

-----------------------------------------------------------------------------
(* Dead letters, and what is not a step of the alarm.                      *)

LEMMA ReplayTyped ==
    ASSUME Typed,
           \/ AlarmEnds
           \/ \E d \in Days : AlarmReplays(d) \/ \E r \in Replayers : AdminReplays(r, d)
           \/ \E p \in Procs : Replayed(p)
    PROVE  Typed'
<1> USE DEF Typed
<1>a. Alarm \in Procs /\ Replayers \subseteq Procs /\ Alarm \notin Replayers
  BY ProcsAssumption DEF Procs
<1>1. CASE AlarmEnds
  <2>1. alarm' \in 0 .. NoAlarm
    <3>1. StillPending \in BOOLEAN
      BY Zenon DEF StillPending, FlushOK, FlushSet
    <3> QED
      BY <1>1, <3>1, RescheduledType DEF AlarmEnds
  <2>2. flush' \in FlushSet /\ flush'.at = "idle"
    BY <1>1, EmptyDays DEF AlarmEnds, FlushIdle
  <2> QED
    BY <1>1, <2>1, <2>2
       DEF AlarmEnds, ClockOK, MemoryOK, StorageOK, FlushOK, ImportOK, HistoryOK, ConfirmOK,
           MergingRow, memory, storage, former, history
<1>2. ASSUME NEW d \in Days, AlarmReplays(d) PROVE Typed'
  <2>1. dead[d] \in SUBSET Points
    BY DEF StorageOK
  <2>2. merge' \in [Procs -> MergeSet]
    BY <1>2, <1>a, <2>1, StartMergeType DEF AlarmReplays, StorageOK
  <2>3. flush' \in FlushSet /\ flush'.at = "dead"
    BY <1>2 DEF AlarmReplays, FlushOK, FlushSet
  <2> QED
    BY <1>2, <2>2, <2>3
       DEF AlarmReplays, ClockOK, MemoryOK, StorageOK, FlushOK, ImportOK, HistoryOK,
           ConfirmOK, MergingRow, memory, storage, former, history
<1>3. ASSUME NEW d \in Days, NEW r \in Replayers, AdminReplays(r, d) PROVE Typed'
  <2>1. dead[d] \in SUBSET Points
    BY DEF StorageOK
  <2>2. merge' \in [Procs -> MergeSet] /\ merge'[Alarm] = merge[Alarm]
    BY <1>3, <1>a, <2>1, StartMergeType DEF AdminReplays, StorageOK
  <2> QED
    BY <1>3, <2>2
       DEF AdminReplays, ClockOK, MemoryOK, StorageOK, FlushOK, ImportOK, HistoryOK,
           ConfirmOK, MergingRow, memory, storage, former, history
<1>4. ASSUME NEW p \in Procs, Replayed(p) PROVE Typed'
  <2>1. merge' \in [Procs -> MergeSet] /\ (merge'[Alarm] = merge[Alarm] \/ merge'[Alarm].at = "idle")
    BY <1>4, <1>a, EmptyDays DEF Replayed, MergeOver, FlushOK, MergeIdle
  <2>2. dead' \in [Days -> SUBSET Points] /\ raced' \subseteq Points
    BY <1>4 DEF Replayed, StorageOK, FlushOK, MergeSet, HistoryOK
  <2> QED
    BY <1>4, <2>1, <2>2
       DEF Replayed, ClockOK, MemoryOK, StorageOK, FlushOK, ImportOK, HistoryOK, ConfirmOK,
           MergingRow, memory, former
<1> QED
  BY <1>1, <1>2, <1>3, <1>4

LEMMA WorldTyped ==
    ASSUME Typed, Midnight \/ Restart \/ \E d \in Days : WindowPasses(d)
    PROVE  Typed'
<1> USE DEF Typed
<1>1. CASE Midnight
  BY <1>1, PointsAssumption
     DEF Midnight, Days, ClockOK, MemoryOK, StorageOK, FlushOK, ImportOK, HistoryOK,
         ConfirmOK, MergingRow, memory, storage, former, history
<1>2. CASE Restart
  <2>1. /\ MemoryOK' /\ flush' \in FlushSet /\ flush'.at = "idle"
        /\ merge' \in [Procs -> MergeSet]
    BY <1>2, EmptyDays DEF Restart, MemoryOK, FlushIdle
  <2>2. evicted' \subseteq Points /\ alarm' \in 0 .. NoAlarm
    BY <1>2, AllType, PointsAssumption
       DEF Restart, MemoryOK, HistoryOK, ClockOK, Soon, NoAlarm
  <2>3. ImportOK'
    BY <1>2 DEF Restart, ImportOK, ImportSet
  <2> QED
    BY <1>2, <2>1, <2>2, <2>3
       DEF Restart, ClockOK, StorageOK, FlushOK, HistoryOK, ConfirmOK, MergingRow, storage
<1>3. ASSUME NEW d \in Days, WindowPasses(d) PROVE Typed'
  <2>1. rows' \in [Days -> RowSet]
    BY <1>3 DEF WindowPasses, StorageOK, RowSet
  <2>2. ConfirmOK'
    BY <1>3, EmptyDays DEF WindowPasses, ConfirmOK, MergingRow, StorageOK, FlushOK
  <2> QED
    BY <1>3, <2>1, <2>2
       DEF WindowPasses, ClockOK, MemoryOK, StorageOK, FlushOK, ImportOK, HistoryOK, memory,
           former, history
<1> QED
  BY <1>1, <1>2, <1>3

LEMMA NextTyped == Typed /\ [Next]_vars => Typed'
<1> SUFFICES ASSUME Typed, [Next]_vars PROVE Typed'
  OBVIOUS
<1>1. CASE AlarmStep
  <2>1. Alarm \in Procs
    BY DEF Procs
  <2> QED
    BY <1>1, <2>1, MemTyped, DayReadTyped, DayUnconfirmedTyped, DayEndsTyped, ReplayTyped,
       MergeStepTyped
       DEF AlarmStep
<1>2. CASE Request
  <2>1. Replayers \subseteq Procs
    BY DEF Procs
  <2> QED
    BY <1>2, <2>1, AppendTyped, ImportTyped, MergeStepTyped, ReplayTyped DEF Request
<1>3. CASE Midnight \/ Restart \/ \E d \in Days : WindowPasses(d)
  BY <1>3, WorldTyped
<1>4. CASE UNCHANGED vars
  BY <1>4
     DEF vars, memory, storage, former, history, Typed, ClockOK, MemoryOK, StorageOK,
         FlushOK, ImportOK, HistoryOK, ConfirmOK, MergingRow
<1> QED
  BY <1>1, <1>2, <1>3, <1>4 DEF Next

\* Points stay points, attempts and failed confirmations stay below their
\* limits, and an alarm is at a day that exists (probe-history-buffer.js).
THEOREM TypeCorrect == Spec => []TypeOK
<1>1. Typed => TypeOK
  <2> SUFFICES ASSUME Typed PROVE TypeOK
    OBVIOUS
  <2>1. ASSUME NEW d \in Days
        PROVE  /\ mem[d] \subseteq Points /\ dead[d] \subseteq Points
               /\ archive[d] \subseteq Points
               /\ memTries[d] < MaxAttempts /\ tries[d] < MaxAttempts
    BY LimitsAssumption DEF Typed, MemoryOK, StorageOK
  <2>2. ASSUME NEW d \in Days
        PROVE  /\ rows[d].points \subseteq Points
               /\ rows[d].archived \in {"no", "fresh", "due"}
               /\ rows[d].fails < MaxConfirmFails
    BY LimitsAssumption DEF Typed, StorageOK, RowSet
  <2>3. flush.budget \in 0 .. ArchiveBudget /\ Excused \cup accepted \cup stored \subseteq Points
    BY DEF Typed, FlushOK, FlushSet, HistoryOK, Excused
  <2> QED
    BY <2>1, <2>2, <2>3 DEF Typed, ClockOK, TypeOK
<1> QED
  BY <1>1, InitTyped, NextTyped, PTL DEF Spec

-----------------------------------------------------------------------------
(* Nothing is forgotten.                                                   *)

\* A merge that wrote its object has its points there, unless another merge
\* that did not know of them wrote after it.
MergedOK == \A p \in Procs : merge[p].at \in {"check", "done"} =>
                merge[p].points \subseteq archive[merge[p].day] \cup raced
\* So has the row of a day that was archived.
ArchivedOK == \A d \in Days : rows[d].archived # "no" =>
                  rows[d].points \subseteq archive[d] \cup raced
\* The row does not change while the alarm merges it.
RowMergedOK == MergingRow => merge[Alarm].points = rows[merge[Alarm].day].points
\* What flushMemDays took is being merged, or it is in its place already.
Placed(d) == rows[d].points \cup dead[d] \cup archive[d] \cup flush.failed[d] \cup Excused
TakenOK == flush.at = "mem" => \A d \in Days :
    IF merge[Alarm].at # "idle" /\ merge[Alarm].day = d
    THEN flush.took[d] = merge[Alarm].points
    ELSE flush.took[d] \subseteq Placed(d)
\* Between two alarms the alarm merges nothing.
RestingOK == flush.at = "idle" => merge[Alarm].at = "idle"
Inv == MergedOK /\ ArchivedOK /\ RowMergedOK /\ TakenOK /\ RestingOK

\* A step keeps what can be read, but for what it excuses.
PlacesOf(d) == mem[d] \cup rows[d].points \cup dead[d] \cup archive[d]
Kept == /\ Excused \subseteq Excused'
        /\ \A d \in Days : PlacesOf(d) \subseteq PlacesOf(d)' \cup Excused'

LEMMA KeptForgetsNothing ==
    ASSUME Typed, NothingForgotten, Kept, accepted' \subseteq accepted \cup Readable'
    PROVE  NothingForgotten'
  BY DEF NothingForgotten, Readable, Kept, PlacesOf

LEMMA AlarmIsProc == Alarm \in Procs /\ Replayers \subseteq Procs /\ Alarm \notin Replayers
  BY ProcsAssumption DEF Procs

LEMMA InitInv == Init => Inv /\ NothingForgotten
  BY AlarmIsProc
     DEF Init, Inv, MergedOK, ArchivedOK, RowMergedOK, TakenOK, RestingOK, NothingForgotten,
         MergeIdle, NoRow, FlushIdle, MergingRow

-----------------------------------------------------------------------------
(* The steps of a merge.                                                   *)

LEMMA MergePutKeeps ==
    ASSUME Typed, Inv, NEW p \in Procs, MergePut(p)
    PROVE  Inv' /\ Kept
<1>a. /\ \A q \in Procs \ {p} : merge'[q] = merge[q]
      /\ merge[p].at = "put" /\ merge'[p].at \in {"check", "failed"}
      /\ merge'[p].day = merge[p].day /\ merge'[p].points = merge[p].points
  BY DEF MergePut, Typed, FlushOK, MergeSet
<1>b. \A d \in Days : archive[d] \cup raced \subseteq archive'[d] \cup raced'
  BY DEF MergePut, MergedObject, Typed, StorageOK, FlushOK, MergeSet
<1>c. /\ merge'[p].at = "check" => merge[p].points \subseteq archive'[merge[p].day]
      /\ \A q \in Procs : merge[q].day \in Days
  BY <1>a DEF MergePut, MergedObject, Typed, StorageOK, FlushOK, MergeSet
<1>d. UNCHANGED <<rows, dead, mem, flush, overwritten, evicted>> /\ raced \subseteq raced'
  BY DEF MergePut, memory, storage
<1>1. MergedOK'
  BY <1>a, <1>b, <1>c DEF Inv, MergedOK
<1>2. ArchivedOK'
  BY <1>b, <1>d DEF Inv, ArchivedOK
<1>3. RowMergedOK'
  BY <1>a, <1>d, AlarmIsProc DEF Inv, RowMergedOK, MergingRow
<1>4. TakenOK'
  BY <1>a, <1>b, <1>d, AlarmIsProc DEF Inv, TakenOK, Placed, Excused
<1>5. RestingOK'
  BY <1>a, <1>d, AlarmIsProc DEF Inv, RestingOK
<1>6. Kept
  BY <1>b, <1>d DEF Kept, PlacesOf, Excused
<1> QED
  BY <1>1, <1>2, <1>3, <1>4, <1>5, <1>6 DEF Inv

LEMMA MergeCheckKeeps ==
    ASSUME Typed, Inv, NEW p \in Procs, MergeCheck(p)
    PROVE  Inv' /\ Kept
<1>a. /\ \A q \in Procs \ {p} : merge'[q] = merge[q]
      /\ merge[p].at = "check" /\ merge'[p].at \in {"done", "failed"}
      /\ merge'[p].day = merge[p].day /\ merge'[p].points = merge[p].points
  BY DEF MergeCheck, Typed, FlushOK, MergeSet
<1>b. UNCHANGED <<rows, dead, archive, flush, raced, overwritten, evicted>>
  BY DEF MergeCheck, storage, history
<1>1. MergedOK'
  BY <1>a, <1>b DEF Inv, MergedOK
<1>2. RowMergedOK'
  BY <1>a, <1>b, AlarmIsProc DEF Inv, RowMergedOK, MergingRow
<1>3. TakenOK'
  BY <1>a, <1>b, AlarmIsProc DEF Inv, TakenOK, Placed, Excused
<1>4. RestingOK'
  BY <1>a, <1>b, AlarmIsProc DEF Inv, RestingOK
<1>5. ArchivedOK' /\ Kept
  BY
     DEF Inv, ArchivedOK, Kept, PlacesOf, Excused, MergeCheck, memory, storage, history,
         former
<1> QED
  BY <1>1, <1>2, <1>3, <1>4, <1>5 DEF Inv

-----------------------------------------------------------------------------
(* The alarm takes the days in memory ...                                  *)

LEMMA AlarmFiresKeeps ==
    ASSUME Typed, Inv, AlarmFires
    PROVE  Inv' /\ Kept
<1>a. /\ merge[Alarm].at = "idle" /\ UNCHANGED merge /\ flush'.at = "mem"
      /\ \A d \in Days : flush'.took[d] = {}
  BY DEF AlarmFires, FlushIdle, Nothing, Inv, RestingOK
<1>1. TakenOK'
  BY <1>a DEF TakenOK, Placed
<1>2. RestingOK'
  BY <1>a DEF RestingOK
<1>3. MergedOK' /\ ArchivedOK' /\ RowMergedOK' /\ Kept
  BY
     DEF Inv, MergedOK, ArchivedOK, RowMergedOK, MergingRow, Kept, PlacesOf, Excused,
         AlarmFires, memory, storage, history, former
<1> QED
  BY <1>1, <1>2, <1>3 DEF Inv

LEMMA MemCurrentKeeps ==
    ASSUME Typed, Inv, NEW d \in Days, MemCurrent(d)
    PROVE  Inv' /\ Kept
<1>1. ArchivedOK'
  BY DEF Inv, ArchivedOK, MemCurrent, NoRow, Typed, StorageOK
<1>2. TakenOK'
  BY
     DEF Inv, TakenOK, Placed, Excused, MemCurrent, MemDay, Took, NoRow, Typed, StorageOK,
         FlushOK, FlushSet
<1>3. RestingOK'
  BY DEF MemCurrent, MemDay, RestingOK
<1>4. Kept
  BY DEF Kept, PlacesOf, Excused, MemCurrent, NoRow, Typed, StorageOK
<1>5. MergedOK' /\ RowMergedOK'
  BY
     DEF Inv, MergedOK, RowMergedOK, MergingRow, MemCurrent, former, MemDay, Took, Typed,
         FlushOK, FlushSet
<1> QED
  BY <1>1, <1>2, <1>3, <1>4, <1>5 DEF Inv

LEMMA MemPastKeeps ==
    ASSUME Typed, Inv, NEW d \in Days, MemPast(d)
    PROVE  Inv' /\ Kept
<1>a. /\ \A q \in Procs \ {Alarm} : merge'[q] = merge[q]
      /\ merge'[Alarm].at \in {"put", "failed"} /\ merge'[Alarm].day = d
      /\ merge'[Alarm].points = mem[d] /\ merge[Alarm].at = "idle"
  <2>1. mem[d] \in SUBSET Points
    BY DEF Typed, MemoryOK, StorageOK, RowSet
  <2> QED
    BY <2>1, AlarmIsProc, StartMergeType DEF MemPast, Typed, StorageOK
<1>b. /\ flush.at = "mem" /\ flush'.at = "mem" /\ flush'.took[d] = mem[d]
      /\ flush'.failed = flush.failed
      /\ \A e \in Days \ {d} : flush'.took[e] = flush.took[e]
  BY DEF MemPast, MemDay, Took, Typed, FlushOK, FlushSet
<1>1. MergedOK'
  BY <1>a DEF Inv, MergedOK, MemPast, storage, history
<1>2. RowMergedOK'
  BY <1>b DEF RowMergedOK, MergingRow
<1>3. TakenOK'
  BY <1>a, <1>b DEF Inv, TakenOK, Placed, Excused, MemPast, storage, history
<1>4. RestingOK'
  BY <1>b DEF RestingOK
<1>5. ArchivedOK' /\ Kept
  BY DEF Inv, ArchivedOK, Kept, PlacesOf, Excused, MemPast, memory, storage, history, former
<1> QED
  BY <1>1, <1>2, <1>3, <1>4, <1>5 DEF Inv

LEMMA MemArchivedKeeps ==
    ASSUME Typed, Inv, MemArchived
    PROVE  Inv' /\ Kept
<1>a. /\ \A q \in Procs \ {Alarm} : merge'[q] = merge[q]
      /\ merge'[Alarm].at = "idle" /\ merge[Alarm].at = "done"
      /\ merge[Alarm].day \in Days
  BY AlarmIsProc DEF MemArchived, Merged, MergeOver, MergeIdle, Typed, FlushOK, MergeSet
<1>1. MergedOK'
  BY <1>a DEF Inv, MergedOK, MemArchived
<1>2. ArchivedOK'
  BY <1>a, AlarmIsProc DEF Inv, ArchivedOK, MergedOK, MemArchived, MemRow, Typed, StorageOK
<1>3. RowMergedOK'
  BY <1>a DEF RowMergedOK, MergingRow
<1>4. TakenOK'
  BY <1>a DEF Inv, TakenOK, Placed, Excused, MemArchived, MemRow, Typed, StorageOK
<1>5. RestingOK'
  BY <1>a DEF RestingOK
<1>6. Kept
  BY <1>a DEF Kept, PlacesOf, Excused, MemArchived, MemRow, Typed, StorageOK
<1> QED
  BY <1>1, <1>2, <1>3, <1>4, <1>5, <1>6 DEF Inv

LEMMA MemFailedKeeps ==
    ASSUME Typed, Inv, MemFailed
    PROVE  Inv' /\ Kept
<1>a. /\ \A q \in Procs \ {Alarm} : merge'[q] = merge[q]
      /\ merge'[Alarm].at = "idle" /\ merge[Alarm].at = "failed"
      /\ merge[Alarm].day \in Days
  BY AlarmIsProc DEF MemFailed, Merged, MergeOver, MergeIdle, Typed, FlushOK, MergeSet
<1>1. MergedOK'
  BY <1>a DEF Inv, MergedOK, MemFailed
<1>2. ArchivedOK'
  BY DEF Inv, ArchivedOK, MemFailed
<1>3. RowMergedOK'
  BY <1>a DEF RowMergedOK, MergingRow
<1>4. TakenOK'
  <2>0. PICK d \in Days : d = merge[Alarm].day
    BY <1>a
  <2>1. flush.at = "mem" /\ flush'.took = flush.took
    BY DEF MemFailed, Typed, FlushOK, FlushSet
  <2>2. flush.took[d] = merge[Alarm].points
    BY <1>a, <2>0, <2>1 DEF Inv, TakenOK
  <2>3. UNCHANGED <<rows, archive, raced, overwritten, evicted>>
    BY DEF MemFailed
  <2>4. /\ dead \in [Days -> SUBSET Points] /\ flush.failed \in [Days -> SUBSET Points]
        /\ flush \in FlushSet
    BY DEF Typed, StorageOK, FlushOK, FlushSet
  <2>5. \/ /\ flush' = flush
           /\ dead' = [dead EXCEPT ![d] = @ \cup merge[Alarm].points]
        \/ /\ dead' = dead
           /\ flush' = [flush EXCEPT !.failed[d] = merge[Alarm].points]
    BY <2>0 DEF MemFailed, WriteDead
  <2>6. /\ \A e \in Days \ {d} : dead'[e] = dead[e] /\ flush'.failed[e] = flush.failed[e]
        /\ merge[Alarm].points \subseteq dead'[d] \cup flush'.failed[d]
    BY <2>4, <2>5 DEF FlushSet
  <2>7. /\ \A e \in Days \ {d} : Placed(e)' = Placed(e)
        /\ merge[Alarm].points \subseteq Placed(d)'
    BY <2>3, <2>6 DEF Placed, Excused
  <2> QED
    BY <1>a, <2>0, <2>1, <2>2, <2>7 DEF Inv, TakenOK
<1>5. RestingOK'
  BY <1>a DEF RestingOK
<1>6. Kept
  BY <1>a DEF Kept, PlacesOf, Excused, MemFailed, WriteDead, Typed, StorageOK
<1> QED
  BY <1>1, <1>2, <1>3, <1>4, <1>5, <1>6 DEF Inv

LEMMA MemEndsKeeps ==
    ASSUME Typed, Inv, MemEnds
    PROVE  Inv' /\ Kept
<1>1. RowMergedOK'
  BY DEF RowMergedOK, MergingRow, MemEnds
<1>2. TakenOK'
  BY DEF TakenOK, MemEnds, Typed, FlushOK, FlushSet
<1>3. RestingOK'
  BY DEF RestingOK, MemEnds
<1>4. Kept
  BY DEF Kept, PlacesOf, Excused, Inv, TakenOK, Placed, MemEnds, storage
<1>5. MergedOK' /\ ArchivedOK'
  BY DEF Inv, MergedOK, ArchivedOK, MemEnds, storage, former
<1> QED
  BY <1>1, <1>2, <1>3, <1>4, <1>5 DEF Inv

-----------------------------------------------------------------------------
(* ... then the rows of past days ...                                      *)

LEMMA DayWaitsKeeps ==
    ASSUME Typed, Inv, NEW d \in Days, DayWaits(d)
    PROVE  Inv' /\ Kept
<1>1. MergedOK' /\ ArchivedOK' /\ RowMergedOK' /\ TakenOK' /\ RestingOK' /\ Kept
  BY
     DEF Inv, MergedOK, ArchivedOK, RowMergedOK, MergingRow, TakenOK, Placed, Excused,
         RestingOK, Kept, PlacesOf, DayWaits, memory, storage, history, former, NextDay,
         Handled, Typed, FlushOK, FlushSet
<1> QED
  BY <1>1 DEF Inv

LEMMA DayArchiveKeeps ==
    ASSUME Typed, Inv, NEW d \in Days, DayArchive(d)
    PROVE  Inv' /\ Kept
<1>a. /\ \A q \in Procs \ {Alarm} : merge'[q] = merge[q]
      /\ merge'[Alarm].at \in {"put", "failed"} /\ merge'[Alarm].day = d
      /\ merge'[Alarm].points = rows[d].points /\ merge[Alarm].at = "idle"
  <2>1. rows[d].points \in SUBSET Points
    BY DEF Typed, MemoryOK, StorageOK, RowSet
  <2> QED
    BY <2>1, AlarmIsProc, StartMergeType DEF DayArchive, Typed, StorageOK
<1>b. flush'.at = "days"
  BY DEF DayArchive, NextDay, Spent, Typed, FlushOK, FlushSet
<1>1. MergedOK'
  BY <1>a DEF Inv, MergedOK, DayArchive, storage, history
<1>2. RowMergedOK'
  BY <1>a DEF RowMergedOK, DayArchive, storage
<1>3. TakenOK'
  BY <1>b DEF TakenOK
<1>4. RestingOK'
  BY <1>b DEF RestingOK
<1>5. ArchivedOK' /\ Kept
  BY
     DEF Inv, ArchivedOK, Kept, PlacesOf, Excused, DayArchive, memory, storage, history,
         former
<1> QED
  BY <1>1, <1>2, <1>3, <1>4, <1>5 DEF Inv

LEMMA DayConfirmedKeeps ==
    ASSUME Typed, Inv, NEW d \in Days, DayConfirmed(d)
    PROVE  Inv' /\ Kept
<1>b. flush'.at = "days"
  BY DEF DayConfirmed, NextDay, Spent, Typed, FlushOK, FlushSet
<1>1. ArchivedOK'
  BY DEF Inv, ArchivedOK, DayConfirmed, NoRow, history, Typed, StorageOK
<1>2. RowMergedOK'
  BY DEF RowMergedOK, MergingRow, DayConfirmed, NextDay
<1>3. TakenOK'
  BY <1>b DEF TakenOK
<1>4. RestingOK'
  BY <1>b DEF RestingOK
<1>5. Kept
  <2>1. rows[d].points \subseteq archive[d] \cup raced
    BY DEF Inv, ArchivedOK, DayConfirmed
  <2>2. rows' = rows \/ rows' = [rows EXCEPT ![d] = NoRow]
    BY DEF DayConfirmed
  <2>3. UNCHANGED <<mem, dead, archive, raced, overwritten, evicted>>
    BY DEF DayConfirmed, history
  <2> QED
    BY <2>1, <2>2, <2>3 DEF Kept, PlacesOf, Excused, NoRow, Typed, StorageOK
<1>6. MergedOK'
  BY <1>b DEF Inv, MergedOK, DayConfirmed, former, history
<1> QED
  BY <1>1, <1>2, <1>3, <1>4, <1>5, <1>6 DEF Inv

LEMMA DayUnconfirmedKeeps ==
    ASSUME Typed, Inv, NEW d \in Days, DayUnconfirmed(d)
    PROVE  Inv' /\ Kept
<1>b. merge[Alarm].at = "idle" /\ flush'.at = "days"
  BY DEF DayUnconfirmed, NextDay, Spent, Typed, FlushOK, FlushSet
<1>c. \/ merge' = merge
      \/ /\ merge'[Alarm].at = "put" /\ merge'[Alarm].day = d
         /\ merge'[Alarm].points = rows[d].points /\ rows' = rows
         /\ \A q \in Procs \ {Alarm} : merge'[q] = merge[q]
  BY AlarmIsProc DEF DayUnconfirmed, Typed, FlushOK
<1>d. \/ rows' = rows /\ dead' = dead
      \/ /\ rows' = [rows EXCEPT ![d] = NoRow]
         /\ dead' = [dead EXCEPT ![d] = @ \cup rows[d].points]
  BY DEF DayUnconfirmed, WriteDead
<1>1. MergedOK'
  BY <1>c, AlarmIsProc DEF Inv, MergedOK, DayUnconfirmed
<1>2. ArchivedOK'
  BY <1>d DEF Inv, ArchivedOK, DayUnconfirmed, NoRow, Typed, StorageOK
<1>3. RowMergedOK'
  BY <1>b, <1>c, <1>d DEF RowMergedOK, MergingRow
<1>4. TakenOK'
  BY <1>b DEF TakenOK
<1>5. RestingOK'
  BY <1>b DEF RestingOK
<1>6. Kept
  BY <1>d DEF Kept, PlacesOf, Excused, DayUnconfirmed, NoRow, Typed, StorageOK
<1> QED
  BY <1>1, <1>2, <1>3, <1>4, <1>5, <1>6 DEF Inv

LEMMA DayMergedKeeps ==
    ASSUME Typed, Inv, DayMerged
    PROVE  Inv' /\ Kept
<1>a. /\ \A q \in Procs \ {Alarm} : merge'[q] = merge[q]
      /\ merge'[Alarm].at = "idle" /\ merge[Alarm].at = "done"
      /\ merge[Alarm].day \in Days
  BY AlarmIsProc DEF DayMerged, Merged, MergeOver, MergeIdle, Typed, FlushOK, MergeSet
<1>b. flush.at = "days" /\ flush'.at = "days"
  BY DEF DayMerged, Handled, Typed, FlushOK, FlushSet
<1>1. MergedOK'
  BY <1>a DEF Inv, MergedOK, DayMerged, history
<1>c. /\ \A d \in Days : rows'[d].points = rows[d].points
      /\ \A d \in Days \ {merge[Alarm].day} : rows'[d].archived = rows[d].archived
      /\ archive' = archive /\ raced' = raced
  BY <1>a DEF DayMerged, history, Typed, StorageOK, RowSet
<1>2. ArchivedOK'
  <2>1. rows[merge[Alarm].day].points \subseteq archive[merge[Alarm].day] \cup raced
    BY <1>a, <1>b, AlarmIsProc DEF Inv, MergedOK, RowMergedOK, MergingRow
  <2> QED
    BY <1>c, <2>1 DEF Inv, ArchivedOK
<1>3. RowMergedOK'
  BY <1>a DEF RowMergedOK, MergingRow
<1>4. TakenOK'
  BY <1>b DEF TakenOK
<1>5. RestingOK'
  BY <1>a DEF RestingOK
<1>6. Kept
  BY <1>a DEF Kept, PlacesOf, Excused, DayMerged, memory, history, Typed, StorageOK, RowSet
<1> QED
  BY <1>1, <1>2, <1>3, <1>4, <1>5, <1>6 DEF Inv

LEMMA DayFailedKeeps ==
    ASSUME Typed, Inv, DayFailed
    PROVE  Inv' /\ Kept
<1>a. /\ \A q \in Procs \ {Alarm} : merge'[q] = merge[q]
      /\ merge'[Alarm].at = "idle" /\ merge[Alarm].at = "failed"
      /\ merge[Alarm].day \in Days
  BY AlarmIsProc DEF DayFailed, Merged, MergeOver, MergeIdle, Typed, FlushOK, MergeSet
<1>b. flush'.at = "days"
  BY DEF DayFailed, Handled, Typed, FlushOK, FlushSet
<1>c. LET d == merge[Alarm].day
      IN  \/ rows' = rows /\ dead' = dead
          \/ /\ rows' = [rows EXCEPT ![d] = NoRow]
             /\ dead' = [dead EXCEPT ![d] = @ \cup rows[d].points]
  BY DEF DayFailed, WriteDead
<1>1. MergedOK'
  BY <1>a DEF Inv, MergedOK, DayFailed
<1>2. ArchivedOK'
  BY <1>a, <1>c DEF Inv, ArchivedOK, DayFailed, NoRow, Typed, StorageOK
<1>3. RowMergedOK'
  BY <1>a DEF RowMergedOK, MergingRow
<1>4. TakenOK'
  BY <1>b DEF TakenOK
<1>5. RestingOK'
  BY <1>a DEF RestingOK
<1>6. Kept
  BY <1>a, <1>c DEF Kept, PlacesOf, Excused, DayFailed, NoRow, Typed, StorageOK
<1> QED
  BY <1>1, <1>2, <1>3, <1>4, <1>5, <1>6 DEF Inv

-----------------------------------------------------------------------------
(* ... and the dead letters, as the administrator does.                    *)

LEMMA DaysEndKeeps ==
    ASSUME Typed, Inv, DaysEnd
    PROVE  Inv' /\ Kept
<1>1. MergedOK' /\ ArchivedOK' /\ RowMergedOK' /\ TakenOK' /\ RestingOK' /\ Kept
  BY
     DEF Inv, MergedOK, ArchivedOK, RowMergedOK, MergingRow, TakenOK, Placed, Excused,
         RestingOK, Kept, PlacesOf, DaysEnd, memory, storage, history, former, Typed,
         FlushOK, FlushSet
<1> QED
  BY <1>1 DEF Inv

LEMMA AlarmReplaysKeeps ==
    ASSUME Typed, Inv, NEW d \in Days, AlarmReplays(d)
    PROVE  Inv' /\ Kept
<1>a. /\ \A q \in Procs \ {Alarm} : merge'[q] = merge[q]
      /\ merge'[Alarm].at \in {"put", "failed"} /\ merge'[Alarm].day = d
      /\ merge'[Alarm].points = dead[d] /\ merge[Alarm].at = "idle"
  <2>1. dead[d] \in SUBSET Points
    BY DEF Typed, MemoryOK, StorageOK, RowSet
  <2> QED
    BY <2>1, AlarmIsProc, StartMergeType DEF AlarmReplays, Typed, StorageOK
<1>b. flush'.at = "dead"
  BY DEF AlarmReplays, Typed, FlushOK, FlushSet
<1>1. MergedOK'
  BY <1>a DEF Inv, MergedOK, AlarmReplays, storage, history
<1>2. RowMergedOK'
  BY <1>b DEF RowMergedOK, MergingRow
<1>3. TakenOK'
  BY <1>b DEF TakenOK
<1>4. RestingOK'
  BY <1>b DEF RestingOK
<1>5. ArchivedOK' /\ Kept
  BY
     DEF Inv, ArchivedOK, Kept, PlacesOf, Excused, AlarmReplays, memory, storage, history,
         former
<1> QED
  BY <1>1, <1>2, <1>3, <1>4, <1>5 DEF Inv

LEMMA AdminReplaysKeeps ==
    ASSUME Typed, Inv, NEW r \in Replayers, NEW d \in Days, AdminReplays(r, d)
    PROVE  Inv' /\ Kept
<1>a. /\ \A q \in Procs \ {r} : merge'[q] = merge[q]
      /\ merge'[r].at \in {"put", "failed"} /\ merge'[r].day = d
      /\ merge'[r].points = dead[d] /\ merge[r].at = "idle"
  <2>1. dead[d] \in SUBSET Points
    BY DEF Typed, MemoryOK, StorageOK, RowSet
  <2> QED
    BY <2>1, AlarmIsProc, StartMergeType DEF AdminReplays, Typed, StorageOK
<1>b. merge'[Alarm] = merge[Alarm] /\ UNCHANGED <<flush, storage, archive, history>>
  BY <1>a, AlarmIsProc DEF AdminReplays
<1>1. MergedOK'
  BY <1>a DEF Inv, MergedOK, AdminReplays, storage, history
<1>2. RowMergedOK'
  BY <1>b DEF RowMergedOK, MergingRow, Inv, storage
<1>3. TakenOK'
  BY <1>b DEF TakenOK, Inv, Placed, Excused, storage, history
<1>4. RestingOK'
  BY <1>b DEF RestingOK, Inv
<1>5. ArchivedOK' /\ Kept
  BY
     DEF Inv, ArchivedOK, Kept, PlacesOf, Excused, AdminReplays, memory, storage, history,
         former
<1> QED
  BY <1>1, <1>2, <1>3, <1>4, <1>5 DEF Inv

LEMMA ReplayedKeeps ==
    ASSUME Typed, Inv, NEW p \in Procs, Replayed(p)
    PROVE  Inv' /\ Kept
<1>a. /\ \A q \in Procs \ {p} : merge'[q] = merge[q]
      /\ merge'[p].at = "idle" /\ (p = Alarm => flush.at = "dead")
  BY DEF Replayed, Merged, MergeOver, MergeIdle, Typed, FlushOK
<1>b. /\ raced \subseteq raced'
      /\ \A d \in Days : dead[d] \subseteq dead'[d] \cup archive[d] \cup raced'
  BY DEF Replayed, Merged, Inv, MergedOK, Typed, StorageOK, FlushOK, MergeSet
<1>c. \A d \in Days : Placed(d) \subseteq Placed(d)'
  BY <1>b DEF Placed, Excused, Replayed
<1>1. MergedOK'
  BY <1>a, <1>b DEF Inv, MergedOK, Replayed
<1>2. ArchivedOK'
  BY <1>b DEF Inv, ArchivedOK, Replayed
<1>3. RowMergedOK'
  BY <1>a, AlarmIsProc DEF Inv, RowMergedOK, MergingRow, Replayed
<1>4. TakenOK'
  BY <1>a, <1>c, AlarmIsProc DEF Inv, TakenOK, Replayed
<1>5. RestingOK'
  BY <1>a, AlarmIsProc DEF Inv, RestingOK, Replayed
<1>6. Kept
  BY <1>b DEF Kept, PlacesOf, Excused, Replayed, memory
<1> QED
  BY <1>1, <1>2, <1>3, <1>4, <1>5, <1>6 DEF Inv

LEMMA AlarmEndsKeeps ==
    ASSUME Typed, Inv, AlarmEnds
    PROVE  Inv' /\ Kept
<1>1. MergedOK' /\ ArchivedOK' /\ RowMergedOK' /\ TakenOK' /\ RestingOK' /\ Kept
  BY
     DEF Inv, MergedOK, ArchivedOK, RowMergedOK, MergingRow, TakenOK, Placed, Excused,
         RestingOK, Kept, PlacesOf, AlarmEnds, memory, storage, history, former, FlushIdle
<1> QED
  BY <1>1 DEF Inv

-----------------------------------------------------------------------------
(* What is not a step of the alarm.                                        *)

LEMMA WindowPassesKeeps ==
    ASSUME Typed, Inv, NEW d \in Days, WindowPasses(d)
    PROVE  Inv' /\ Kept
<1>a. /\ \A e \in Days : rows'[e].points = rows[e].points
      /\ \A e \in Days : rows'[e].archived # "no" => rows[e].archived # "no"
  BY DEF WindowPasses, Typed, StorageOK, RowSet
<1>1. MergedOK'
  BY DEF Inv, MergedOK, WindowPasses, history
<1>2. ArchivedOK'
  BY <1>a DEF Inv, ArchivedOK, WindowPasses, history
<1>3. RowMergedOK'
  BY <1>a, AlarmIsProc
     DEF Inv, RowMergedOK, MergingRow, WindowPasses, Typed, FlushOK, MergeSet
<1>4. TakenOK' /\ RestingOK' /\ Kept
  BY <1>a
     DEF Inv, TakenOK, Placed, Excused, RestingOK, Kept, PlacesOf, WindowPasses, memory,
         former, history
<1> QED
  BY <1>1, <1>2, <1>3, <1>4 DEF Inv

LEMMA MidnightKeeps ==
    ASSUME Typed, Inv, Midnight
    PROVE  Inv' /\ Kept
<1>1. MergedOK' /\ ArchivedOK' /\ RowMergedOK' /\ TakenOK' /\ RestingOK' /\ Kept
  BY
     DEF Inv, MergedOK, ArchivedOK, RowMergedOK, MergingRow, TakenOK, Placed, Excused,
         RestingOK, Kept, PlacesOf, Midnight, memory, storage, history, former
<1> QED
  BY <1>1 DEF Inv

LEMMA RestartKeeps ==
    ASSUME Typed, Inv, Restart
    PROVE  Inv' /\ Kept
<1>a. flush'.at = "idle" /\ \A p \in Procs : merge'[p].at = "idle"
  BY DEF Restart, MergeIdle, FlushIdle
<1>1. MergedOK'
  BY <1>a DEF MergedOK
<1>2. RowMergedOK'
  BY <1>a, AlarmIsProc DEF RowMergedOK, MergingRow
<1>3. TakenOK'
  BY <1>a DEF TakenOK
<1>4. RestingOK'
  BY <1>a, AlarmIsProc DEF RestingOK
<1>5. ArchivedOK' /\ Kept
  BY DEF Inv, ArchivedOK, Kept, PlacesOf, Excused, Restart, storage, All
<1> QED
  BY <1>1, <1>2, <1>3, <1>4, <1>5 DEF Inv

LEMMA AppendKeeps ==
    ASSUME Typed, Inv, NEW p \in Points, Append(p)
    PROVE  Inv' /\ Kept
<1>1. Kept
  BY DEF Kept, PlacesOf, Excused, Append, storage, Typed, MemoryOK
<1>2. MergedOK' /\ ArchivedOK' /\ RowMergedOK' /\ TakenOK' /\ RestingOK'
  BY
     DEF Inv, MergedOK, ArchivedOK, RowMergedOK, MergingRow, TakenOK, Placed, Excused,
         RestingOK, Append, storage, former
<1> QED
  BY <1>1, <1>2 DEF Inv

LEMMA ImportExportKeeps ==
    ASSUME Typed, Inv, NEW i \in Importers, ImportExport(i)
    PROVE  Inv' /\ Kept
<1>1. MergedOK' /\ ArchivedOK' /\ RowMergedOK' /\ TakenOK' /\ RestingOK' /\ Kept
  BY
     DEF Inv, MergedOK, ArchivedOK, RowMergedOK, MergingRow, TakenOK, Placed, Excused,
         RestingOK, Kept, PlacesOf, ImportExport, memory, storage, history
<1> QED
  BY <1>1 DEF Inv

LEMMA ImportDaysKeeps ==
    ASSUME Typed, Inv, NEW i \in Importers, ImportDays(i)
    PROVE  Inv' /\ Kept
<1>a. /\ raced \subseteq raced'
      /\ \A d \in Days : mem[d] \subseteq mem'[d] /\ dead[d] \subseteq dead'[d] \cup raced'
  <2> DEFINE letters == OfDay(import[i].points \cap LegacyDead)
  <2>1. raced' = raced \cup UNION {dead[d] \ letters[d] : d \in {e \in Days : letters[e] # {}}}
    BY DEF ImportDays
  <2>2. dead' = [d \in Days |-> IF letters[d] # {} THEN letters[d] ELSE dead[d]]
    BY DEF ImportDays
  <2> HIDE DEF letters
  <2>3. ASSUME NEW d \in Days PROVE dead[d] \subseteq dead'[d] \cup raced'
    <3>1. CASE letters[d] = {}
      BY <3>1, <2>2
    <3>2. CASE letters[d] # {}
      BY <3>2, <2>1, <2>2
    <3> QED
      BY <3>1, <3>2
  <2>4. \A d \in Days : mem[d] \subseteq mem'[d]
    BY DEF ImportDays
  <2> QED
    BY <2>1, <2>3, <2>4
<1>b. UNCHANGED <<rows, archive, flush, merge, overwritten, evicted>>
  BY DEF ImportDays
<1>c. Excused \subseteq Excused' /\ \A d \in Days : dead[d] \subseteq dead'[d] \cup Excused'
  BY <1>a, <1>b DEF Excused
<1>1. TakenOK'
  <2>1. ASSUME NEW d \in Days PROVE Placed(d) \subseteq Placed(d)'
    BY <1>b, <1>c DEF Placed
  <2> QED
    BY <1>b, <2>1 DEF Inv, TakenOK
<1>2. Kept
  <2>1. ASSUME NEW d \in Days PROVE PlacesOf(d) \subseteq PlacesOf(d)' \cup Excused'
    BY <1>a, <1>b, <1>c DEF PlacesOf
  <2> QED
    BY <1>c, <2>1 DEF Kept
<1>3. MergedOK' /\ ArchivedOK' /\ RowMergedOK' /\ RestingOK'
  BY DEF Inv, MergedOK, ArchivedOK, RowMergedOK, MergingRow, RestingOK, ImportDays, memory
<1> QED
  BY <1>1, <1>2, <1>3 DEF Inv

LEMMA ImportDeleteKeeps ==
    ASSUME Typed, Inv, NEW i \in Importers, ImportDelete(i)
    PROVE  Inv' /\ Kept
<1>1. MergedOK' /\ ArchivedOK' /\ RowMergedOK' /\ TakenOK' /\ RestingOK' /\ Kept
  BY
     DEF Inv, MergedOK, ArchivedOK, RowMergedOK, MergingRow, TakenOK, Placed, Excused,
         RestingOK, Kept, PlacesOf, ImportDelete, memory, storage, history
<1> QED
  BY <1>1 DEF Inv

-----------------------------------------------------------------------------
(* The theorems.                                                           *)

\* Only an append and an import accept points, and they are in memory, or in a
\* dead letter, afterwards.
LEMMA AcceptedIsReadable ==
    ASSUME Typed, [Next]_vars
    PROVE  accepted' \subseteq accepted \cup Readable'
<1>1. CASE UNCHANGED accepted
  BY <1>1
<1>2. ASSUME NEW p \in Points, Append(p) PROVE accepted' \subseteq accepted \cup Readable'
  <2>1. DayOf[p] \in Days /\ p \in mem'[DayOf[p]]
    BY <1>2, PointsAssumption DEF Append, Typed, MemoryOK
  <2> QED
    BY <1>2, <2>1 DEF Append, Readable
<1>3. ASSUME NEW i \in Importers, ImportDays(i)
      PROVE  accepted' \subseteq accepted \cup Readable'
  <2>1. accepted' = accepted \cup import[i].points
    BY <1>3 DEF ImportDays
  <2>2. ASSUME NEW p \in import[i].points PROVE p \in Readable'
    <3>1. p \in Points /\ p \in Legacy /\ DayOf[p] \in Days
      BY PointsAssumption DEF Typed, ImportOK, ImportSet, Legacy
    <3>2. CASE p \in LegacyPoints
      <4>1. p \in mem'[DayOf[p]]
        BY <1>3, <3>1, <3>2 DEF ImportDays, OfDay
      <4> QED
        BY <3>1, <4>1 DEF Readable
    <3>3. CASE p \in LegacyDead
      <4>1. p \in dead'[DayOf[p]]
        BY <1>3, <3>1, <3>3 DEF ImportDays, OfDay
      <4> QED
        BY <3>1, <4>1 DEF Readable
    <3> QED
      BY <3>1, <3>2, <3>3 DEF Legacy
  <2> QED
    BY <2>1, <2>2
<1>4. \/ UNCHANGED accepted
      \/ \E p \in Points : Append(p)
      \/ \E i \in Importers : ImportDays(i)
  <2> SUFFICES ASSUME ~ \E p \in Points : Append(p), ~ \E i \in Importers : ImportDays(i)
               PROVE  UNCHANGED accepted
    OBVIOUS
  <2>1. CASE AlarmStep
    BY <2>1
       DEF AlarmStep, AlarmFires, MemArchived, MemFailed, MemEnds, DayMerged, DayFailed,
           DaysEnd, AlarmEnds, MergePut, MergeCheck, Replayed, MemCurrent, MemPast,
           DayWaits, DayArchive, DayConfirmed, DayUnconfirmed, AlarmReplays, history
  <2>2. CASE Request
    BY <2>2
       DEF Request, ImportExport, ImportDelete, MergePut, MergeCheck, Replayed,
           AdminReplays, history
  <2>3. CASE Midnight \/ Restart \/ \E d \in Days : WindowPasses(d)
    BY <2>3 DEF Midnight, Restart, WindowPasses, history
  <2>4. CASE UNCHANGED vars
    BY <2>4 DEF vars, history
  <2> QED
    BY <2>1, <2>2, <2>3, <2>4 DEF Next
<1> QED
  BY <1>1, <1>2, <1>3, <1>4

LEMMA NextKeeps ==
    ASSUME Typed, Inv, [Next]_vars
    PROVE  Inv' /\ Kept
<1>1. CASE AlarmStep
  <2>1. \/ AlarmFires \/ MemArchived \/ MemFailed \/ MemEnds \/ DayMerged \/ DayFailed
        \/ DaysEnd \/ AlarmEnds
        => Inv' /\ Kept
    BY AlarmFiresKeeps, MemArchivedKeeps, MemFailedKeeps, MemEndsKeeps, DayMergedKeeps,
       DayFailedKeeps, DaysEndKeeps, AlarmEndsKeeps
  <2>2. \A d \in Days : MemCurrent(d) \/ MemPast(d) \/ DayWaits(d) \/ DayArchive(d)
                        \/ DayConfirmed(d) \/ DayUnconfirmed(d) \/ AlarmReplays(d)
        => Inv' /\ Kept
    BY MemCurrentKeeps, MemPastKeeps, DayWaitsKeeps, DayArchiveKeeps, DayConfirmedKeeps,
       DayUnconfirmedKeeps, AlarmReplaysKeeps
  <2>3. MergePut(Alarm) \/ MergeCheck(Alarm) \/ Replayed(Alarm) => Inv' /\ Kept
    BY AlarmIsProc, MergePutKeeps, MergeCheckKeeps, ReplayedKeeps
  <2> QED
    BY <1>1, <2>1, <2>2, <2>3 DEF AlarmStep
<1>2. CASE Request
  <2>1. \A r \in Replayers : MergePut(r) \/ MergeCheck(r) \/ Replayed(r) => Inv' /\ Kept
    BY AlarmIsProc, MergePutKeeps, MergeCheckKeeps, ReplayedKeeps
  <2>2. \A r \in Replayers, d \in Days : AdminReplays(r, d) => Inv' /\ Kept
    BY AdminReplaysKeeps
  <2>3. \A i \in Importers : ImportExport(i) \/ ImportDays(i) \/ ImportDelete(i) => Inv' /\ Kept
    BY ImportExportKeeps, ImportDaysKeeps, ImportDeleteKeeps
  <2>4. \A p \in Points : Append(p) => Inv' /\ Kept
    BY AppendKeeps
  <2> QED
    BY <1>2, <2>1, <2>2, <2>3, <2>4 DEF Request
<1>3. CASE Midnight \/ Restart \/ \E d \in Days : WindowPasses(d)
  BY <1>3, MidnightKeeps, RestartKeeps, WindowPassesKeeps
<1>4. CASE UNCHANGED vars
  BY <1>4
     DEF vars, memory, storage, history, Inv, MergedOK, ArchivedOK, RowMergedOK, MergingRow,
         TakenOK, Placed, Excused, RestingOK, Kept, PlacesOf
<1> QED
  BY <1>1, <1>2, <1>3, <1>4 DEF Next

LEMMA AlwaysInv == Spec => [](Typed /\ Inv)
<1>1. Typed /\ Inv /\ [Next]_vars => Typed' /\ Inv'
  BY NextTyped, NextKeeps
<1> QED
  BY <1>1, InitTyped, InitInv, PTL DEF Spec

\* Whatever R2 does and however the alarm, replays and the import interleave, an
\* accepted point is in memory, a row, a dead letter or the archive, or in one
\* of the three exceptions the code makes (flushMemDays, flushCompletedDays,
\* replayDeadLetter).
THEOREM PointsAreKept == Spec => []NothingForgotten
<1>1. Typed /\ Inv /\ NothingForgotten /\ [Next]_vars => NothingForgotten'
  BY NextKeeps, AcceptedIsReadable, KeptForgetsNothing
<1> QED
  BY <1>1, AlwaysInv, InitInv, PTL DEF Spec

\* The row of a day leaves storage only when its points are in the archive or
\* in a dead letter: the archive that was confirmed by its existence alone had
\* all of them (flushCompletedDays).
THEOREM RowsLeaveWhenSafe == Spec => DayLeavesWhenSafe
<1> DEFINE Leaves(d) == rows[d] # NoRow /\ rows'[d] = NoRow
           Safe(d) == rows[d].points \subseteq archive[d] \cup dead'[d] \cup Excused
<1>1. ASSUME Typed, Inv, [Next]_vars, NEW d \in Days, Leaves(d) PROVE Safe(d)
  <2>1. \/ \E e \in Days : \/ MemCurrent(e) \/ DayConfirmed(e) \/ DayUnconfirmed(e)
                           \/ WindowPasses(e)
        \/ MemArchived \/ DayMerged \/ DayFailed
    <3>0. rows' # rows
      BY <1>1
    <3>1. CASE AlarmStep
      BY <3>0, <3>1
         DEF AlarmStep, AlarmFires, MemFailed, MemEnds, DaysEnd, AlarmEnds, MergePut,
             MergeCheck, Replayed, MemPast, DayWaits, DayArchive, AlarmReplays, storage
    <3>2. CASE Request
      BY <3>0, <3>2
         DEF Request, Append, ImportExport, ImportDays, ImportDelete, MergePut, MergeCheck,
             Replayed, AdminReplays, storage
    <3>3. CASE Midnight \/ Restart \/ UNCHANGED vars
      BY <3>0, <3>3 DEF Midnight, Restart, vars, storage
    <3> QED
      BY <1>1, <3>1, <3>2, <3>3 DEF Next
  <2>2. ASSUME NEW e \in Days, MemCurrent(e) \/ WindowPasses(e) PROVE Safe(d)
    BY <1>1, <2>2 DEF MemCurrent, MemDay, WindowPasses, NoRow, Typed, StorageOK, RowSet
  <2>3. ASSUME NEW e \in Days, DayConfirmed(e) PROVE Safe(d)
    BY <1>1, <2>3 DEF DayConfirmed, Inv, ArchivedOK, Excused, Typed, StorageOK
  <2>4. ASSUME NEW e \in Days, DayUnconfirmed(e) PROVE Safe(d)
    BY <1>1, <2>4 DEF DayUnconfirmed, WriteDead, Typed, StorageOK
  <2>5. CASE MemArchived
    BY <1>1, <2>5 DEF MemArchived, MemRow, NoRow, Typed, StorageOK
  <2>6. CASE DayMerged
    BY <1>1, <2>6 DEF DayMerged, NoRow, Typed, StorageOK, RowSet
  <2>7. CASE DayFailed
    BY <1>1, <2>7 DEF DayFailed, WriteDead, Typed, StorageOK
  <2> QED
    BY <2>1, <2>2, <2>3, <2>4, <2>5, <2>6, <2>7
<1>2. Typed /\ Inv /\ [Next]_vars => [\A d \in Days : Leaves(d) => Safe(d)]_vars
  BY <1>1
<1> QED
  BY <1>2, AlwaysInv, PTL DEF Spec, DayLeavesWhenSafe
=============================================================================
