------------------------- MODULE TrafficAccounting -------------------------
(***************************************************************************)
(* Traffic accounting of one agent (worker/src/metrics.js): every report   *)
(* carries the counter of bytes since boot, persistAgentTraffic turns it   *)
(* into deltas, kept per billing period and per day in D1, and             *)
(* rebuildAgentTrafficPeriod recomputes a period when an administrator     *)
(* moves the reset day.                                                    *)
(*                                                                         *)
(* Reports are written by several requests at once: the alarm's drain of   *)
(* WebSocket reports and the HTTP fallback.  A step ends where the code    *)
(* awaits D1.  Received and sent bytes are counted alike and compared      *)
(* together, so one counter stands for both.  Time runs in ticks.          *)
(***************************************************************************)
EXTENDS Integers, Sequences, FiniteSets, FiniteSetsExt

CONSTANTS
    DayLength,      \* ticks in a day
    PeriodLength,   \* days in a billing period
    FlushInterval,  \* TRAFFIC_PERSIST_INTERVAL_SEC
    ResetDays,      \* reset days an administrator chooses from
    Writers,        \* requests that run persistAgentTraffic
    InOrder,        \* reports are taken as they come: none waits in memReports
                    \* or is queued again, no two overlap in the settings, nor
                    \* do two on both sides of a period's end overlap at all
    MaxClock, MaxCounter, MaxReports,  \* bounds
    MaxUpsets       \* bound: reboots and rebuilds together

ASSUME TrafficAssumption ==
    /\ DayLength \in Nat \ {0} /\ PeriodLength \in Nat \ {0} /\ FlushInterval \in Nat
    /\ ResetDays \subseteq 0..(PeriodLength - 1) /\ ResetDays # {} /\ InOrder \in BOOLEAN
    /\ {MaxClock, MaxCounter, MaxReports, MaxUpsets} \subseteq Nat

VARIABLES
    clock, resetDay,
    rows,      \* agent_traffic_monthly, by start of the period
    daily,     \* agent_traffic_daily, by day
    writers,   \* progress of every persistAgentTraffic, with the row it read
    rebuild,   \* progress of rebuildAgentTrafficPeriod
    counter,   \* bytes since the agent's machine booted
    pending,   \* reports received and not taken by a writer
    raws,      \* counters of received reports: agent_metrics_state is one of them
    \* History, read by the properties only:
    transferred, reports, reboots, rebuilds,
    base,      \* bytes transferred when the first report that was written was taken
    slipped    \* an update met the row's day and counter, but not its bytes

agent == <<counter, transferred, reboots>>
history == <<rebuilds, base, slipped>>
trafficVars == <<clock, resetDay, rows, daily, writers, rebuild, agent, pending, raws, reports, history>>

NoBaseline == -1   \* last_rx_bytes IS NULL
NoRow      == [month |-> -1, rx |-> 0, last |-> NoBaseline, day |-> -1, dayRx |-> 0, upd |-> 0]
NoReport   == [ts |-> 0, raw |-> 0, sent |-> 0]
NoTables   == [rows |-> <<>>, daily |-> <<>>]
NoWriter   == [at |-> "idle", report |-> NoReport, month |-> -1, row |-> NoRow, sum |-> 0]
NoRebuild  == [at |-> "idle", ts |-> 0, month |-> -1, latest |-> NoRow, metric |-> NoBaseline,
               sum |-> 0, seen |-> NoTables]

\* A table with a row put into it, in place of one of the same key.
With(f, key, v) == [k \in DOMAIN f \cup {key} |-> IF k = key THEN v ELSE f[k]]

Day(ts)  == ts \div DayLength
\* trafficPeriodFromResetDay: the period a day belongs to, named by its start.
Period(day, reset) == reset + PeriodLength * ((day - reset) \div PeriodLength)
InPeriod(day, start) == day \in start..(start + PeriodLength - 1)

Row(month) == IF month \in DOMAIN rows THEN rows[month] ELSE NoRow
\* ORDER BY updated_at DESC, month DESC LIMIT 1
NewerRow(a, b) == a.upd > b.upd \/ (a.upd = b.upd /\ a.month >= b.month)
Latest == IF DOMAIN rows = {} THEN NoRow
          ELSE CHOOSE r \in {rows[m] : m \in DOMAIN rows} : \A m \in DOMAIN rows : NewerRow(r, rows[m])

SumDays(days) == MapThenSumSet(LAMBDA d : daily[d], days \cap DOMAIN daily)
PeriodDays(start) == start..(start + PeriodLength - 1)

\* Operators named after a definition with a suffix are broken variants of it
\* that the properties must tell from the definition; nothing uses them.

\* rawTrafficDelta: without a baseline, or after a reboot, nothing is counted.
DeltaSinceBoot(raw, last) == IF last = NoBaseline \/ raw < last THEN raw ELSE raw - last
Delta(raw, last) == IF last = NoBaseline \/ raw < last THEN 0 ELSE raw - last

TrafficInit ==
    /\ clock = PeriodLength * DayLength
    /\ resetDay \in ResetDays
    /\ rows = <<>> /\ daily = <<>>
    /\ writers = [w \in Writers |-> NoWriter] /\ rebuild = NoRebuild
    /\ counter = 0 /\ pending = <<>> /\ raws = {}
    /\ transferred = 0 /\ reports = 0 /\ reboots = 0 /\ rebuilds = 0 /\ base = NoBaseline
    /\ slipped = FALSE

-----------------------------------------------------------------------------
(* The agent.                                                              *)

Transfer ==
    /\ counter < MaxCounter
    /\ counter' = counter + 1
    /\ transferred' = transferred + 1
    /\ UNCHANGED <<clock, resetDay, rows, daily, writers, rebuild, reboots, pending, raws, reports,
                   history>>

Reboot ==
    /\ reboots + rebuilds < MaxUpsets /\ counter > 0
    /\ reboots' = reboots + 1
    /\ counter' = 0
    /\ UNCHANGED <<clock, resetDay, rows, daily, writers, rebuild, transferred, pending, raws,
                   reports, history>>

TimePasses ==
    /\ clock < MaxClock
    /\ clock' = clock + 1
    /\ UNCHANGED <<resetDay, rows, daily, writers, rebuild, agent, pending, raws, reports, history>>

\* A report is received at its ts; its counter also becomes the agent's state
\* (sent is history, read by the properties only).
Report ==
    /\ reports < MaxReports
    /\ reports' = reports + 1
    /\ pending' = Append(pending, [ts |-> clock, raw |-> counter, sent |-> transferred])
    /\ raws' = raws \cup {counter}
    /\ UNCHANGED <<clock, resetDay, rows, daily, writers, rebuild, agent, history>>

-----------------------------------------------------------------------------
(* persistAgentTraffic.                                                    *)

Done(w) == writers' = [writers EXCEPT ![w] = NoWriter]
KeepsTables == UNCHANGED <<clock, resetDay, rows, daily, rebuild, agent, raws, reports, history>>

SamePeriod(a, b) == Period(Day(a.ts), resetDay) = Period(Day(b.ts), resetDay)

\* agentTrafficSettings.
Start(w) ==
    \E i \in 1..Len(pending) :
        /\ InOrder =>
              /\ i = 1
              /\ \A v \in Writers : writers[v].at \notin {"idle", "row"} => SamePeriod(writers[v].report, pending[1])
              /\ \A v \in Writers : writers[v].at # "row"
        /\ writers[w].at = "idle"
        /\ writers' = [writers EXCEPT ![w].at = "row", ![w].report = pending[i],
                                      ![w].month = Period(Day(pending[i].ts), resetDay)]
        /\ pending' = [j \in 1..(Len(pending) - 1) |-> IF j < i THEN pending[j] ELSE pending[j + 1]]
        /\ KeepsTables

\* Rows are written at most once per interval within a day.
Recent(row, report) ==
    /\ row.day = Day(report.ts)
    /\ row.last # NoBaseline /\ report.raw >= row.last
    /\ row.upd > report.ts - FlushInterval

\* The row of the report's own period, if there is one ...
ReadRow(w) ==
    LET p == writers[w] row == Row(p.month)
    IN  /\ p.at = "row"
        /\ IF row = NoRow THEN writers' = [writers EXCEPT ![w].at = "latest"]
           ELSE IF Recent(row, p.report) THEN Done(w)
           ELSE writers' = [writers EXCEPT ![w].at = "update", ![w].row = row]
        /\ UNCHANGED pending /\ KeepsTables

\* ... or else the latest row, and the days of the period that were finished.
ReadLatest(w) ==
    /\ writers[w].at = "latest"
    /\ writers' = [writers EXCEPT ![w].at = "daily", ![w].row = Latest]
    /\ UNCHANGED pending /\ KeepsTables

ReadDaily(w) ==
    /\ writers[w].at = "daily"
    /\ writers' = [writers EXCEPT ![w].at = "insert",
                                  ![w].sum = SumDays(PeriodDays(writers[w].month))]
    /\ UNCHANGED pending /\ KeepsTables

\* The compare-and-set of both statements of a batch.
MatchesMonth(row) == row.month \in DOMAIN rows
Matches(row) ==
    row.month \in DOMAIN rows /\ rows[row.month].day = row.day /\ rows[row.month].last = row.last

\* Day and counter are those read, although other reports were written since.
Slips(row) ==
    LET now == rows[row.month]
    IN  now.day = row.day /\ now.last = row.last /\ now.dayRx # row.dayRx

\* finalizeTrafficDayStatement: add a finished day to the days.
Finalize(row, today) ==
    daily' = IF row.day # today /\ row.dayRx > 0 /\ Matches(row)
             THEN With(daily, row.day, SumDays({row.day}) + row.dayRx) ELSE daily

\* The row a report leaves behind: its day's bytes start anew on another day.
DayBytesOfReport(row, today, delta) == delta
DayBytes(row, today, delta) == IF row.day = today THEN row.dayRx + delta ELSE delta

WriteUpdate(w) ==
    LET p == writers[w]  row == p.row  today == Day(p.report.ts)
        delta == Delta(p.report.raw, row.last)
    IN  /\ p.at = "update"
        /\ Done(w)
        /\ IF Matches(row)
           THEN /\ Finalize(row, today)
                /\ rows' = [rows EXCEPT ![row.month] =
                               [month |-> row.month, rx |-> @.rx + delta, last |-> p.report.raw,
                                day |-> today, dayRx |-> DayBytes(row, today, delta),
                                upd |-> p.report.ts]]
                /\ slipped' = (slipped \/ Slips(row))
           ELSE UNCHANGED <<rows, daily, slipped>>
        /\ UNCHANGED <<clock, resetDay, rebuild, agent, raws, pending, reports, rebuilds, base>>

\* The active day of the row before counts in the new period if it is in it.
CarriedAlways(latest, start) == latest.dayRx
Carried(latest, start) == IF InPeriod(latest.day, start) THEN latest.dayRx ELSE 0

\* A first report of a period inserts its row, unless another request did: the
\* unique constraint then undoes the batch.
WriteInsert(w) ==
    LET p == writers[w]  latest == p.row  today == Day(p.report.ts)
        delta == Delta(p.report.raw, latest.last)
        carried == Carried(latest, p.month)
    IN  /\ p.at = "insert"
        /\ Done(w)
        /\ IF p.month \notin DOMAIN rows
           THEN /\ Finalize(latest, today)
                /\ rows' = With(rows, p.month,
                       [month |-> p.month, rx |-> p.sum + carried + delta, last |-> p.report.raw,
                        day |-> today,
                        dayRx |-> (IF latest.day = today THEN carried ELSE 0) + delta,
                        upd |-> IF latest # NoRow /\ latest.upd >= p.report.ts
                                THEN latest.upd + 1 ELSE p.report.ts])
                /\ base' = IF rows = <<>> THEN p.report.sent ELSE base
           ELSE UNCHANGED <<rows, daily, base>>
        /\ UNCHANGED <<clock, resetDay, rebuild, agent, raws, pending, reports, rebuilds, slipped>>

\* D1 fails: a WebSocket report is queued again, one over HTTP is logged.
WriteFails(w) ==
    /\ writers[w].at # "idle"
    /\ Done(w)
    /\ pending' = IF InOrder THEN pending ELSE Append(pending, writers[w].report)
    /\ KeepsTables

-----------------------------------------------------------------------------
(* updateTarget with another reset day, then rebuildAgentTrafficPeriod.    *)

SaveResetDay ==
    \E r \in ResetDays \ {resetDay} :
        /\ rebuild.at = "idle" /\ reboots + rebuilds < MaxUpsets
        /\ rebuilds' = rebuilds + 1
        /\ resetDay' = r
        /\ rebuild' = [rebuild EXCEPT !.at = "read", !.ts = clock, !.month = Period(Day(clock), r)]
        /\ UNCHANGED <<clock, rows, daily, writers, agent, pending, raws, reports, base, slipped>>

\* The latest row and the agent's state, whose copy in D1 may be behind (seen is
\* history, read by the properties only).
RebuildRead ==
    \E metric \in raws \cup {NoBaseline} :
        /\ rebuild.at = "read"
        /\ rebuild' = [rebuild EXCEPT !.at = "daily", !.latest = Latest, !.metric = metric,
                                      !.seen = [rows |-> rows, daily |-> daily]]
        /\ UNCHANGED <<clock, resetDay, rows, daily, writers, agent, pending, raws, reports, history>>

RebuildDaily ==
    /\ rebuild.at = "daily"
    /\ rebuild' = [rebuild EXCEPT !.at = "write", !.sum = SumDays(PeriodDays(rebuild.month))]
    /\ UNCHANGED <<clock, resetDay, rows, daily, writers, agent, pending, raws, reports, history>>

\* A row of another period must be newer than the one that was the latest.
RebuiltAtNow(latest, p) == p.ts
RebuiltAt(latest, p) ==
    LET next == IF latest # NoRow /\ latest.month # p.month THEN latest.upd + 1 ELSE latest.upd
    IN  IF next > p.ts THEN next ELSE p.ts

\* The period's row is replaced, whatever it holds by now.
RebuildWrite ==
    LET latest  == rebuild.latest
        active  == InPeriod(latest.day, rebuild.month)
        pend    == IF active /\ rebuild.metric # NoBaseline
                   THEN Delta(rebuild.metric, latest.last) ELSE 0
        dayRx   == IF active THEN latest.dayRx + pend ELSE 0
    IN  /\ rebuild.at = "write"
        /\ rebuild' = NoRebuild
        /\ rows' = With(rows, rebuild.month,
               [month |-> rebuild.month, rx |-> rebuild.sum + dayRx,
                last |-> IF pend > 0 \/ latest.last = NoBaseline THEN rebuild.metric
                         ELSE latest.last,
                day |-> IF latest = NoRow THEN Day(rebuild.ts) ELSE latest.day,
                dayRx |-> dayRx,
                upd |-> RebuiltAt(latest, rebuild)])
        /\ UNCHANGED <<clock, resetDay, daily, writers, agent, pending, raws, reports, history>>

TrafficNext ==
    \/ Transfer \/ Reboot \/ TimePasses \/ Report
    \/ \E w \in Writers : \/ Start(w) \/ ReadRow(w) \/ ReadLatest(w) \/ ReadDaily(w)
                          \/ WriteUpdate(w) \/ WriteInsert(w) \/ WriteFails(w)
    \/ SaveResetDay \/ RebuildRead \/ RebuildDaily \/ RebuildWrite

TrafficSpec == TrafficInit /\ [][TrafficNext]_trafficVars

-----------------------------------------------------------------------------
(* Properties.                                                             *)

RowType == [month : Int, rx : Nat, last : Nat \cup {NoBaseline}, day : Int, dayRx : Nat, upd : Nat]

\* Every row is filed under its period and lies between the clock's bounds.
TrafficTypeOK ==
    /\ clock \in Nat /\ resetDay \in ResetDays
    /\ \A m \in DOMAIN rows : rows[m] \in RowType /\ rows[m].month = m
    /\ \A d \in DOMAIN daily : daily[d] \in Nat \ {0} /\ d <= Day(clock)
    /\ \A w \in Writers : writers[w].at \in {"idle", "row", "latest", "daily", "update", "insert"}
    /\ rebuild.at \in {"idle", "read", "daily", "write"}
    /\ counter \in 0..MaxCounter /\ Len(pending) <= MaxReports

\* What the tables say was transferred: the finished days and the active one.
Credited == SumDays(DOMAIN daily) + Latest.dayRx

\* metrics.js:770 and CHANGELOG.md:446: no report, reboot or concurrent write
\* makes the tables show more bytes than were transferred since the first one.
NeverOvercounts == rebuilds = 0 /\ rows # <<>> => Credited <= transferred - base

\* The current period's bytes are those of its days: what the table of periods
\* shows and what a rebuild would compute agree.
PeriodHoldsDays ==
    Latest.rx = SumDays(PeriodDays(Latest.month))
                + (IF InPeriod(Latest.day, Latest.month) THEN Latest.dayRx ELSE 0)

PeriodIsSumOfDays == rebuilds = 0 /\ ~slipped => PeriodHoldsDays

\* The same without the exception.  The compare-and-set asks for the day and the
\* counter, not for the day's bytes: after a reboot the counter may be back at
\* the value an update has read before, and the update then sets the day's bytes
\* back to what it has read.
PeriodAlwaysHoldsDays == rebuilds = 0 => PeriodHoldsDays

\* traffic-reset.test.mjs:101 and 119: the period a rebuild was asked for becomes
\* the current one, also within one second, and holds its days and the active day
\* (unless a report is written meanwhile).
RebuiltPeriodIsCurrent ==
    [][rebuild.at = "write" /\ rebuild'.at = "idle" /\ rebuild.seen = [rows |-> rows, daily |-> daily]
       => Latest'.month = rebuild.month /\ PeriodHoldsDays']_trafficVars

\* traffic-reset.test.mjs:129: the history of days stays available: a rebuild
\* nothing interferes with loses no counted byte.
RebuildKeepsDays ==
    [][rebuild.at = "write" /\ rebuild.seen = [rows |-> rows, daily |-> daily] => Credited' >= Credited]_trafficVars

\* Over one boot exactly the bytes between the first and the last counter that
\* was written are counted, however reports are throttled, fail or collide
\* (CHANGELOG.md:446).
CountsEveryByte == rebuilds = 0 /\ reboots = 0 /\ rows # <<>> => Credited = Latest.last - base
=============================================================================
