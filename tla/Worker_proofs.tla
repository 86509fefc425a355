---------------------------- MODULE Worker_proofs ----------------------------
(***************************************************************************)
(* Theorems about three components of the Worker, for every value of the   *)
(* constants: how ProbeRounds writes a target's status to the state in R2, *)
(* how StatusServing answers with it, and how TrafficAccounting adds up    *)
(* the bytes an agent reports.  Each is specified and proved by itself;    *)
(* the names of the second and the third tell them from the first.         *)
(***************************************************************************)
EXTENDS ProbeRounds, StatusServing, TrafficAccounting,
        FiniteSetTheorems, WellFoundedInduction, TLAPS

\* Statuses as they occur: one that was never checked is as old as never.
Known == {s \in Statuses : s.ok = "none" => s.checked = MaxAge}

Places == {"idle", "due", "save", "fast", "probe", "commit", "write", "maintenance"}
RunSet == [at : Places, age : Nat, prev : Known, history : Known, fast : Known]

Typed ==
    /\ up \in BOOLEAN /\ status \in Known
    /\ lease \in [by : Runs \cup {NoOne}, age : Nat]
    /\ lock \in [by : Procs \cup {NoOne}, age : Nat]
    /\ open \in [open : BOOLEAN, age : Ages] /\ okPoint \in Ages
    /\ run \in [Procs -> RunSet]

\* Who holds the lock writes what it has read: no other commit came between,
\* unless one overran its own lock.
HolderIsCurrent ==
    \A p \in Procs : (At(p, "write") /\ lock.by = p /\ ~overrun) => run[p].prev = status

Inv == Typed /\ HolderIsCurrent

LEMMA Times ==
    /\ MaxAge \in Nat /\ LeaseTtl \in Nat /\ LockTtl \in Nat
    /\ NoOne \notin Procs
  BY TimesAssumption, ProcsAssumption

-----------------------------------------------------------------------------
(* Ages and the merge.                                                     *)

LEMMA AgesType ==
    ASSUME NEW a \in Ages, NEW b \in Ages
    PROVE  /\ Older(a) \in Ages /\ Newer(a, b) \in Ages
           /\ Newer(a, b) <= a /\ Newer(a, b) <= b
  BY Times DEF Ages, Older, Newer

LEMMA NoStatusType == NoStatus \in Known
<1>1. MaxAge \in Ages
  BY Times DEF Ages
<1> QED
  BY <1>1 DEF NoStatus, Known, Statuses

LEMMA AgedType == ASSUME NEW s \in Known PROVE Aged(s) \in Known
<1>1. /\ s.checked \in Ages /\ s.history \in Ages /\ s.ok \in {"none", "up", "down"}
      /\ s \in Statuses /\ (s.ok = "none" => s.checked = MaxAge)
  BY DEF Known, Statuses
<1>2. Aged(s) = [s EXCEPT !.checked = Older(s.checked), !.history = Older(s.history)]
  BY DEF Aged
<1>3. Aged(s) = [checked |-> Older(s.checked), history |-> Older(s.history), ok |-> s.ok]
  BY <1>1, <1>2 DEF Statuses
<1>4. Older(s.checked) \in Ages /\ Older(s.history) \in Ages /\ Older(MaxAge) = MaxAge
  BY <1>1, AgesType DEF Older
<1> QED
  BY <1>1, <1>3, <1>4 DEF Known, Statuses

\* What applyR2StateUpdate returns is never older than what it was given.
LEMMA UpdateNotOlder ==
    ASSUME NEW was \in Known, NEW u \in Known
    PROVE  /\ ApplyUpdate(was, u) \in Known
           /\ ApplyUpdate(was, u).checked <= was.checked
           /\ ApplyUpdate(was, u).history <= was.history
<1> DEFINE winner == IF was.ok = "none" \/ u.checked <= was.checked THEN u ELSE was
           n == Newer(u.history, was.history)
<1>1. /\ was \in Statuses /\ was.checked \in Ages /\ was.history \in Ages
      /\ u \in Statuses /\ u.checked \in Ages /\ u.history \in Ages
      /\ was.ok = "none" => was.checked = MaxAge
  BY DEF Known, Statuses
<1>2. \A a \in Ages : a <= a /\ a <= MaxAge
  BY Times DEF Ages
<1>3. CASE u = NoStatus
  BY <1>1, <1>2, <1>3 DEF ApplyUpdate
<1>4. CASE u # NoStatus
  <2>1. ApplyUpdate(was, u) = [winner EXCEPT !.history = n]
    BY <1>4 DEF ApplyUpdate
  <2>2. winner \in Known /\ winner.checked <= was.checked
    BY <1>1, <1>2
  <2>3. n \in Ages /\ n <= was.history
    BY <1>1, AgesType
  <2> HIDE DEF winner, n
  <2>4. [winner EXCEPT !.history = n] = [checked |-> winner.checked, history |-> n, ok |-> winner.ok]
    BY <2>2 DEF Known, Statuses
  <2> QED
    BY <2>1, <2>2, <2>3, <2>4 DEF Known, Statuses
<1> QED
  BY <1>3, <1>4

LEMMA MergeNotOlder ==
    ASSUME NEW was \in Known, NEW r \in RunSet
    PROVE  /\ MergeRound(was, r) \in Known
           /\ MergeRound(was, r).checked <= was.checked
           /\ MergeRound(was, r).history <= was.history
<1> DEFINE one == ApplyUpdate(was, r.history)
           two == ApplyUpdate(one, r.fast)
<1>1. r.history \in Known /\ r.fast \in Known
  BY DEF RunSet
<1>2. one \in Known /\ one.checked <= was.checked /\ one.history <= was.history
  BY <1>1, UpdateNotOlder
<1> HIDE DEF one
<1>3. two \in Known /\ two.checked <= one.checked /\ two.history <= one.history
  BY <1>1, <1>2, UpdateNotOlder
<1> HIDE DEF two
<1>4. MergeRound(was, r) = two
  BY DEF MergeRound, one, two
<1>5. \A a, b, c \in Ages : (a <= b /\ b <= c) => a <= c
  BY Times DEF Ages
<1>6. \A s \in Known : s.checked \in Ages /\ s.history \in Ages
  BY DEF Known, Statuses
<1> QED
  BY <1>2, <1>3, <1>4, <1>5, <1>6

LEMMA IdleType == Idle \in RunSet
  BY NoStatusType DEF Idle, RunSet, Places

-----------------------------------------------------------------------------
(* The steps.                                                              *)

\* A step of one process that does not commit.
LEMMA StepKeeps ==
    ASSUME Inv, NEW p \in Procs, NEW x \in RunSet, run' = [run EXCEPT ![p] = x],
           x.at # "write", UNCHANGED <<status, lock, overrun>>
    PROVE  run' \in [Procs -> RunSet] /\ HolderIsCurrent'
<1>1. run \in [Procs -> RunSet]
  BY DEF Inv, Typed
<1>2. run' \in [Procs -> RunSet] /\ run'[p] = x /\ \A q \in Procs \ {p} : run'[q] = run[q]
  BY <1>1
<1> QED
  BY <1>2 DEF Inv, HolderIsCurrent, At

LEMMA InitInv == Init => Inv
<1> SUFFICES ASSUME Init PROVE Inv
  OBVIOUS
<1>1. run \in [Procs -> RunSet]
  BY IdleType DEF Init
<1>2. \A p \in Procs : ~At(p, "write")
  BY DEF Init, At, Idle
<1>3. NoIncident \in [open : BOOLEAN, age : Ages] /\ MaxAge \in Ages
  BY Times DEF NoIncident, Ages
<1>4. Free.by = NoOne /\ Free \in [by : Runs \cup {NoOne}, age : Nat] /\ Free \in [by : Procs \cup {NoOne}, age : Nat]
  BY DEF Free
<1>5. Typed
  BY <1>1, <1>3, <1>4, NoStatusType DEF Init, Typed
<1> QED
  BY <1>2, <1>5 DEF Inv, HolderIsCurrent

\* A lease or lock that is taken, kept or given back.
LEMMA HeldType ==
    ASSUME NEW S, NEW l \in [by : S \cup {NoOne}, age : Nat], NEW p
    PROVE  /\ Given(l, p) \in [by : S \cup {NoOne}, age : Nat]
           /\ p \in S => Taken(p) \in [by : S \cup {NoOne}, age : Nat]
  BY DEF Given, Taken, Free

LEMMA RunStepKeeps ==
    ASSUME Inv, NEW r \in Runs, RunStep(r)
    PROVE  Inv'
<1>1. /\ r \in Procs /\ run \in [Procs -> RunSet] /\ run[r] \in RunSet /\ status \in Known
      /\ lease \in [by : Runs \cup {NoOne}, age : Nat]
  BY DEF Inv, Typed, Procs
<1>2. /\ Given(lease, r) \in [by : Runs \cup {NoOne}, age : Nat]
      /\ Taken(r) \in [by : Runs \cup {NoOne}, age : Nat]
  BY <1>1, HeldType
<1>3. Seen \in {"up", "down"}
  BY DEF Seen
<1>4. ASSUME NEW x \in RunSet, run' = [run EXCEPT ![r] = x], x.at # "write",
             lease' \in [by : Runs \cup {NoOne}, age : Nat],
             open' \in [open : BOOLEAN, age : Ages],
             UNCHANGED <<up, status, lock, okPoint, overrun>>
      PROVE  Inv'
  <2>1. run' \in [Procs -> RunSet] /\ HolderIsCurrent'
    BY <1>1, <1>4, StepKeeps
  <2> QED
    BY <1>4, <2>1 DEF Inv, Typed
<1>5. CASE RoundStarts(r)
  <2>1. \E w \in {"due", "fast"} : run' = [run EXCEPT ![r] = [Idle EXCEPT !.at = w]]
    BY <1>5 DEF RoundStarts
  <2>2. PICK w \in {"due", "fast"} : run' = [run EXCEPT ![r] = [Idle EXCEPT !.at = w]]
    BY <2>1
  <2>3. [Idle EXCEPT !.at = w] \in RunSet /\ [Idle EXCEPT !.at = w].at = w
    BY IdleType DEF RunSet, Places
  <2> QED
    BY <1>1, <1>2, <1>4, <1>5, <2>2, <2>3 DEF RoundStarts, Inv, Typed, db
<1>6. CASE NotDue(r)
  <2>1. run' = [run EXCEPT ![r] = [run[r] EXCEPT !.at = "fast"]]
    BY <1>1, <1>6 DEF NotDue, Goto
  <2>2. [run[r] EXCEPT !.at = "fast"] \in RunSet /\ [run[r] EXCEPT !.at = "fast"].at = "fast"
    BY <1>1 DEF RunSet, Places
  <2> QED
    BY <1>1, <1>2, <1>4, <1>6, <2>1, <2>2 DEF NotDue, Inv, Typed, db
<1>7. CASE HistoryProbe(r)
  <2> DEFINE h == [checked |-> 0, history |-> 0, ok |-> Seen]
             x == [run[r] EXCEPT !.at = "save", !.prev = status, !.history = h]
  <2>1. h \in Known
    BY <1>3, Times DEF Known, Statuses, Ages
  <2>2. run' = [run EXCEPT ![r] = x]
    BY <1>1, <1>7 DEF HistoryProbe, Probing
  <2> HIDE DEF h
  <2>3. x \in RunSet /\ x.at = "save"
    BY <1>1, <2>1 DEF RunSet, Places
  <2> QED
    BY <1>1, <1>4, <1>7, <2>2, <2>3 DEF HistoryProbe, Probing, Inv, Typed, db
<1>8. CASE FastBegins(r)
  <2> DEFINE seen == Overlay(status, run[r])
             x == [run[r] EXCEPT !.at = "probe", !.prev = seen]
             y == [run[r] EXCEPT !.at = "commit"]
  <2>1. seen \in Known
    BY <1>1, UpdateNotOlder DEF Overlay, RunSet
  <2>2. run' = [run EXCEPT ![r] = x] \/ run' = [run EXCEPT ![r] = y]
    BY <1>1, <1>8 DEF FastBegins, Goto
  <2> HIDE DEF seen
  <2>3. x \in RunSet /\ x.at = "probe" /\ y \in RunSet /\ y.at = "commit"
    BY <1>1, <2>1 DEF RunSet, Places
  <2>4. lease' \in [by : Runs \cup {NoOne}, age : Nat]
    BY <1>1, <1>2, <1>8 DEF FastBegins
  <2>5. open' \in [open : BOOLEAN, age : Ages] /\ UNCHANGED <<up, status, lock, okPoint, overrun>>
    BY <1>8 DEF FastBegins, Inv, Typed, db
  <2> HIDE DEF x, y
  <2> QED
    BY <1>4, <2>2, <2>3, <2>4, <2>5
<1>9. CASE FastProbe(r)
  <2> DEFINE f == [run[r].prev EXCEPT !.checked = 0, !.ok = Seen]
             x == [run[r] EXCEPT !.at = "commit", !.prev = NoStatus, !.fast = f]
  <2>1. f \in Known
    <3>1. run[r].prev \in Statuses
      BY <1>1 DEF RunSet, Known
    <3>2. 0 \in Ages
      BY Times DEF Ages
    <3>3. f \in Statuses /\ f.ok = Seen
      BY <1>3, <3>1, <3>2 DEF Statuses
    <3> QED
      BY <1>3, <3>3 DEF Known
  <2>2. run' = [run EXCEPT ![r] = x]
    BY <1>1, <1>9 DEF FastProbe
  <2> HIDE DEF f
  <2>3. x \in RunSet /\ x.at = "commit"
    BY <1>1, <2>1, NoStatusType DEF RunSet, Places
  <2> QED
    BY <1>1, <1>2, <1>4, <1>9, <2>2, <2>3 DEF FastProbe, Inv, Typed, db
<1>10. CASE Maintenance(r) \/ NoMaintenance(r)
  <2>1. run' = [run EXCEPT ![r] = Idle] /\ Idle.at = "idle"
    BY <1>10 DEF Maintenance, NoMaintenance, Maintains, Idle
  <2>2. open' \in [open : BOOLEAN, age : Ages]
    <3>1. NoIncident \in [open : BOOLEAN, age : Ages]
      BY Times DEF NoIncident, Ages
    <3>2. open' \in {open, NoIncident}
      BY <1>10 DEF Maintenance, NoMaintenance, db
    <3> QED
      BY <3>1, <3>2 DEF Inv, Typed
  <2> QED
    BY <1>1, <1>4, <1>10, <2>1, <2>2, IdleType DEF Maintenance, NoMaintenance, Inv, Typed, db
<1> QED
  BY <1>5, <1>6, <1>7, <1>8, <1>9, <1>10 DEF RunStep

LEMMA ManualProbeKeeps ==
    ASSUME Inv, NEW m \in Manuals, ManualProbe(m)
    PROVE  Inv'
<1> DEFINE h == [checked |-> 0, history |-> 0, ok |-> Seen]
           x == [run[m] EXCEPT !.at = "save", !.prev = status, !.history = h]
<1>1. m \in Procs /\ run \in [Procs -> RunSet] /\ run[m] \in RunSet /\ status \in Known
  BY DEF Inv, Typed, Procs
<1>2. h \in Known
  BY Times DEF Known, Statuses, Ages, Seen
<1>3. run' = [run EXCEPT ![m] = x]
  BY <1>1 DEF ManualProbe, Probing
<1> HIDE DEF h
<1>4. x \in RunSet /\ x.at = "save"
  BY <1>1, <1>2 DEF RunSet, Places
<1>5. run' \in [Procs -> RunSet] /\ HolderIsCurrent'
  BY <1>1, <1>3, <1>4, StepKeeps DEF ManualProbe, Probing
<1> QED
  BY <1>5 DEF ManualProbe, Probing, Inv, Typed, db

LEMMA SaveKeeps ==
    ASSUME Inv, NEW p \in Procs, Save(p)
    PROVE  Inv'
<1> DEFINE w == IF p \in Runs THEN "fast" ELSE "commit"
           x == [run[p] EXCEPT !.prev = NoStatus, !.at = w]
           u == run[p].history
<1>1. /\ run \in [Procs -> RunSet] /\ run[p] \in RunSet /\ u \in Known
      /\ lease \in [by : Runs \cup {NoOne}, age : Nat]
      /\ open \in [open : BOOLEAN, age : Ages] /\ okPoint \in Ages
  BY DEF Inv, Typed, RunSet
<1>2. run' = [run EXCEPT ![p] = x]
  BY <1>1 DEF Save
<1>3. x \in RunSet /\ x.at # "write"
  BY <1>1, NoStatusType DEF RunSet, Places
<1>4. run' \in [Procs -> RunSet] /\ HolderIsCurrent'
  BY <1>2, <1>3, StepKeeps DEF Save
<1>5. u.checked \in Ages
  BY <1>1 DEF Known, Statuses
<1>6. okPoint' \in Ages
  BY <1>1, <1>5, AgesType DEF Save
<1>7. open' \in [open : BOOLEAN, age : Ages]
  <2>1. NoIncident \in [open : BOOLEAN, age : Ages]
    BY Times DEF NoIncident, Ages
  <2>2. \A was, now : IncidentAfter(was, now, u.checked) \in [open : BOOLEAN, age : Ages]
    BY <1>1, <1>5, <2>1 DEF IncidentAfter
  <2> QED
    BY <1>1, <2>2 DEF Save
<1>8. lease' \in [by : Runs \cup {NoOne}, age : Nat]
  BY <1>1, HeldType DEF Save
<1> QED
  BY <1>4, <1>6, <1>7, <1>8 DEF Save, Inv, Typed

LEMMA CommittedType ==
    ASSUME NEW p \in Procs, run \in [Procs -> RunSet], Committed(p)
    PROVE  \E x \in RunSet : run' = [run EXCEPT ![p] = x] /\ x.at # "write"
<1> DEFINE x == IF p \in Runs THEN [Idle EXCEPT !.at = "maintenance", !.age = run[p].age] ELSE Idle
<1>1. x \in RunSet /\ x.at # "write"
  <2>1. run[p].age \in Nat
    BY DEF RunSet
  <2>2. Idle \in RunSet /\ Idle.at = "idle"
    BY IdleType DEF Idle
  <2>3. /\ [Idle EXCEPT !.at = "maintenance", !.age = run[p].age] \in RunSet
        /\ [Idle EXCEPT !.at = "maintenance", !.age = run[p].age].at = "maintenance"
    BY <2>1, <2>2 DEF RunSet, Places
  <2> QED
    BY <2>2, <2>3
<1> QED
  BY <1>1 DEF Committed

LEMMA CommitBeginsKeeps ==
    ASSUME Inv, NEW p \in Procs, CommitBegins(p)
    PROVE  Inv'
<1>1. run \in [Procs -> RunSet] /\ run[p] \in RunSet /\ status \in Known
  BY DEF Inv, Typed
<1>2. UNCHANGED <<up, status, lease, open, okPoint, overrun>>
  BY DEF CommitBegins, db
<1>3. CASE lock' = Taken(p) /\ run' = [run EXCEPT ![p].at = "write", ![p].prev = status]
  <2> DEFINE x == [run[p] EXCEPT !.at = "write", !.prev = status]
  <2>1. x \in RunSet /\ x.prev = status /\ run' = [run EXCEPT ![p] = x]
    BY <1>1, <1>3 DEF RunSet, Places
  <2> HIDE DEF x
  <2>2. run' \in [Procs -> RunSet] /\ run'[p] = x
    BY <1>1, <2>1
  <2>3. lock'.by = p /\ lock' \in [by : Procs \cup {NoOne}, age : Nat]
    BY <1>3 DEF Taken
  <2>4. HolderIsCurrent'
    BY <1>2, <2>1, <2>2, <2>3 DEF HolderIsCurrent, At
  <2> QED
    BY <1>2, <2>2, <2>3, <2>4 DEF Inv, Typed
<1>4. CASE Committed(p) /\ UNCHANGED lock
  <2>1. PICK x \in RunSet : run' = [run EXCEPT ![p] = x] /\ x.at # "write"
    BY <1>1, <1>4, CommittedType
  <2>2. run' \in [Procs -> RunSet] /\ HolderIsCurrent'
    BY <1>2, <1>4, <2>1, StepKeeps
  <2> QED
    BY <1>2, <1>4, <2>2 DEF Inv, Typed
<1> QED
  BY <1>3, <1>4 DEF CommitBegins

\* A commit under its own lock merges into the status as it is; one whose lock
\* was taken over meanwhile is an overrun.
LEMMA WriteNotOlder ==
    ASSUME Inv, NEW p \in Procs, CommitWrite(p)
    PROVE  /\ status' \in Known
           /\ \/ overrun'
              \/ status'.checked <= status.checked /\ status'.history <= status.history
<1>1. /\ run[p] \in RunSet /\ run[p].prev \in Known /\ status \in Known /\ At(p, "write")
      /\ overrun' = (overrun \/ lock.by # p)
      /\ status' = MergeRound(run[p].prev, run[p]) \/ status' = status
  BY DEF CommitWrite, Inv, Typed, RunSet
<1>2. status' \in Known
  BY <1>1, MergeNotOlder
<1>3. overrun' \/ run[p].prev = status
  BY <1>1 DEF Inv, HolderIsCurrent
<1>4. CASE status' = status
  <2>1. status.checked \in Ages /\ status.history \in Ages /\ \A a \in Ages : a <= a
    BY <1>1, Times DEF Known, Statuses, Ages
  <2> QED
    BY <1>2, <1>4, <2>1
<1>5. CASE status' = MergeRound(run[p].prev, run[p])
  BY <1>1, <1>2, <1>3, <1>5, MergeNotOlder
<1> QED
  BY <1>1, <1>4, <1>5

LEMMA CommitWriteKeeps ==
    ASSUME Inv, NEW p \in Procs, CommitWrite(p)
    PROVE  Inv'
<1>1. /\ run \in [Procs -> RunSet] /\ lock \in [by : Procs \cup {NoOne}, age : Nat]
      /\ Committed(p) /\ lock' = Given(lock, p) /\ overrun' = (overrun \/ lock.by # p)
      /\ UNCHANGED <<up, lease, open, okPoint>>
  BY DEF CommitWrite, Inv, Typed, db
<1>2. PICK x \in RunSet : run' = [run EXCEPT ![p] = x] /\ x.at # "write"
  BY <1>1, CommittedType
<1>3. run' \in [Procs -> RunSet] /\ run'[p] = x
  BY <1>1, <1>2
<1>4. overrun' \/ lock'.by = NoOne
  BY <1>1 DEF Given, Free
<1>5. HolderIsCurrent'
  BY <1>4, Times DEF HolderIsCurrent
<1>6. lock' \in [by : Procs \cup {NoOne}, age : Nat]
  BY <1>1, HeldType
<1> QED
  BY <1>1, <1>3, <1>5, <1>6, WriteNotOlder DEF Inv, Typed

LEMMA KilledKeeps ==
    ASSUME Inv, NEW p \in Procs, Killed(p)
    PROVE  Inv'
<1>1. run' = [run EXCEPT ![p] = Idle] /\ Idle.at # "write"
  BY DEF Killed, Idle
<1>2. run' \in [Procs -> RunSet] /\ HolderIsCurrent'
  BY <1>1, IdleType, StepKeeps DEF Killed
<1> QED
  BY <1>2 DEF Killed, Inv, Typed, db

\* Time ages what is stored and what is in hand alike.
LEMMA TickKeeps ==
    ASSUME Inv, Tick
    PROVE  Inv'
<1>1. /\ run \in [Procs -> RunSet] /\ status \in Known /\ status' = Aged(status)
      /\ lease \in [by : Runs \cup {NoOne}, age : Nat] /\ lock \in [by : Procs \cup {NoOne}, age : Nat]
      /\ open \in [open : BOOLEAN, age : Ages] /\ okPoint \in Ages
      /\ run' = [p \in Procs |-> IF At(p, "idle") THEN Idle
                                 ELSE [run[p] EXCEPT !.age = @ + 1, !.prev = Aged(@),
                                                     !.history = Aged(@), !.fast = Aged(@)]]
  BY DEF Tick, Inv, Typed
<1>2. ASSUME NEW p \in Procs
      PROVE  /\ run'[p] \in RunSet
             /\ run'[p].at = "write" => run[p].at = "write" /\ run'[p].prev = Aged(run[p].prev)
  <2>1. CASE At(p, "idle")
    BY <1>1, <2>1, IdleType DEF Idle
  <2>2. CASE ~At(p, "idle")
    <3> DEFINE x == [run[p] EXCEPT !.age = @ + 1, !.prev = Aged(@), !.history = Aged(@), !.fast = Aged(@)]
    <3>1. /\ run[p] \in RunSet /\ run[p].age + 1 \in Nat
          /\ Aged(run[p].prev) \in Known /\ Aged(run[p].history) \in Known /\ Aged(run[p].fast) \in Known
      <4>1. /\ run[p] \in RunSet /\ run[p].age \in Nat
            /\ run[p].prev \in Known /\ run[p].history \in Known /\ run[p].fast \in Known
        BY <1>1 DEF RunSet
      <4>2. run[p].age + 1 \in Nat
        BY <4>1
      <4> QED
        BY <4>1, <4>2, AgedType
    <3>2. x \in RunSet /\ x.at = run[p].at /\ x.prev = Aged(run[p].prev)
      BY <3>1 DEF RunSet
    <3> QED
      BY <1>1, <2>2, <3>2
  <2> QED
    BY <2>1, <2>2
<1>3. run' \in [Procs -> RunSet]
  BY <1>1, <1>2
<1>4. lock'.by = lock.by /\ UNCHANGED overrun
  BY <1>1 DEF Tick
<1>5. HolderIsCurrent'
  BY <1>1, <1>2, <1>4 DEF Inv, HolderIsCurrent, At
<1>6. \A n, m \in Nat : Newer(n + 1, m + 1) \in Nat
  BY DEF Newer
<1>7. /\ lease' \in [by : Runs \cup {NoOne}, age : Nat]
      /\ lock' \in [by : Procs \cup {NoOne}, age : Nat]
  BY <1>1, <1>6, Times DEF Tick
<1>8. open' \in [open : BOOLEAN, age : Ages] /\ okPoint' \in Ages
  <2>1. 0 \in Ages /\ Older(open.age) \in Ages /\ Older(okPoint) \in Ages
    <3>1. 0 \in Ages
      BY Times DEF Ages
    <3>2. open.age \in Ages
      BY <1>1
    <3> QED
      BY <1>1, <3>1, <3>2, AgesType
  <2> QED
    BY <1>1, <2>1 DEF Tick
<1>9. status' \in Known /\ up' \in BOOLEAN
  BY <1>1, AgedType DEF Tick, Inv, Typed
<1> QED
  BY <1>3, <1>5, <1>7, <1>8, <1>9 DEF Inv, Typed

LEMMA InvNext == Inv /\ [Next]_vars => Inv'
<1> SUFFICES ASSUME Inv, [Next]_vars PROVE Inv'
  OBVIOUS
<1>1. CASE TargetFlips
  BY <1>1 DEF TargetFlips, Inv, Typed, HolderIsCurrent, At, db
<1>2. CASE UNCHANGED vars
  BY <1>2 DEF vars, Inv, Typed, HolderIsCurrent, At
<1>3. ASSUME NEW p \in Procs, ProcStep(p) PROVE Inv'
  BY <1>3, SaveKeeps, CommitBeginsKeeps, CommitWriteKeeps DEF ProcStep
<1> QED
  BY <1>1, <1>2, <1>3, RunStepKeeps, ManualProbeKeeps, KilledKeeps, TickKeeps DEF Next

LEMMA Invariant == Spec => []Inv
  BY InitInv, InvNext, PTL DEF Spec

(* The status, its lock and lease, the incident and what a round has in    *)
(* hand keep their types; a request never holds the lease of the rounds.   *)
THEOREM TypeCorrect == Spec => []TypeOK
<1>1. Inv => TypeOK
  <2> SUFFICES ASSUME Inv PROVE TypeOK
    OBVIOUS
  <2>1. \A p \in Procs : {run[p].prev, run[p].history, run[p].fast} \subseteq Statuses
    BY DEF Inv, Typed, RunSet, Known
  <2> QED
    BY <2>1 DEF Inv, Typed, TypeOK, Known
<1> QED
  BY <1>1, Invariant, PTL

(* No commit of overlapping rounds or of the administrator's probe puts an *)
(* older check, or an older history marker, over a newer one in R2, unless *)
(* some commit has overrun the time of its lock.                           *)
THEOREM StatusNotOlder == Spec => StatusNeverOlder
<1> DEFINE Step == (\E p \in Procs : CommitWrite(p)) =>
             overrun' \/ (status'.checked <= status.checked /\ status'.history <= status.history)
<1>1. Inv => [Step]_vars
  BY WriteNotOlder
<1> QED
  BY <1>1, Invariant, PTL DEF StatusNeverOlder

-----------------------------------------------------------------------------
(***************************************************************************)
(* StatusServing: its types, and that an edit replaces what is served once *)
(* its clearing has met nothing older.                                     *)
(***************************************************************************)

\* What each kind of value holds.
LEMMA ValueFacts ==
    /\ NoSnap \in Snaps /\ NoEdge \in Answers /\ Resting \in Works
    /\ Resting # [at |-> "start"] /\ [at |-> "start"] \in Works
    /\ \A s \in Snaps : s.there => s \in [there : {TRUE}, data : Data, age : SnapAges]
    /\ \A w \in Works : w.at = "read" => w.data \in Data
    /\ \A d \in Data : /\ Snap(d) \in Snaps /\ Cached(d) \in Answers
                       /\ [at |-> "read", data |-> d] \in Works
                       /\ [at |-> "read", data |-> d] # [at |-> "start"]
<1>1. /\ NoSnap \in Snaps /\ NoEdge \in Answers /\ Resting \in Works
      /\ [at |-> "start"] \in Works
  BY DEF Snaps, Answers, Works
<1>2. Resting # [at |-> "start"]
  BY DEF Resting
<1>3. ASSUME NEW s \in Snaps, s.there
      PROVE  s \in [there : {TRUE}, data : Data, age : SnapAges]
  <2>1. ~NoSnap.there
    BY DEF NoSnap
  <2>2. s # NoSnap
    BY <1>3, <2>1
  <2>3. QED
    BY <2>2 DEF Snaps
<1>4. ASSUME NEW w \in Works, w.at = "read"
      PROVE  w.data \in Data
  <2>1. w # Resting /\ w # [at |-> "start"]
    BY <1>4 DEF Resting
  <2>2. w \in [at : {"read"}, data : Data]
    BY <2>1 DEF Works
  <2>3. QED
    BY <2>2
<1>5. ASSUME NEW d \in Data
      PROVE  /\ Snap(d) \in Snaps /\ Cached(d) \in Answers
             /\ [at |-> "read", data |-> d] \in Works
             /\ [at |-> "read", data |-> d] # [at |-> "start"]
  BY DEF Snap, Snaps, Cached, Answers, Works, SnapAges
<1>6. QED
  BY <1>1, <1>2, <1>3, <1>4, <1>5

\* One fault more keeps the bound.
LEMMA FaultStep ==
    ASSUME ServingTypeOK, failures < MaxFailures, failures' = failures + 1
    PROVE  failures' \in 0..MaxFailures
<1>1. MaxFailures \in Nat /\ failures \in 0..MaxFailures
  BY ServingAssumption DEF ServingTypeOK
<1>2. QED
  BY <1>1

\* Whatever is read is data, and, unless the snapshot is old, current.
LEMMA ReadFacts ==
    ASSUME ServingTypeOK, NEW d \in Read
    PROVE  d \in Data /\ (SnapCurrent => d.edit = truth.edit)
<1>1. truth \in Data /\ snap \in Snaps
  BY DEF ServingTypeOK
<1>2. CASE Usable(snap)
  <2>1. snap.there /\ snap.data \in Data
    BY <1>1, <1>2, ValueFacts DEF Usable
  <2>2. Overlaid(snap.data) \in Data /\ Overlaid(snap.data).edit = snap.data.edit
    BY <1>1, <2>1 DEF Overlaid, Data
  <2>3. d \in {snap.data, Overlaid(snap.data)}
    BY <1>2 DEF Read
  <2>4. QED
    BY <2>1, <2>2, <2>3 DEF SnapCurrent
<1>3. CASE ~Usable(snap)
  BY <1>1, <1>3 DEF Read
<1>4. QED
  BY <1>2, <1>3

LEMMA TypeStep ==
    ASSUME ServingTypeOK, [ServingNext]_servingVars
    PROVE  ServingTypeOK'
<1>1. ASSUME NEW r \in Requests, Miss(r)
      PROVE  ServingTypeOK'
  <2>1. PICK d \in Read :
          /\ req' = [req EXCEPT ![r] = [at |-> "read", data |-> d]]
          /\ failures' = IF Usable(snap) /\ snap.age = "aged" /\ d # Overlaid(snap.data)
                       THEN failures + 1 ELSE failures
    BY <1>1 DEF Miss
  <2>2. d \in Data
    BY <2>1, ReadFacts
  <2>3. failures' \in 0..MaxFailures
    <3>1. CASE Usable(snap) /\ snap.age = "aged" /\ d # Overlaid(snap.data)
      <4>1. failures < MaxFailures
        BY <2>1, <3>1 DEF Read
      <4>2. failures' = failures + 1
        BY <2>1, <3>1
      <4>3. QED
        BY <4>1, <4>2, FaultStep
    <3>2. CASE ~(Usable(snap) /\ snap.age = "aged" /\ d # Overlaid(snap.data))
      <4>1. failures' = failures
        BY <2>1, <3>2
      <4>2. QED
        BY <4>1 DEF ServingTypeOK
    <3>3. QED
      BY <3>1, <3>2
  <2>4. req' \in [Requests -> Works \ {[at |-> "start"]}]
    BY <2>1, <2>2, ValueFacts DEF ServingTypeOK
  <2>5. UNCHANGED <<truth, snap, edge, build, admin, raced>>
    BY <1>1 DEF Miss
  <2>6. QED
    BY <2>3, <2>4, <2>5 DEF ServingTypeOK
<1>2. ASSUME NEW r \in Requests, PutEdge(r) \/ PutEdgeFails(r)
      PROVE  ServingTypeOK'
  <2>1. /\ req[r].at = "read"
        /\ req' = [req EXCEPT ![r] = Resting]
        /\ edge' \in {edge, Cached(req[r].data)}
        /\ UNCHANGED <<truth, snap, build, admin, raced>>
    BY <1>2 DEF PutEdge, PutEdgeFails
  <2>2. edge' \in Answers
    BY <2>1, ValueFacts DEF ServingTypeOK
  <2>3. req' \in [Requests -> Works \ {[at |-> "start"]}]
    BY <2>1, ValueFacts DEF ServingTypeOK
  <2>4. failures' \in 0..MaxFailures
    BY <1>2, FaultStep DEF PutEdge, PutEdgeFails, ServingTypeOK
  <2>5. QED
    BY <2>1, <2>2, <2>3, <2>4 DEF ServingTypeOK
<1>3. ASSUME NEW b \in Builders,
             CronBuilds(b) \/ BuildReads(b) \/ BuildPuts(b) \/ BuildFails(b)
      PROVE  ServingTypeOK'
  <2>1. UNCHANGED <<truth, edge, req, admin, raced>>
    BY <1>3 DEF CronBuilds, BuildReads, BuildPuts, BuildFails
  <2>2. PICK w \in {Resting, [at |-> "start"], [at |-> "read", data |-> truth]} :
          build' = [build EXCEPT ![b] = w]
    BY <1>3 DEF CronBuilds, BuildReads, BuildPuts, BuildFails
  <2>3. w \in Works
    BY <2>2, ValueFacts DEF ServingTypeOK
  <2>4. build' \in [Builders -> Works]
    BY <2>2, <2>3 DEF ServingTypeOK
  <2>5. snap' \in Snaps
    BY <1>3, ValueFacts DEF CronBuilds, BuildReads, BuildPuts, BuildFails, ServingTypeOK
  <2>6. failures' \in 0..MaxFailures
    BY <1>3, FaultStep DEF CronBuilds, BuildReads, BuildPuts, BuildFails, ServingTypeOK
  <2>7. QED
    BY <2>1, <2>4, <2>5, <2>6 DEF ServingTypeOK
<1>4. CASE Probe \/ Edit
  <2>1. truth' \in Data
    BY <1>4, ServingAssumption DEF Probe, Edit, ServingTypeOK, Data
  <2>2. /\ UNCHANGED <<snap, edge, req, build, failures>>
        /\ admin' \in {"idle", "snapshot", "edge"} /\ raced' \in BOOLEAN
    BY <1>4 DEF Probe, Edit, ServingTypeOK
  <2>3. QED
    BY <2>1, <2>2 DEF ServingTypeOK
<1>5. CASE ClearSnapshot
  <2>1. PICK b \in Builders : build' = [build EXCEPT ![b] = [at |-> "start"]]
    BY <1>5 DEF ClearSnapshot
  <2>2. build' \in [Builders -> Works]
    BY <2>1, ValueFacts DEF ServingTypeOK
  <2>3. raced' \in BOOLEAN
    BY <1>5 DEF ClearSnapshot, OldBuild
  <2>4. snap' \in Snaps
    BY <1>5, ValueFacts DEF ClearSnapshot, ServingTypeOK
  <2>5. failures' \in 0..MaxFailures
    BY <1>5, FaultStep DEF ClearSnapshot, ServingTypeOK
  <2>6. admin' \in {"idle", "snapshot", "edge"}
    BY <1>5 DEF ClearSnapshot, AfterSnapshot
  <2>7. truth' = truth /\ edge' = edge /\ req' = req
    BY <1>5 DEF ClearSnapshot
  <2>8. QED
    BY <2>2, <2>3, <2>4, <2>5, <2>6, <2>7 DEF ServingTypeOK
<1>6. CASE ClearEdge \/ ClearDies \/ EdgeExpires
  <2>1. UNCHANGED <<truth, snap, req, build>> /\ edge' \in {edge, NoEdge}
    BY <1>6 DEF ClearEdge, ClearDies, EdgeExpires
  <2>2. admin' \in {"idle", "snapshot", "edge"} /\ raced' \in BOOLEAN
    BY <1>6 DEF ClearEdge, ClearDies, EdgeExpires, OldRequest, ServingTypeOK
  <2>3. failures' \in 0..MaxFailures
    BY <1>6, FaultStep DEF ClearEdge, ClearDies, EdgeExpires, ServingTypeOK
  <2>4. QED
    BY <2>1, <2>2, <2>3, ValueFacts DEF ServingTypeOK
<1>7. CASE SnapshotAges
  <2>1. /\ UNCHANGED <<truth, edge, req, build, admin, failures, raced>>
        /\ snap' = [snap EXCEPT !.age = OlderSnap[snap.age]]
        /\ snap \in [there : {TRUE}, data : Data, age : SnapAges]
    BY <1>7, ValueFacts DEF SnapshotAges, ServingTypeOK
  <2>2. \A a \in SnapAges : OlderSnap[a] \in SnapAges
    BY DEF SnapAges, OlderSnap
  <2>3. snap' \in Snaps
    BY <2>1, <2>2 DEF Snaps
  <2>4. QED
    BY <2>1, <2>3 DEF ServingTypeOK
<1>8. CASE UNCHANGED servingVars
  BY <1>8 DEF servingVars, ServingTypeOK
<1>9. QED
  BY <1>1, <1>2, <1>3, <1>4, <1>5, <1>6, <1>7, <1>8 DEF ServingNext

\* Every variable keeps its type: the versions served are always ones that
\* existed (status.js:13-600).
THEOREM ServingTypeCorrect == ServingSpec => []ServingTypeOK
<1>1. ServingInit => ServingTypeOK
  <2>1. [probe |-> 0, edit |-> 0] \in Data /\ 0 \in 0..MaxFailures
    BY ServingAssumption DEF Data
  <2>2. QED
    BY <2>1, ValueFacts DEF ServingInit, ServingTypeOK
<1>2. ServingTypeOK /\ [ServingNext]_servingVars => ServingTypeOK'
  BY TypeStep
<1>3. QED
  BY <1>1, <1>2, PTL DEF ServingSpec

-----------------------------------------------------------------------------
(***************************************************************************)
(* What makes ClearedIsCurrent inductive: from the deletion of the         *)
(* snapshot on, nothing older is in it or on its way there, and from the   *)
(* deletion of the cached answer on the same holds of that.                *)
(***************************************************************************)
SnapshotCleared == (admin # "snapshot" /\ ~raced) => SnapCurrent /\ ~OldBuild
EdgeCleared == (admin = "idle" /\ ~raced) => EdgeCurrent /\ ~OldRequest
Cleared == SnapshotCleared /\ EdgeCleared

LEMMA ClearedStep ==
    ASSUME ServingTypeOK, ServingTypeOK', Cleared, [ServingNext]_servingVars
    PROVE  Cleared'
<1>1. ASSUME NEW r \in Requests, Miss(r)
      PROVE  Cleared'
  <2>1. PICK d \in Read : req' = [req EXCEPT ![r] = [at |-> "read", data |-> d]]
    BY <1>1 DEF Miss
  <2>2. UNCHANGED <<truth, snap, edge, build, admin, raced>>
    BY <1>1 DEF Miss
  <2>3. SnapshotCleared'
    BY <2>2 DEF Cleared, SnapshotCleared, SnapCurrent, OldBuild, OldWork
  <2>4. ASSUME admin = "idle", ~raced
        PROVE  ~OldRequest'
    <3>1. d.edit = truth.edit
      BY <2>1, <2>4, ReadFacts DEF Cleared, SnapshotCleared
    <3>2. \A q \in Requests : req'[q] = IF q = r THEN [at |-> "read", data |-> d] ELSE req[q]
      BY <2>1 DEF ServingTypeOK
    <3>3. ~OldRequest
      BY <2>4 DEF Cleared, EdgeCleared
    <3>4. QED
      BY <2>2, <3>1, <3>2, <3>3 DEF OldRequest, OldWork
  <2>5. EdgeCleared'
    BY <2>2, <2>4 DEF Cleared, EdgeCleared, EdgeCurrent
  <2>6. QED
    BY <2>3, <2>5 DEF Cleared
<1>2. ASSUME NEW r \in Requests, PutEdge(r) \/ PutEdgeFails(r)
      PROVE  Cleared'
  <2>1. /\ req' = [req EXCEPT ![r] = Resting]
        /\ edge' = edge \/ edge' = Cached(req[r].data)
        /\ req[r].at = "read"
        /\ UNCHANGED <<truth, snap, build, admin, raced>>
    BY <1>2 DEF PutEdge, PutEdgeFails
  <2>2. SnapshotCleared'
    BY <2>1 DEF Cleared, SnapshotCleared, SnapCurrent, OldBuild, OldWork
  <2>3. \A q \in Requests : req'[q] = IF q = r THEN Resting ELSE req[q]
    BY <2>1 DEF ServingTypeOK
  <2>4. OldRequest' => OldRequest
    BY <2>1, <2>3 DEF OldRequest, OldWork, Resting
  <2>5. ASSUME ~OldRequest, EdgeCurrent
        PROVE  EdgeCurrent'
    BY <2>1, <2>5 DEF OldRequest, OldWork, EdgeCurrent, Cached
  <2>6. EdgeCleared'
    BY <2>1, <2>4, <2>5 DEF Cleared, EdgeCleared
  <2>7. QED
    BY <2>2, <2>6 DEF Cleared
<1>3. ASSUME NEW b \in Builders,
             CronBuilds(b) \/ BuildReads(b) \/ BuildPuts(b) \/ BuildFails(b)
      PROVE  Cleared'
  <2>1. UNCHANGED <<truth, edge, req, admin, raced>>
    BY <1>3 DEF CronBuilds, BuildReads, BuildPuts, BuildFails
  <2>2. EdgeCleared'
    BY <2>1 DEF Cleared, EdgeCleared, EdgeCurrent, OldRequest, OldWork
  <2>3. \A c \in Builders : c # b => build'[c] = build[c]
    BY <1>3 DEF CronBuilds, BuildReads, BuildPuts, BuildFails, ServingTypeOK
  <2>4. build'[b] \in {Resting, [at |-> "start"], [at |-> "read", data |-> truth]}
    BY <1>3 DEF CronBuilds, BuildReads, BuildPuts, BuildFails, ServingTypeOK
  <2>5. ~OldWork(build[b])'
    BY <2>1, <2>4 DEF OldWork, Resting
  <2>6. OldBuild' => OldBuild
    BY <2>1, <2>3, <2>5 DEF OldBuild, OldWork
  <2>7. ASSUME ~OldBuild, SnapCurrent
        PROVE  SnapCurrent'
    <3>1. CASE BuildPuts(b)
      BY <2>1, <2>7, <3>1 DEF BuildPuts, OldBuild, OldWork, SnapCurrent, Snap
    <3>2. CASE CronBuilds(b) \/ BuildReads(b) \/ BuildFails(b)
      BY <2>1, <2>7, <3>2 DEF CronBuilds, BuildReads, BuildFails, SnapCurrent
    <3>3. QED
      BY <1>3, <3>1, <3>2
  <2>8. SnapshotCleared'
    BY <2>1, <2>6, <2>7 DEF Cleared, SnapshotCleared
  <2>9. QED
    BY <2>2, <2>8 DEF Cleared
<1>4. CASE Probe
  <2>1. /\ UNCHANGED <<snap, edge, req, build, admin, raced>>
        /\ truth'.edit = truth.edit
    BY <1>4 DEF Probe, ServingTypeOK, Data
  <2>2. QED
    BY <2>1 DEF Cleared, SnapshotCleared, EdgeCleared, SnapCurrent, EdgeCurrent,
                OldBuild, OldRequest, OldWork
<1>5. CASE Edit
  BY <1>5 DEF Edit, Cleared, SnapshotCleared, EdgeCleared
<1>6. CASE ClearSnapshot
  <2>1. PICK b \in Builders : build' = [build EXCEPT ![b] = [at |-> "start"]]
    BY <1>6 DEF ClearSnapshot
  <2>2. \A c \in Builders : build'[c] = IF c = b THEN [at |-> "start"] ELSE build[c]
    BY <2>1 DEF ServingTypeOK
  <2>3. truth' = truth /\ admin' = "edge"
    BY <1>6 DEF ClearSnapshot, AfterSnapshot
  <2>4. OldBuild' => OldBuild
    BY <2>2, <2>3 DEF OldBuild, OldWork
  <2>5. raced' \/ (snap' = NoSnap /\ (raced' <=> OldBuild))
    BY <1>6 DEF ClearSnapshot
  <2>6. SnapshotCleared'
    BY <2>4, <2>5 DEF SnapshotCleared, SnapCurrent, NoSnap
  <2>7. EdgeCleared'
    BY <2>3 DEF EdgeCleared
  <2>8. QED
    BY <2>6, <2>7 DEF Cleared
<1>7. CASE ClearEdge
  <2>1. /\ UNCHANGED <<truth, snap, req, build>>
        /\ edge' = NoEdge /\ admin = "edge"
        /\ raced' <=> (raced \/ OldRequest)
    BY <1>7 DEF ClearEdge
  <2>2. SnapshotCleared'
    BY <2>1 DEF Cleared, SnapshotCleared, SnapCurrent, OldBuild, OldWork
  <2>3. OldRequest' <=> OldRequest
    BY <2>1 DEF OldRequest, OldWork
  <2>4. EdgeCleared'
    BY <2>1, <2>3 DEF EdgeCleared, EdgeCurrent, NoEdge
  <2>5. QED
    BY <2>2, <2>4 DEF Cleared
<1>8. CASE ClearDies
  BY <1>8 DEF ClearDies, Cleared, SnapshotCleared, EdgeCleared
<1>9. CASE SnapshotAges \/ EdgeExpires
  <2>1. /\ UNCHANGED <<truth, req, build, admin, raced>>
        /\ snap' = snap \/ (snap.there /\ snap'.data = snap.data)
        /\ edge' = edge \/ edge' = NoEdge
    BY <1>9, ValueFacts DEF SnapshotAges, EdgeExpires, ServingTypeOK
  <2>2. QED
    BY <2>1 DEF Cleared, SnapshotCleared, EdgeCleared, SnapCurrent, EdgeCurrent,
                OldBuild, OldRequest, OldWork, NoEdge
<1>10. CASE UNCHANGED servingVars
  BY <1>10 DEF servingVars, Cleared, SnapshotCleared, EdgeCleared, SnapCurrent, EdgeCurrent,
               OldBuild, OldRequest, OldWork
<1>11. QED
  BY <1>1, <1>2, <1>3, <1>4, <1>5, <1>6, <1>7, <1>8, <1>9, <1>10 DEF ServingNext

\* After an edit neither cache serves what the edit replaced, for any number
\* of requests and builds, unless the clearing met one that had read before
\* the edit, or failed (routes.js:665-685).
THEOREM EditsReachEverybody == ServingSpec => []ClearedIsCurrent
<1>1. ServingInit => Cleared
  BY DEF ServingInit, Cleared, SnapshotCleared, EdgeCleared, SnapCurrent, EdgeCurrent,
         NoSnap, NoEdge, OldBuild, OldRequest, OldWork, Resting
<1>2. ServingTypeOK /\ ServingTypeOK' /\ Cleared /\ [ServingNext]_servingVars => Cleared'
  BY ClearedStep
<1>3. Cleared => ClearedIsCurrent
  BY DEF Cleared, SnapshotCleared, EdgeCleared, ClearedIsCurrent, Current
<1>4. QED
  BY <1>1, <1>2, <1>3, ServingTypeCorrect, PTL DEF ServingSpec

-----------------------------------------------------------------------------
(***************************************************************************)
(* TrafficAccounting: its types, what the counters of a period hold, and   *)
(* what a rebuild leaves.                                                  *)
(***************************************************************************)

(***************************************************************************)
(* Sums over days.  SumDays is a fold; what the proofs use of it is that   *)
(* the sum of a set is any member's share and the sum of the others.       *)
(***************************************************************************)
LEMMA LeastOf ==
    ASSUME NEW T, T \subseteq Nat, T # {}
    PROVE  \E m \in T : \A k \in T : m <= k
<1> DEFINE Less == {ss \in Nat \X Nat : ss[1] < ss[2]}
<1>1. IsWellFoundedOn(Less, Nat)
  BY NatLessThanWellFounded DEF OpToRel
<1>2. PICK m \in T : \A k \in T : ~(<<k, m>> \in Less)
  <2> HIDE DEF Less
  <2> QED
    BY <1>1, WFMin
<1>3. ASSUME NEW k \in T
      PROVE  m <= k
  <2>1. ~(<<k, m>> \in Less) /\ k \in Nat /\ m \in Nat
    BY <1>2
  <2>2. ~(k < m)
    BY <2>1
  <2> QED
    BY <2>1, <2>2
<1> QED
  BY <1>2, <1>3

\* A set of finite sets that is not empty has one of least cardinality.
LEMMA LeastSet ==
    ASSUME NEW U, U # {}, \A s \in U : IsFiniteSet(s)
    PROVE  \E s \in U : \A t \in U : ~(Cardinality(t) < Cardinality(s))
<1> DEFINE T == {Cardinality(s) : s \in U}
<1>1. \A s \in U : Cardinality(s) \in Nat
  BY FS_CardinalityType
<1>2. T \subseteq Nat /\ T # {}
  BY <1>1
<1>3. PICK m \in T : \A k \in T : m <= k
  <2> HIDE DEF T
  <2> QED
    BY <1>2, LeastOf
<1>4. PICK s \in U : m = Cardinality(s)
  BY <1>3
<1>5. ASSUME NEW t \in U
      PROVE  ~(Cardinality(t) < Cardinality(s))
  <2>1. m <= Cardinality(t) /\ Cardinality(t) \in Nat /\ Cardinality(s) \in Nat
    BY <1>1, <1>3
  <2> QED
    BY <2>1, <1>4
<1> QED
  BY <1>5

AnyOf(s) == CHOOSE x \in s : TRUE
Folded(f, S, g) == g = [s \in SUBSET S |-> IF s = {} THEN 0 ELSE f[AnyOf(s)] + g[s \ {AnyOf(s)}]]
Total(f, S) == (CHOOSE g : Folded(f, S, g))[S]

LEMMA SumIsTotal ==
    ASSUME NEW f, NEW S
    PROVE  MapThenSumSet(LAMBDA d : f[d], S) = Total(f, S)
  BY DEF MapThenSumSet, MapThenFoldSet, Total, Folded, AnyOf

LEMMA SumDaysIsTotal ==
    ASSUME NEW days
    PROVE  SumDays(days) = Total(daily, days \cap DOMAIN daily)
  BY SumIsTotal DEF SumDays

LEMMA Smaller ==
    ASSUME NEW s, IsFiniteSet(s), NEW x \in s
    PROVE  /\ IsFiniteSet(s \ {x})
           /\ Cardinality(s \ {x}) = Cardinality(s) - 1
           /\ Cardinality(s \ {x}) < Cardinality(s)
<1>1. IsFiniteSet(s \ {x}) /\ Cardinality(s \ {x}) = Cardinality(s) - 1
  BY FS_RemoveElement
<1>2. Cardinality(s) \in Nat
  BY FS_CardinalityType
<1> QED
  BY <1>1, <1>2

\* Two such functions agree where both are defined.
LEMMA FoldsAgree ==
    ASSUME NEW f, NEW S, NEW T, NEW g, NEW h, Folded(f, S, g), Folded(f, T, h),
           NEW s \in SUBSET S, s \in SUBSET T, IsFiniteSet(s)
    PROVE  g[s] = h[s]
<1> DEFINE U == {t \in SUBSET s : g[t] # h[t]}
<1>1. ASSUME U # {}
      PROVE  FALSE
  <2>1. \A t \in U : IsFiniteSet(t)
    BY FS_Subset
  <2>2. PICK t \in U : \A r \in U : ~(Cardinality(r) < Cardinality(t))
    <3> HIDE DEF U
    <3> QED
      BY <1>1, <2>1, LeastSet
  <2>3. t \subseteq S /\ t \subseteq T /\ IsFiniteSet(t) /\ g[t] # h[t]
    BY <2>1
  <2>4. t # {}
    BY <2>3 DEF Folded
  <2>5. AnyOf(t) \in t
    BY <2>4 DEF AnyOf
  <2>6. g[t \ {AnyOf(t)}] = h[t \ {AnyOf(t)}]
    <3>1. Cardinality(t \ {AnyOf(t)}) < Cardinality(t)
      BY <2>3, <2>5, Smaller
    <3>2. t \ {AnyOf(t)} \in SUBSET s
      OBVIOUS
    <3> QED
      BY <2>2, <3>1, <3>2
  <2>7. g[t] = f[AnyOf(t)] + g[t \ {AnyOf(t)}]
    BY <2>3, <2>4 DEF Folded
  <2>8. h[t] = f[AnyOf(t)] + h[t \ {AnyOf(t)}]
    BY <2>3, <2>4 DEF Folded
  <2> QED
    BY <2>3, <2>6, <2>7, <2>8
<1> QED
  BY <1>1

LEMMA FoldExists ==
    ASSUME NEW f, NEW S, IsFiniteSet(S)
    PROVE  \E g : Folded(f, S, g)
<1> DEFINE U == {t \in SUBSET S : ~ \E g : Folded(f, t, g)}
<1>1. ASSUME U # {}
      PROVE  FALSE
  <2>1. \A t \in U : IsFiniteSet(t)
    BY FS_Subset
  <2>2. PICK t \in U : \A r \in U : ~(Cardinality(r) < Cardinality(t))
    <3> HIDE DEF U
    <3> QED
      BY <1>1, <2>1, LeastSet
  <2>3. IsFiniteSet(t)
    BY <2>1
  <2>4. ASSUME NEW s \in SUBSET t, s # t
        PROVE  IsFiniteSet(s) /\ Folded(f, s, CHOOSE g : Folded(f, s, g))
    <3>1. PICK x \in t : x \notin s
      BY <2>4
    <3>2. /\ IsFiniteSet(t \ {x}) /\ Cardinality(t \ {x}) \in Nat
          /\ Cardinality(t \ {x}) < Cardinality(t) /\ Cardinality(t) \in Nat
      BY <2>3, Smaller, FS_CardinalityType
    <3>3. s \subseteq t \ {x}
      BY <3>1
    <3>4. /\ IsFiniteSet(s) /\ Cardinality(s) \in Nat
          /\ Cardinality(s) <= Cardinality(t \ {x})
      BY <3>2, <3>3, FS_Subset, FS_CardinalityType
    <3>5. Cardinality(s) < Cardinality(t)
      BY <3>2, <3>4
    <3>6. \E g : Folded(f, s, g)
      BY <2>2, <3>5
    <3> QED
      BY <3>4, <3>6
  <2> DEFINE v(s) == IF s = {} THEN 0 ELSE f[AnyOf(s)] + Total(f, s \ {AnyOf(s)})
             g == [s \in SUBSET t |-> v(s)]
  <2>5. ASSUME NEW s \in SUBSET t, s # t
        PROVE  Total(f, s) = v(s)
    <3>1. PICK h : h = CHOOSE k : Folded(f, s, k)
      OBVIOUS
    <3>2. Folded(f, s, h) /\ Total(f, s) = h[s]
      BY <3>1, <2>4, <2>5 DEF Total
    <3>3. CASE s = {}
      BY <3>2, <3>3 DEF Folded
    <3>4. CASE s # {}
      <4>1. AnyOf(s) \in s
        BY <3>4 DEF AnyOf
      <4> DEFINE r == s \ {AnyOf(s)}
      <4>2. h[s] = f[AnyOf(s)] + h[r]
        BY <3>2, <3>4 DEF Folded
      <4>3. r \in SUBSET t /\ r # t /\ r \in SUBSET s
        BY <4>1
      <4>4. PICK k : k = CHOOSE j : Folded(f, r, j)
        OBVIOUS
      <4>5. Folded(f, r, k) /\ Total(f, r) = k[r] /\ IsFiniteSet(r)
        BY <4>3, <4>4, <2>4 DEF Total
      <4>6. h[r] = k[r]
        BY <3>2, <4>3, <4>5, FoldsAgree
      <4> QED
        BY <3>2, <3>4, <4>2, <4>5, <4>6
    <3> QED
      BY <3>3, <3>4
  <2>6. Folded(f, t, g)
    <3>1. ASSUME NEW s \in SUBSET t
          PROVE  v(s) = IF s = {} THEN 0 ELSE f[AnyOf(s)] + g[s \ {AnyOf(s)}]
      <4>1. CASE s = {}
        BY <4>1
      <4>2. CASE s # {}
        <5>1. AnyOf(s) \in s
          BY <4>2 DEF AnyOf
        <5>2. s \ {AnyOf(s)} \in SUBSET t /\ s \ {AnyOf(s)} # t
          BY <5>1
        <5>3. g[s \ {AnyOf(s)}] = v(s \ {AnyOf(s)})
          BY <5>2
        <5>4. Total(f, s \ {AnyOf(s)}) = v(s \ {AnyOf(s)})
          BY <2>5, <5>2
        <5>5. v(s) = f[AnyOf(s)] + Total(f, s \ {AnyOf(s)})
          BY <4>2
        <5> HIDE DEF g, v
        <5> QED
          BY <4>2, <5>3, <5>4, <5>5
      <4> QED
        BY <4>1, <4>2
    <3>2. g = [s \in SUBSET t |-> IF s = {} THEN 0 ELSE f[AnyOf(s)] + g[s \ {AnyOf(s)}]]
      BY <3>1
    <3> QED
      BY <3>2 DEF Folded
  <2> HIDE DEF g
  <2> QED
    BY <2>2, <2>6
<1> QED
  BY <1>1

LEMMA TotalOfNone ==
    ASSUME NEW f
    PROVE  Total(f, {}) = 0
<1>1. IsFiniteSet({})
  BY FS_EmptySet
<1>2. PICK h : h = CHOOSE g : Folded(f, {}, g)
  OBVIOUS
<1>3. Folded(f, {}, h) /\ Total(f, {}) = h[{}]
  BY <1>1, <1>2, FoldExists DEF Total
<1> QED
  BY <1>3 DEF Folded

LEMMA TotalOfSome ==
    ASSUME NEW f, NEW S, IsFiniteSet(S), S # {}
    PROVE  AnyOf(S) \in S /\ Total(f, S) = f[AnyOf(S)] + Total(f, S \ {AnyOf(S)})
<1>1. AnyOf(S) \in S
  BY DEF AnyOf
<1> DEFINE r == S \ {AnyOf(S)}
<1>2. IsFiniteSet(r) /\ r \in SUBSET S /\ r \in SUBSET r
  BY <1>1, Smaller
<1>3. PICK h : h = CHOOSE g : Folded(f, S, g)
  OBVIOUS
<1>4. PICK k : k = CHOOSE g : Folded(f, r, g)
  OBVIOUS
<1>5. Folded(f, S, h) /\ Total(f, S) = h[S]
  BY <1>3, FoldExists DEF Total
<1>6. Folded(f, r, k) /\ Total(f, r) = k[r]
  BY <1>2, <1>4, FoldExists DEF Total
<1>7. h[r] = k[r]
  BY <1>2, <1>5, <1>6, FoldsAgree
<1>8. h[S] = f[AnyOf(S)] + h[r]
  BY <1>5 DEF Folded
<1> QED
  BY <1>1, <1>5, <1>6, <1>7, <1>8

LEMMA TotalIsNat ==
    ASSUME NEW f, NEW S, IsFiniteSet(S), \A x \in S : f[x] \in Nat
    PROVE  Total(f, S) \in Nat
<1> DEFINE U == {t \in SUBSET S : Total(f, t) \notin Nat}
<1>1. ASSUME U # {}
      PROVE  FALSE
  <2>1. \A t \in U : IsFiniteSet(t)
    BY FS_Subset
  <2>2. PICK t \in U : \A r \in U : ~(Cardinality(r) < Cardinality(t))
    <3> HIDE DEF U
    <3> QED
      BY <1>1, <2>1, LeastSet
  <2>3. IsFiniteSet(t) /\ t \subseteq S /\ Total(f, t) \notin Nat
    BY <2>1
  <2>4. t # {}
    BY <2>3, TotalOfNone
  <2>5. AnyOf(t) \in t /\ Total(f, t) = f[AnyOf(t)] + Total(f, t \ {AnyOf(t)})
    BY <2>3, <2>4, TotalOfSome
  <2>6. Total(f, t \ {AnyOf(t)}) \in Nat
    <3>1. Cardinality(t \ {AnyOf(t)}) < Cardinality(t)
      BY <2>3, <2>5, Smaller
    <3>2. t \ {AnyOf(t)} \in SUBSET S
      BY <2>3
    <3> QED
      BY <2>2, <3>1, <3>2
  <2>7. f[AnyOf(t)] \in Nat
    BY <2>3, <2>5
  <2> QED
    BY <2>3, <2>5, <2>6, <2>7
<1> QED
  BY <1>1

\* The sum does not depend on the member that is taken out.
LEMMA TotalWithout ==
    ASSUME NEW f, NEW S, IsFiniteSet(S), \A y \in S : f[y] \in Nat, NEW x \in S
    PROVE  Total(f, S) = f[x] + Total(f, S \ {x})
<1> DEFINE Wrong(t) == \E y \in t : Total(f, t) # f[y] + Total(f, t \ {y})
           U == {t \in SUBSET S : Wrong(t)}
<1>1. ASSUME U # {}
      PROVE  FALSE
  <2>1. \A t \in U : IsFiniteSet(t)
    BY FS_Subset
  <2>2. PICK t \in U : \A r \in U : ~(Cardinality(r) < Cardinality(t))
    <3> HIDE DEF U
    <3> QED
      BY <1>1, <2>1, LeastSet
  <2>3. IsFiniteSet(t) /\ t \subseteq S
    BY <2>1
  <2>4. PICK y \in t : Total(f, t) # f[y] + Total(f, t \ {y})
    BY <2>2
  <2> DEFINE z == AnyOf(t)
  <2>5. z \in t /\ Total(f, t) = f[z] + Total(f, t \ {z})
    BY <2>3, <2>4, TotalOfSome
  <2>6. z # y
    BY <2>4, <2>5
  <2> HIDE DEF z
  <2>7. \A p \in t : \A q \in t \ {p} : Total(f, t \ {p}) = f[q] + Total(f, (t \ {p}) \ {q})
    <3>1. SUFFICES ASSUME NEW p \in t, NEW q \in t \ {p}
                   PROVE  Total(f, t \ {p}) = f[q] + Total(f, (t \ {p}) \ {q})
      OBVIOUS
    <3>2. Cardinality(t \ {p}) < Cardinality(t)
      BY <2>3, Smaller
    <3>3. t \ {p} \in SUBSET S
      BY <2>3
    <3>4. ~Wrong(t \ {p})
      BY <2>2, <3>2, <3>3
    <3> QED
      BY <3>4
  <2>8. Total(f, t \ {z}) = f[y] + Total(f, (t \ {z}) \ {y})
    BY <2>4, <2>5, <2>6, <2>7
  <2>9. Total(f, t \ {y}) = f[z] + Total(f, (t \ {y}) \ {z})
    BY <2>4, <2>5, <2>6, <2>7
  <2>10. (t \ {z}) \ {y} = (t \ {y}) \ {z}
    OBVIOUS
  <2> DEFINE rest == (t \ {y}) \ {z}
  <2>11. IsFiniteSet(rest) /\ \A r \in rest : f[r] \in Nat
    BY <2>3, FS_Subset
  <2>12. Total(f, rest) \in Nat
    <3> HIDE DEF rest
    <3> QED
      BY <2>11, TotalIsNat
  <2>13. f[y] \in Nat /\ f[z] \in Nat
    BY <2>3, <2>5
  <2> HIDE DEF rest
  <2>14. Total(f, t \ {z}) = f[y] + Total(f, rest) /\ Total(f, t \ {y}) = f[z] + Total(f, rest)
    BY <2>8, <2>9, <2>10 DEF rest
  <2> QED
    BY <2>4, <2>5, <2>12, <2>13, <2>14
<1> QED
  BY <1>1

LEMMA TotalOfSame ==
    ASSUME NEW f, NEW g, NEW S, IsFiniteSet(S), \A x \in S : f[x] = g[x]
    PROVE  Total(f, S) = Total(g, S)
<1> DEFINE U == {t \in SUBSET S : Total(f, t) # Total(g, t)}
<1>1. ASSUME U # {}
      PROVE  FALSE
  <2>1. \A t \in U : IsFiniteSet(t)
    BY FS_Subset
  <2>2. PICK t \in U : \A r \in U : ~(Cardinality(r) < Cardinality(t))
    <3> HIDE DEF U
    <3> QED
      BY <1>1, <2>1, LeastSet
  <2>3. IsFiniteSet(t) /\ t \subseteq S /\ Total(f, t) # Total(g, t)
    BY <2>1
  <2>4. t # {}
    BY <2>3, TotalOfNone
  <2>5. /\ AnyOf(t) \in t /\ Total(f, t) = f[AnyOf(t)] + Total(f, t \ {AnyOf(t)})
        /\ Total(g, t) = g[AnyOf(t)] + Total(g, t \ {AnyOf(t)})
    BY <2>3, <2>4, TotalOfSome
  <2>6. Total(f, t \ {AnyOf(t)}) = Total(g, t \ {AnyOf(t)})
    <3>1. Cardinality(t \ {AnyOf(t)}) < Cardinality(t)
      BY <2>3, <2>5, Smaller
    <3>2. t \ {AnyOf(t)} \in SUBSET S
      BY <2>3
    <3> QED
      BY <2>2, <3>1, <3>2
  <2>7. f[AnyOf(t)] = g[AnyOf(t)]
    BY <2>3, <2>5
  <2> QED
    BY <2>3, <2>5, <2>6, <2>7
<1> QED
  BY <1>1

(***************************************************************************)
(* Tables with a row more, and what that does to sums.                     *)
(***************************************************************************)
Days(f) == IsFiniteSet(DOMAIN f) /\ \A d \in DOMAIN f : f[d] \in Nat

LEMMA TotalOfDays ==
    ASSUME NEW f, Days(f), NEW P
    PROVE  Total(f, P \cap DOMAIN f) \in Nat
<1>1. IsFiniteSet(P \cap DOMAIN f) /\ \A d \in P \cap DOMAIN f : f[d] \in Nat
  BY FS_Subset, P \cap DOMAIN f \subseteq DOMAIN f DEF Days
<1> QED
  BY <1>1, TotalIsNat

LEMMA TotalOfOne ==
    ASSUME NEW f, Days(f), NEW d
    PROVE  Total(f, {d} \cap DOMAIN f) = IF d \in DOMAIN f THEN f[d] ELSE 0
<1>1. CASE d \in DOMAIN f
  <2>1. {d} \cap DOMAIN f = {d} /\ {d} \ {d} = {} /\ f[d] \in Nat
    BY <1>1 DEF Days
  <2>2. IsFiniteSet({d}) /\ (\A y \in {d} : f[y] \in Nat) /\ d \in {d}
    BY <2>1, FS_Singleton
  <2>3. Total(f, {d}) = f[d] + Total(f, {d} \ {d})
    BY <2>2, TotalWithout
  <2> QED
    BY <1>1, <2>1, <2>3, TotalOfNone
<1>2. CASE d \notin DOMAIN f
  <2>1. {d} \cap DOMAIN f = {}
    BY <1>2
  <2> QED
    BY <1>2, <2>1, TotalOfNone
<1> QED
  BY <1>1, <1>2

\* A day that ends adds its bytes to every period it lies in.
TotalsWith(g, f, d, v) ==
    /\ DOMAIN g = DOMAIN f \cup {d}
    /\ \A P : d \in P => Total(g, P \cap DOMAIN g) = Total(f, P \cap DOMAIN f) + v
    /\ \A P : d \notin P => Total(g, P \cap DOMAIN g) = Total(f, P \cap DOMAIN f)

LEMMA TotalWithDay ==
    ASSUME NEW f, Days(f), NEW d, d \notin DOMAIN f, NEW v \in Nat,
           NEW g, g = With(f, d, v)
    PROVE  TotalsWith(g, f, d, v)
<1>1. /\ DOMAIN g = DOMAIN f \cup {d}
      /\ g[d] = v
      /\ \A x \in DOMAIN f : g[x] = f[x]
  BY DEF With
<1>2. Days(g)
  <2>1. IsFiniteSet(DOMAIN f \cup {d})
    BY FS_AddElement DEF Days
  <2>2. DOMAIN f \cup {d} = DOMAIN g
    BY <1>1
  <2> QED
    BY <1>1, <2>1, <2>2 DEF Days
<1>3. ASSUME NEW P
      PROVE  /\ d \in P => Total(g, P \cap DOMAIN g) = Total(f, P \cap DOMAIN f) + v
             /\ d \notin P => Total(g, P \cap DOMAIN g) = Total(f, P \cap DOMAIN f)
  <2> DEFINE old == P \cap DOMAIN f
             new == P \cap DOMAIN g
  <2>1. IsFiniteSet(old) /\ IsFiniteSet(new) /\ (\A x \in new : g[x] \in Nat)
    BY <1>2, FS_Subset, old \subseteq DOMAIN f, new \subseteq DOMAIN g DEF Days
  <2>2. Total(g, old) = Total(f, old)
    <3>1. \A x \in old : f[x] = g[x]
      BY <1>1
    <3> HIDE DEF old
    <3> QED
      BY <2>1, <3>1, TotalOfSame
  <2>3. CASE d \in P
    <3>1. d \in new /\ new \ {d} = old
      BY <1>1, <2>3
    <3>2. Total(g, new) = g[d] + Total(g, new \ {d})
      <4> HIDE DEF new
      <4> QED
        BY <2>1, <3>1, TotalWithout
    <3>3. Total(f, old) \in Nat
      BY TotalOfDays
    <3> HIDE DEF new, old
    <3>4. Total(g, new) = v + Total(f, old)
      BY <1>1, <2>2, <3>1, <3>2
    <3>5. Total(g, new) = Total(f, old) + v
      BY <3>3, <3>4
    <3> QED
      BY <1>1, <1>2, <2>3, <3>5 DEF new, old
  <2>4. CASE d \notin P
    <3>1. new = old
      BY <1>1, <2>4
    <3> QED
      BY <1>1, <1>2, <2>2, <2>4, <3>1
  <2> QED
    BY <2>3, <2>4
<1> QED
  BY <1>1, <1>3 DEF TotalsWith

(***************************************************************************)
(* Days and periods.                                                       *)
(***************************************************************************)
LEMMA Division ==
    ASSUME NEW a \in Int, NEW n \in Nat \ {0}
    PROVE  a \div n \in Int /\ n * (a \div n) <= a /\ a < n * (a \div n) + n
  OBVIOUS

LEMMA Multiples ==
    ASSUME NEW n \in Nat \ {0}, NEW q \in Int, NEW r \in Int, q < r
    PROVE  n * q \in Int /\ n * r \in Int /\ n * q + n <= n * r
<1>1. PICK k \in Nat : r = q + 1 + k
  <2>1. r - q - 1 \in Nat
    OBVIOUS
  <2> QED
    BY <2>1
<1>2. n * r = n * q + n + n * k /\ n * k \in Nat /\ n * q \in Int
  BY <1>1
<1> QED
  BY <1>2

LEMMA DivisionMonotone ==
    ASSUME NEW a \in Int, NEW b \in Int, NEW n \in Nat \ {0}, a <= b
    PROVE  a \div n <= b \div n
<1>1. /\ a \div n \in Int /\ n * (a \div n) <= a
      /\ b \div n \in Int /\ b < n * (b \div n) + n
  BY Division
<1>2. CASE b \div n < a \div n
  <2> DEFINE q == b \div n
             r == a \div n
  <2> HIDE DEF q, r
  <2>1. n * q \in Int /\ n * r \in Int /\ n * q + n <= n * r
    BY <1>1, <1>2, Multiples DEF q, r
  <2>2. n * r <= a /\ b < n * q + n
    BY <1>1 DEF q, r
  <2> QED
    BY <2>1, <2>2
<1> QED
  BY <1>1, <1>2

LEMMA DayIsNat ==
    ASSUME NEW t \in Nat
    PROVE  Day(t) \in Nat
<1>1. DayLength \in Nat \ {0}
  BY TrafficAssumption
<1> DEFINE q == t \div DayLength
<1>2. q \in Int /\ DayLength * q <= t /\ t < DayLength * q + DayLength
  BY <1>1, Division
<1>3. CASE q < 0
  <2> HIDE DEF q
  <2>1. DayLength * q + DayLength <= DayLength * 0 /\ DayLength * q \in Int
    BY <1>1, <1>2, <1>3, Multiples
  <2>2. DayLength * 0 = 0
    BY <1>1
  <2> QED
    BY <1>1, <1>2, <2>1, <2>2
<1> QED
  BY <1>2, <1>3 DEF Day

LEMMA LaterDay ==
    ASSUME NEW s \in Nat, NEW t \in Nat, s <= t
    PROVE  Day(s) <= Day(t)
  BY TrafficAssumption, DivisionMonotone DEF Day

LEMMA PeriodOfDay ==
    ASSUME NEW d \in Int, NEW r \in Int
    PROVE  /\ Period(d, r) \in Int
           /\ Period(d, r) <= d /\ d < Period(d, r) + PeriodLength
<1>1. PeriodLength \in Nat \ {0} /\ d - r \in Int
  BY TrafficAssumption
<1> DEFINE q == (d - r) \div PeriodLength
<1>2. q \in Int /\ PeriodLength * q <= d - r /\ d - r < PeriodLength * q + PeriodLength
  BY <1>1, Division
<1>3. PeriodLength * q \in Int
  BY <1>1, <1>2
<1> DEFINE p == PeriodLength * q
<1>4. Period(d, r) = r + p
  BY DEF Period
<1> HIDE DEF p, q
<1>5. p \in Int /\ p <= d - r /\ d - r < p + PeriodLength
  BY <1>2, <1>3 DEF p
<1> QED
  BY <1>1, <1>4, <1>5

LEMMA LaterPeriod ==
    ASSUME NEW a \in Int, NEW b \in Int, NEW r \in Int, a <= b
    PROVE  /\ Period(a, r) <= Period(b, r)
           /\ Period(a, r) # Period(b, r) => Period(a, r) + PeriodLength <= Period(b, r)
<1>1. PeriodLength \in Nat \ {0} /\ a - r \in Int /\ b - r \in Int /\ a - r <= b - r
  BY TrafficAssumption
<1> DEFINE q == (a - r) \div PeriodLength
           s == (b - r) \div PeriodLength
<1>2. q \in Int /\ s \in Int /\ q <= s
  BY <1>1, Division, DivisionMonotone
<1>3. Period(a, r) = r + PeriodLength * q /\ Period(b, r) = r + PeriodLength * s
  BY DEF Period
<1> HIDE DEF q, s
<1>4. CASE q = s
  <2>1. PeriodLength * q \in Int
    BY <1>1, <1>2
  <2> QED
    BY <1>3, <1>4, <2>1
<1>5. CASE q < s
  <2>1. /\ PeriodLength * q \in Int /\ PeriodLength * s \in Int
        /\ PeriodLength * q + PeriodLength <= PeriodLength * s
    BY <1>1, <1>2, <1>5, Multiples
  <2> DEFINE x == PeriodLength * q
             y == PeriodLength * s
  <2>2. Period(a, r) = r + x /\ Period(b, r) = r + y
    BY <1>3
  <2> HIDE DEF x, y
  <2>3. x \in Int /\ y \in Int /\ x + PeriodLength <= y
    BY <2>1 DEF x, y
  <2> QED
    BY <1>1, <2>2, <2>3
<1> QED
  BY <1>2, <1>4, <1>5

(***************************************************************************)
(* The newest row.                                                         *)
(***************************************************************************)
LatestIn(t) ==
    IF DOMAIN t = {} THEN NoRow
    ELSE CHOOSE r \in {t[m] : m \in DOMAIN t} : \A m \in DOMAIN t : NewerRow(r, t[m])

RowsOf(t) ==
    IsFiniteSet(DOMAIN t) /\ \A m \in DOMAIN t : t[m] \in RowType /\ t[m].month = m

LEMMA LatestIsLatestIn == Latest = LatestIn(rows) /\ Latest' = LatestIn(rows')
  BY DEF Latest, LatestIn

LEMMA NoRowTyped == NoRow \in RowType /\ NoRow.day = -1 /\ NoRow.last = NoBaseline
                    /\ NoRow.month = -1 /\ NoRow.rx = 0 /\ NoRow.dayRx = 0 /\ NoRow.upd = 0
  BY DEF NoRow, RowType, NoBaseline

\* Rows are ordered by the time of their update, then by their month.
LEMMA NewestExists ==
    ASSUME NEW t, RowsOf(t), DOMAIN t # {}
    PROVE  \E m \in DOMAIN t : LatestIn(t) = t[m] /\ \A k \in DOMAIN t : NewerRow(t[m], t[k])
<1> DEFINE Better(m) == {k \in DOMAIN t : ~NewerRow(t[m], t[k])}
           U == {Better(m) : m \in DOMAIN t}
<1>1. \A s \in U : IsFiniteSet(s)
  BY FS_Subset DEF RowsOf
<1>2. U # {}
  OBVIOUS
<1>3. PICK s \in U : \A r \in U : ~(Cardinality(r) < Cardinality(s))
  <2> HIDE DEF U
  <2> QED
    BY <1>1, <1>2, LeastSet
<1>4. PICK m \in DOMAIN t : s = Better(m)
  BY <1>3
<1>5. ASSUME NEW k \in Better(m)
      PROVE  FALSE
  <2>1. k \in DOMAIN t /\ ~NewerRow(t[m], t[k])
    BY <1>5
  <2>2. /\ t[m].upd \in Nat /\ t[m].month \in Int
        /\ t[k].upd \in Nat /\ t[k].month \in Int
    BY <2>1 DEF RowsOf, RowType
  <2>3. NewerRow(t[k], t[k])
    BY <2>2 DEF NewerRow
  <2>4. ASSUME NEW j \in DOMAIN t, NewerRow(t[m], t[j])
        PROVE  NewerRow(t[k], t[j])
    <3>1. t[j].upd \in Nat /\ t[j].month \in Int
      BY DEF RowsOf, RowType
    <3> QED
      BY <2>1, <2>2, <2>4, <3>1 DEF NewerRow
  <2>5. Better(k) \subseteq Better(m) \ {k}
    BY <2>1, <2>3, <2>4
  <2>6. IsFiniteSet(Better(m)) /\ Better(k) \in U
    BY <1>1, <2>1
  <2> DEFINE x == Better(m)
             y == Better(k)
  <2> HIDE DEF U, x, y, Better
  <2>7. IsFiniteSet(x \ {k}) /\ Cardinality(x \ {k}) < Cardinality(x)
    BY <1>5, <2>6, Smaller DEF x
  <2>8. /\ IsFiniteSet(y) /\ Cardinality(y) <= Cardinality(x \ {k})
    BY <2>5, <2>7, FS_Subset DEF x, y
  <2>9. Cardinality(x) \in Nat /\ Cardinality(x \ {k}) \in Nat /\ Cardinality(y) \in Nat
    BY <2>6, <2>7, <2>8, FS_CardinalityType DEF x
  <2>10. Cardinality(y) < Cardinality(x)
    BY <2>7, <2>8, <2>9
  <2> QED
    BY <1>3, <1>4, <2>6, <2>10 DEF x, y
<1>6. \A k \in DOMAIN t : NewerRow(t[m], t[k])
  BY <1>5
<1> DEFINE R == {t[k] : k \in DOMAIN t}
           Q(r) == \A k \in DOMAIN t : NewerRow(r, t[k])
<1>7. t[m] \in R /\ Q(t[m])
  BY <1>6
<1>8. LatestIn(t) = CHOOSE r \in R : Q(r)
  BY DEF LatestIn
<1> HIDE DEF R, Q
<1>9. LatestIn(t) \in R /\ Q(LatestIn(t))
  BY <1>7, <1>8
<1> QED
  BY <1>9 DEF R, Q

LEMMA LatestTyped ==
    ASSUME NEW t, RowsOf(t)
    PROVE  LatestIn(t) \in RowType
<1>1. CASE DOMAIN t = {}
  BY <1>1, NoRowTyped DEF LatestIn
<1>2. CASE DOMAIN t # {}
  <2>1. PICK m \in DOMAIN t : LatestIn(t) = t[m]
    BY <1>2, NewestExists
  <2> QED
    BY <2>1 DEF RowsOf
<1> QED
  BY <1>1, <1>2

\* A row that comes before every other in that order is the newest.
LEMMA LatestUnique ==
    ASSUME NEW t, RowsOf(t), NEW m \in DOMAIN t, \A k \in DOMAIN t : NewerRow(t[m], t[k])
    PROVE  LatestIn(t) = t[m]
<1>1. PICK n \in DOMAIN t : LatestIn(t) = t[n] /\ \A k \in DOMAIN t : NewerRow(t[n], t[k])
  BY NewestExists
<1>2. NewerRow(t[m], t[n]) /\ NewerRow(t[n], t[m])
  BY <1>1
<1>3. /\ t[m].upd \in Nat /\ t[n].upd \in Nat
      /\ t[m].month = m /\ t[n].month = n /\ t[m].month \in Int /\ t[n].month \in Int
  BY DEF RowsOf, RowType
<1>4. t[m].month = t[n].month
  BY <1>2, <1>3 DEF NewerRow
<1> QED
  BY <1>1, <1>3, <1>4

(***************************************************************************)
(* Types.  Beside TrafficTypeOK: nothing known carries a day that has not  *)
(* come, and every report received is counted once, as waiting or with the *)
(* writer that took it.                                                    *)
(***************************************************************************)
CounterReport == [ts : Nat, raw : Nat, sent : Nat]
WriterType ==
    [at : {"idle", "row", "latest", "daily", "update", "insert"}, report : CounterReport,
     month : Int, row : RowType, sum : Nat]
RebuildType(seen) ==
    [at : {"idle", "read", "daily", "write"}, ts : Nat, month : Int, latest : RowType,
     metric : Nat \cup {NoBaseline}, sum : Nat, seen : {seen}]

Numbers ==
    /\ clock \in Nat /\ resetDay \in ResetDays /\ counter \in 0..MaxCounter
    /\ transferred \in Nat /\ reports \in 0..MaxReports /\ reboots \in Nat /\ rebuilds \in Nat
    /\ base \in Nat \cup {NoBaseline} /\ raws \subseteq Nat
Waiting ==
    /\ pending \in Seq(CounterReport)
    /\ \A i \in 1..Len(pending) : pending[i].ts <= clock
RowsTyped ==
    /\ RowsOf(rows)
    /\ \A m \in DOMAIN rows : rows[m].day <= Day(clock)
DaysTyped ==
    /\ Days(daily)
    /\ \A d \in DOMAIN daily : daily[d] # 0 /\ d \in Int /\ d <= Day(clock)
WritersTyped ==
    /\ writers \in [Writers -> WriterType]
    /\ \A w \in Writers : writers[w].report.ts <= clock /\ writers[w].row.day <= Day(clock)
RebuildTyped ==
    /\ \E s : rebuild \in RebuildType(s)
    /\ rebuild.ts <= clock /\ rebuild.latest.day <= Day(clock)
BusyIn(ws) == {w \in Writers : ws[w].at # "idle"}
Counted ==
    /\ IsFiniteSet(BusyIn(writers))
    /\ Len(pending) + Cardinality(BusyIn(writers)) <= reports

TablesTyped == RowsTyped /\ DaysTyped
TrafficTyped == Numbers /\ Waiting /\ TablesTyped /\ WritersTyped /\ RebuildTyped /\ Counted

LEMMA TrafficInitTyped == TrafficInit => TrafficTyped
<1> SUFFICES ASSUME TrafficInit PROVE TrafficTyped
  OBVIOUS
<1>1. Numbers
  <2>1. PeriodLength * DayLength \in Nat
    BY TrafficAssumption
  <2> QED
    BY <2>1, TrafficAssumption DEF TrafficInit, Numbers, NoBaseline
<1>2. Waiting
  BY <1>1 DEF TrafficInit, Waiting
<1>3. rows = <<>> /\ daily = <<>> /\ DOMAIN rows = {} /\ DOMAIN daily = {}
  BY DEF TrafficInit
<1>4. TablesTyped
  BY <1>3, FS_EmptySet DEF TablesTyped, RowsTyped, DaysTyped, RowsOf, Days
<1>5. Day(clock) \in Nat
  BY <1>1, DayIsNat DEF Numbers
<1>6. WritersTyped
  BY <1>1, <1>5, NoRowTyped
  DEF TrafficInit, WritersTyped, WriterType, NoWriter, NoReport, CounterReport, Numbers
<1>7. RebuildTyped
  <2>1. rebuild \in RebuildType(NoTables)
    BY NoRowTyped DEF TrafficInit, RebuildType, NoRebuild
  <2>2. rebuild.ts = 0 /\ rebuild.latest = NoRow
    BY DEF TrafficInit, NoRebuild
  <2> QED
    BY <1>1, <1>5, <2>1, <2>2, NoRowTyped DEF RebuildTyped, Numbers
<1>8. Counted
  <2>1. BusyIn(writers) = {} /\ Len(pending) = 0 /\ reports = 0
    BY DEF TrafficInit, BusyIn, NoWriter
  <2> QED
    BY <2>1, FS_EmptySet DEF Counted
<1> QED
  BY <1>1, <1>2, <1>4, <1>6, <1>7, <1>8 DEF TrafficTyped

\* What a step leaves alone keeps its type.
LEMMA TablesKept ==
    ASSUME TablesTyped, UNCHANGED <<clock, rows, daily>>
    PROVE  TablesTyped'
  BY DEF TablesTyped, RowsTyped, DaysTyped, RowsOf, Days, Day

LEMMA WritersKept ==
    ASSUME WritersTyped, UNCHANGED <<clock, writers>>
    PROVE  WritersTyped'
  BY DEF WritersTyped, Day

LEMMA RebuildKept ==
    ASSUME RebuildTyped, UNCHANGED <<clock, rebuild>>
    PROVE  RebuildTyped'
  BY DEF RebuildTyped, Day

LEMMA WaitingKept ==
    ASSUME Waiting, UNCHANGED <<clock, pending>>
    PROVE  Waiting'
  BY DEF Waiting

LEMMA CountedKept ==
    ASSUME Counted, UNCHANGED <<pending, writers, reports>>
    PROVE  Counted'
<1>1. BusyIn(writers)' = BusyIn(writers)
  BY DEF BusyIn
<1> QED
  BY <1>1 DEF Counted

LEMMA TransferTyped ==
    ASSUME TrafficTyped, Transfer
    PROVE  TrafficTyped'
<1>1. Numbers'
  BY TrafficAssumption DEF TrafficTyped, Numbers, agent, history, Transfer
<1> QED
  BY <1>1, TablesKept, WritersKept, RebuildKept, WaitingKept, CountedKept
  DEF TrafficTyped, Transfer

LEMMA RebootTyped ==
    ASSUME TrafficTyped, Reboot
    PROVE  TrafficTyped'
<1>1. Numbers'
  BY TrafficAssumption DEF TrafficTyped, Numbers, agent, history, Reboot
<1> QED
  BY <1>1, TablesKept, WritersKept, RebuildKept, WaitingKept, CountedKept
  DEF TrafficTyped, Reboot

LEMMA TimeTyped ==
    ASSUME TrafficTyped, TimePasses
    PROVE  TrafficTyped'
<1>1. Numbers'
  BY DEF TrafficTyped, Numbers, agent, history, TimePasses
<1>2. clock \in Nat /\ clock' \in Nat /\ clock <= clock'
  BY <1>1 DEF TrafficTyped, Numbers, agent, history, TimePasses
<1>3. Day(clock) \in Int /\ Day(clock)' \in Int /\ Day(clock) <= Day(clock)'
  <2> DEFINE now == clock
             next == clock'
  <2>1. Day(now) \in Nat /\ Day(next) \in Nat /\ Day(now) <= Day(next)
    <3> HIDE DEF now, next
    <3>1. now \in Nat /\ next \in Nat /\ now <= next
      BY <1>2 DEF now, next
    <3> QED
      BY <3>1, DayIsNat, LaterDay
  <2> QED
    BY <2>1 DEF Day
<1>4. Waiting'
  <2>1. UNCHANGED pending /\ pending \in Seq(CounterReport)
    BY DEF TrafficTyped, Waiting, TimePasses
  <2>2. ASSUME NEW i \in 1..Len(pending)
        PROVE  pending[i].ts \in Nat /\ pending[i].ts <= clock
    <3>1. pending[i] \in CounterReport
      BY <2>1
    <3> QED
      BY <3>1 DEF TrafficTyped, Waiting, CounterReport
  <2>3. ASSUME NEW i \in 1..Len(pending)
        PROVE  pending[i].ts <= clock'
    <3>1. pending[i].ts \in Nat /\ pending[i].ts <= clock
      BY <2>2
    <3> QED
      BY <1>2, <3>1
  <2> QED
    BY <2>1, <2>3 DEF Waiting
<1>5. TablesTyped'
  <2>1. RowsTyped'
    <3>1. UNCHANGED rows /\ RowsOf(rows)
      BY DEF TrafficTyped, TablesTyped, RowsTyped, TimePasses
    <3>2. \A m \in DOMAIN rows : rows[m].day \in Int /\ rows[m].day <= Day(clock)
      BY DEF TrafficTyped, TablesTyped, RowsTyped, RowsOf, RowType
    <3>3. \A m \in DOMAIN rows : rows[m].day <= Day(clock)'
      BY <1>3, <3>2
    <3> QED
      BY <3>1, <3>3 DEF RowsTyped
  <2>2. DaysTyped'
    <3>1. UNCHANGED daily /\ Days(daily)
      BY DEF TrafficTyped, TablesTyped, DaysTyped, TimePasses
    <3>2. \A d \in DOMAIN daily : daily[d] # 0 /\ d \in Int /\ d <= Day(clock)
      BY DEF TrafficTyped, TablesTyped, DaysTyped
    <3>3. \A d \in DOMAIN daily : daily[d] # 0 /\ d \in Int /\ d <= Day(clock)'
      BY <1>3, <3>2
    <3> QED
      BY <3>1, <3>3 DEF DaysTyped
  <2> QED
    BY <2>1, <2>2 DEF TablesTyped
<1>6. WritersTyped'
  <2>1. UNCHANGED writers /\ writers \in [Writers -> WriterType]
    BY DEF TrafficTyped, WritersTyped, TimePasses
  <2>2. ASSUME NEW w \in Writers
        PROVE  writers[w].report.ts <= clock' /\ writers[w].row.day <= Day(clock)'
    <3>1. writers[w].report.ts \in Nat /\ writers[w].row.day \in Int
      BY <2>1 DEF WriterType, CounterReport, RowType
    <3>2. writers[w].report.ts <= clock /\ writers[w].row.day <= Day(clock)
      BY DEF TrafficTyped, WritersTyped
    <3> QED
      BY <1>2, <1>3, <3>1, <3>2
  <2> QED
    BY <2>1, <2>2 DEF WritersTyped
<1>7. RebuildTyped'
  <2>1. UNCHANGED rebuild
    BY DEF TimePasses
  <2>2. PICK s : rebuild \in RebuildType(s)
    BY DEF TrafficTyped, RebuildTyped
  <2>3. rebuild.ts \in Nat /\ rebuild.latest.day \in Int
    BY <2>2 DEF RebuildType, RowType
  <2>4. rebuild.ts <= clock /\ rebuild.latest.day <= Day(clock)
    BY DEF TrafficTyped, RebuildTyped
  <2>5. rebuild.ts <= clock' /\ rebuild.latest.day <= Day(clock)'
    BY <1>2, <1>3, <2>3, <2>4
  <2> QED
    BY <2>1, <2>2, <2>5 DEF RebuildTyped
<1>8. Counted'
  BY CountedKept DEF TrafficTyped, TimePasses
<1> QED
  BY <1>1, <1>4, <1>5, <1>6, <1>7, <1>8 DEF TrafficTyped

LEMMA ReportTyped ==
    ASSUME TrafficTyped, Report
    PROVE  TrafficTyped'
<1>1. Numbers'
  BY TrafficAssumption DEF TrafficTyped, Numbers, agent, history, Report
<1> DEFINE new == [ts |-> clock, raw |-> counter, sent |-> transferred]
<1>2. /\ pending \in Seq(CounterReport) /\ new \in CounterReport /\ pending' = Append(pending, new)
      /\ clock \in Nat /\ new.ts = clock
  BY DEF TrafficTyped, Numbers, Waiting, CounterReport, Report
<1>3. Waiting'
  <2> HIDE DEF new
  <2>1. /\ pending' \in Seq(CounterReport) /\ Len(pending') = Len(pending) + 1
        /\ \A i \in 1..Len(pending') :
              pending'[i] = IF i = Len(pending) + 1 THEN new ELSE pending[i]
    BY <1>2
  <2>2. Len(pending) \in Nat /\ clock' = clock
    BY <1>2 DEF Report
  <2>3. \A i \in 1..Len(pending') : pending'[i].ts <= clock
    BY <1>2, <2>1, <2>2 DEF TrafficTyped, Waiting
  <2> QED
    BY <2>1, <2>2, <2>3 DEF Waiting
<1>4. Counted'
  <2> HIDE DEF new
  <2>1. BusyIn(writers)' = BusyIn(writers) /\ reports' = reports + 1 /\ reports \in Nat
    BY DEF BusyIn, Report, TrafficTyped, Numbers
  <2>2. Len(pending') = Len(pending) + 1 /\ Len(pending) \in Nat
    BY <1>2
  <2>3. /\ IsFiniteSet(BusyIn(writers))
        /\ Len(pending) + Cardinality(BusyIn(writers)) <= reports
    BY DEF TrafficTyped, Counted
  <2>4. Cardinality(BusyIn(writers)) \in Nat
    BY <2>3, FS_CardinalityType
  <2>5. PICK c \in Nat : c = Cardinality(BusyIn(writers))
    BY <2>4
  <2>6. Len(pending') + c <= reports'
    BY <2>1, <2>2, <2>3, <2>5
  <2> QED
    BY <2>1, <2>3, <2>5, <2>6 DEF Counted
<1> QED
  BY <1>1, <1>3, <1>4, TablesKept, WritersKept, RebuildKept DEF TrafficTyped, Report

(***************************************************************************)
(* Types: the steps of a writer.                                           *)
(***************************************************************************)
LEMMA WriterIs ==
    ASSUME TrafficTyped, NEW w \in Writers
    PROVE  /\ writers[w] \in WriterType /\ writers[w].report \in CounterReport
           /\ writers[w].row \in RowType /\ writers[w].month \in Int /\ writers[w].sum \in Nat
           /\ writers[w].report.ts \in Nat /\ writers[w].row.day \in Int
           /\ writers[w].report.ts <= clock /\ writers[w].row.day <= Day(clock)
<1>1. writers[w] \in WriterType
  BY DEF TrafficTyped, WritersTyped
<1>2. writers[w].report \in CounterReport /\ writers[w].row \in RowType
  BY <1>1 DEF WriterType
<1> QED
  BY <1>1, <1>2 DEF WriterType, CounterReport, RowType, TrafficTyped, WritersTyped

LEMMA ClockIs ==
    ASSUME TrafficTyped
    PROVE  clock \in Nat /\ Day(clock) \in Nat /\ resetDay \in Int /\ RowsOf(rows) /\ Days(daily)
<1>1. clock \in Nat /\ resetDay \in ResetDays
  BY DEF TrafficTyped, Numbers
<1>2. resetDay \in Int
  BY <1>1, TrafficAssumption
<1> QED
  BY <1>1, <1>2, DayIsNat DEF TrafficTyped, TablesTyped, RowsTyped, DaysTyped

LEMMA NewestIs ==
    ASSUME TrafficTyped
    PROVE  Latest \in RowType /\ Latest.day <= Day(clock)
<1>1. RowsOf(rows) /\ Day(clock) \in Nat
  BY ClockIs
<1>2. LatestIn(rows) \in RowType
  BY <1>1, LatestTyped
<1>3. LatestIn(rows).day <= Day(clock)
  <2>1. CASE DOMAIN rows = {}
    BY <1>1, <2>1, NoRowTyped DEF LatestIn
  <2>2. CASE DOMAIN rows # {}
    <3>1. PICK m \in DOMAIN rows : LatestIn(rows) = rows[m]
      BY <1>1, <2>2, NewestExists
    <3> QED
      BY <3>1 DEF TrafficTyped, TablesTyped, RowsTyped
  <2> QED
    BY <2>1, <2>2
<1> QED
  BY <1>2, <1>3, LatestIsLatestIn

\* A writer's record may change in any way that keeps its type.
LEMMA WriterMoves ==
    ASSUME WritersTyped, UNCHANGED clock, NEW w \in Writers, NEW p \in WriterType,
           writers' = [writers EXCEPT ![w] = p], p.report.ts <= clock, p.row.day <= Day(clock)
    PROVE  WritersTyped'
<1>1. writers \in [Writers -> WriterType]
  BY DEF WritersTyped
<1>2. writers' \in [Writers -> WriterType]
  BY <1>1
<1>3. \A v \in Writers : writers'[v] = IF v = w THEN p ELSE writers[v]
  BY <1>1
<1>4. \A v \in Writers : writers'[v].report.ts <= clock /\ writers'[v].row.day <= Day(clock)
  BY <1>3 DEF WritersTyped
<1> QED
  BY <1>2, <1>4 DEF WritersTyped, Day

LEMMA BusyMoves ==
    ASSUME WritersTyped, NEW w \in Writers, NEW p, writers' = [writers EXCEPT ![w] = p]
    PROVE  BusyIn(writers)' = IF p.at = "idle" THEN BusyIn(writers) \ {w}
                              ELSE BusyIn(writers) \cup {w}
  BY DEF WritersTyped, BusyIn

LEMMA BusyStays ==
    ASSUME WritersTyped, NEW w \in Writers, NEW p, writers' = [writers EXCEPT ![w] = p],
           writers[w].at # "idle", p.at # "idle", Counted, UNCHANGED <<pending, reports>>
    PROVE  Counted'
<1>1. w \in BusyIn(writers)
  BY DEF BusyIn
<1>2. BusyIn(writers)' = BusyIn(writers)
  BY <1>1, BusyMoves
<1> QED
  BY <1>2 DEF Counted

\* A writer that ends gives its place, or hands its report back.
LEMMA BusyEnds ==
    ASSUME TrafficTyped, NEW w \in Writers, Done(w), writers[w].at # "idle", UNCHANGED reports,
           Len(pending') \in Nat, Len(pending') <= Len(pending) + 1
    PROVE  Counted'
<1> DEFINE B == BusyIn(writers)
<1>1. /\ w \in B /\ IsFiniteSet(B) /\ Len(pending) + Cardinality(B) <= reports
      /\ reports \in Nat /\ Len(pending) \in Nat
  BY DEF BusyIn, TrafficTyped, Counted, Numbers, Waiting
<1>2. BusyIn(writers)' = B \ {w}
  <2>1. NoWriter.at = "idle"
    BY DEF NoWriter
  <2> QED
    BY <2>1, BusyMoves DEF Done, TrafficTyped
<1> HIDE DEF B
<1>3. IsFiniteSet(B \ {w}) /\ Cardinality(B \ {w}) = Cardinality(B) - 1 /\ Cardinality(B) \in Nat
  BY <1>1, Smaller, FS_CardinalityType
<1>4. PICK c \in Nat : c = Cardinality(B)
  BY <1>3
<1>5. Cardinality(B \ {w}) = c - 1 /\ Len(pending) + c <= reports
  BY <1>1, <1>3, <1>4
<1>6. Len(pending') + (c - 1) <= reports
  BY <1>1, <1>5
<1> QED
  BY <1>2, <1>3, <1>5, <1>6 DEF Counted

LEMMA DoneTyped ==
    ASSUME TrafficTyped, NEW w \in Writers, Done(w), UNCHANGED clock
    PROVE  WritersTyped'
<1>1. /\ NoWriter \in WriterType /\ NoWriter.report.ts = 0 /\ NoWriter.row.day = -1
  BY NoRowTyped DEF NoWriter, WriterType, NoReport, CounterReport
<1>2. NoWriter.report.ts <= clock /\ NoWriter.row.day <= Day(clock)
  BY <1>1, ClockIs
<1> QED
  BY <1>1, <1>2, WriterMoves DEF Done, TrafficTyped

LEMMA StartTyped ==
    ASSUME TrafficTyped, NEW w \in Writers, Start(w)
    PROVE  TrafficTyped'
<1>1. PICK i \in 1..Len(pending) :
         /\ writers[w].at = "idle"
         /\ writers' = [writers EXCEPT ![w].at = "row", ![w].report = pending[i],
                                       ![w].month = Period(Day(pending[i].ts), resetDay)]
         /\ pending' = [j \in 1..(Len(pending) - 1) |-> IF j < i THEN pending[j] ELSE pending[j + 1]]
         /\ KeepsTables
  BY DEF Start
<1>2. pending \in Seq(CounterReport) /\ Len(pending) \in Nat /\ i \in Nat /\ i <= Len(pending)
  BY <1>1 DEF TrafficTyped, Waiting
<1>3. pending[i] \in CounterReport /\ pending[i].ts <= clock
  BY <1>1, <1>2 DEF TrafficTyped, Waiting
<1>4. Numbers'
  BY <1>1 DEF TrafficTyped, Numbers, KeepsTables, agent, history
<1>5. /\ pending' \in Seq(CounterReport) /\ Len(pending') = Len(pending) - 1
      /\ \A j \in 1..Len(pending') : \E k \in 1..Len(pending) : pending'[j] = pending[k]
  <2> DEFINE n == Len(pending) - 1
             g(j) == IF j < i THEN pending[j] ELSE pending[j + 1]
  <2>1. n \in Nat /\ Len(pending) = n + 1
    BY <1>2
  <2>2. ASSUME NEW j \in 1..n
        PROVE  g(j) \in CounterReport /\ \E k \in 1..Len(pending) : g(j) = pending[k]
    <3>1. j \in 1..Len(pending) /\ j + 1 \in 1..Len(pending)
      BY <2>1
    <3> QED
      BY <1>2, <3>1
  <2>3. pending' = [j \in 1..n |-> g(j)]
    BY <1>1
  <2> HIDE DEF n, g
  <2>4. pending' \in Seq(CounterReport) /\ Len(pending') = n
    BY <2>1, <2>2, <2>3
  <2>5. \A j \in 1..n : pending'[j] = g(j)
    BY <2>3
  <2> QED
    BY <2>1, <2>2, <2>4, <2>5
<1>6. Waiting'
  BY <1>1, <1>5 DEF Waiting, TrafficTyped, KeepsTables
<1> DEFINE p == [writers[w] EXCEPT !.at = "row", !.report = pending[i],
                                   !.month = Period(Day(pending[i].ts), resetDay)]
<1>7. writers' = [writers EXCEPT ![w] = p]
  BY <1>1, WriterIs DEF TrafficTyped, WritersTyped, WriterType
<1>8. /\ p \in WriterType /\ p.at = "row" /\ p.report = pending[i] /\ p.row = writers[w].row
  <2>1. Period(Day(pending[i].ts), resetDay) \in Int
    <3>1. pending[i].ts \in Nat /\ resetDay \in Int
      BY <1>3, ClockIs DEF CounterReport
    <3>2. Day(pending[i].ts) \in Nat
      BY <3>1, DayIsNat
    <3> QED
      BY <3>1, <3>2, PeriodOfDay
  <2> QED
    BY <1>3, <2>1, WriterIs DEF WriterType
<1> HIDE DEF p
<1>9. WritersTyped'
  BY <1>1, <1>3, <1>7, <1>8, WriterIs, WriterMoves DEF TrafficTyped, KeepsTables
<1>10. Counted'
  <2> DEFINE B == BusyIn(writers)
  <2>1. /\ w \notin B /\ IsFiniteSet(B) /\ Len(pending) + Cardinality(B) <= reports
        /\ reports \in Nat /\ reports' = reports
    BY <1>1 DEF BusyIn, TrafficTyped, Counted, Numbers, KeepsTables
  <2>2. BusyIn(writers)' = B \cup {w}
    BY <1>7, <1>8, BusyMoves DEF TrafficTyped
  <2> HIDE DEF B
  <2>3. /\ IsFiniteSet(B \cup {w}) /\ Cardinality(B \cup {w}) = Cardinality(B) + 1
        /\ Cardinality(B) \in Nat
    BY <2>1, FS_AddElement, FS_CardinalityType
  <2>4. PICK c \in Nat : c = Cardinality(B)
    BY <2>3
  <2>5. Len(pending') + (c + 1) <= reports
    BY <1>2, <1>5, <2>1, <2>4
  <2> QED
    BY <2>1, <2>2, <2>3, <2>4, <2>5 DEF Counted
<1> QED
  BY <1>1, <1>4, <1>6, <1>9, <1>10, TablesKept, RebuildKept DEF TrafficTyped, KeepsTables

\* The steps of a writer that reads.
LEMMA ReadingTyped ==
    ASSUME TrafficTyped, NEW w \in Writers, writers[w].at # "idle", NEW p \in WriterType,
           p.at # "idle", writers' = [writers EXCEPT ![w] = p],
           p.report = writers[w].report, p.row.day <= Day(clock),
           UNCHANGED pending, KeepsTables
    PROVE  TrafficTyped'
<1>1. Numbers'
  BY DEF TrafficTyped, Numbers, KeepsTables, agent, history
<1>2. WritersTyped'
  BY WriterIs, WriterMoves DEF TrafficTyped, KeepsTables
<1>3. Counted'
  BY BusyStays DEF TrafficTyped, KeepsTables
<1> QED
  BY <1>1, <1>2, <1>3, TablesKept, WaitingKept, RebuildKept DEF TrafficTyped, KeepsTables

LEMMA EndingTyped ==
    ASSUME TrafficTyped, NEW w \in Writers, writers[w].at # "idle", Done(w),
           UNCHANGED pending, KeepsTables
    PROVE  TrafficTyped'
<1>1. Numbers'
  BY DEF TrafficTyped, Numbers, KeepsTables, agent, history
<1>2. WritersTyped'
  BY DoneTyped DEF KeepsTables
<1>3. Counted'
  <2>1. Len(pending') \in Nat /\ Len(pending') <= Len(pending) + 1
    BY DEF TrafficTyped, Waiting
  <2> QED
    BY <2>1, BusyEnds DEF KeepsTables
<1> QED
  BY <1>1, <1>2, <1>3, TablesKept, WaitingKept, RebuildKept DEF TrafficTyped, KeepsTables

LEMMA SumDaysIsNat ==
    ASSUME Days(daily), NEW P
    PROVE  SumDays(P) \in Nat
  BY SumDaysIsTotal, TotalOfDays

LEMMA ReadRowTyped ==
    ASSUME TrafficTyped, NEW w \in Writers, ReadRow(w)
    PROVE  TrafficTyped'
<1> DEFINE p == writers[w]
           row == Row(p.month)
<1>1. p.at = "row" /\ UNCHANGED pending /\ KeepsTables
  BY DEF ReadRow
<1>2. row \in RowType /\ row.day <= Day(clock)
  BY ClockIs, NoRowTyped DEF Row, RowsOf, TrafficTyped, TablesTyped, RowsTyped
<1>3. CASE writers' = [writers EXCEPT ![w].at = "latest"]
  <2> DEFINE q == [p EXCEPT !.at = "latest"]
  <2>1. /\ q \in WriterType /\ q.at # "idle" /\ q.report = p.report /\ q.row = p.row
        /\ writers' = [writers EXCEPT ![w] = q]
    BY <1>3, WriterIs DEF WriterType, TrafficTyped, WritersTyped
  <2> HIDE DEF q
  <2> QED
    BY <1>1, <2>1, WriterIs, ReadingTyped
<1>4. CASE Done(w)
  BY <1>1, <1>4, EndingTyped
<1>5. CASE writers' = [writers EXCEPT ![w].at = "update", ![w].row = row]
  <2> DEFINE q == [p EXCEPT !.at = "update", !.row = row]
  <2> HIDE DEF row
  <2>1. /\ q \in WriterType /\ q.at # "idle" /\ q.report = p.report /\ q.row = row
        /\ writers' = [writers EXCEPT ![w] = q]
    BY <1>2, <1>5, WriterIs DEF WriterType, TrafficTyped, WritersTyped
  <2> HIDE DEF q
  <2> QED
    BY <1>1, <1>2, <2>1, WriterIs, ReadingTyped
<1> QED
  BY <1>3, <1>4, <1>5 DEF ReadRow

LEMMA ReadLatestTyped ==
    ASSUME TrafficTyped, NEW w \in Writers, ReadLatest(w)
    PROVE  TrafficTyped'
<1> DEFINE p == writers[w]
           q == [p EXCEPT !.at = "daily", !.row = Latest]
<1>1. p.at = "latest" /\ UNCHANGED pending /\ KeepsTables
  BY DEF ReadLatest
<1>2. /\ q \in WriterType /\ q.at # "idle" /\ q.report = p.report /\ q.row = Latest
      /\ writers' = [writers EXCEPT ![w] = q]
  BY NewestIs, WriterIs DEF ReadLatest, WriterType, TrafficTyped, WritersTyped
<1> HIDE DEF q
<1> QED
  BY <1>1, <1>2, NewestIs, WriterIs, ReadingTyped

LEMMA ReadDailyTyped ==
    ASSUME TrafficTyped, NEW w \in Writers, ReadDaily(w)
    PROVE  TrafficTyped'
<1> DEFINE p == writers[w]
           s == SumDays(PeriodDays(p.month))
           q == [p EXCEPT !.at = "insert", !.sum = s]
<1>1. p.at = "daily" /\ UNCHANGED pending /\ KeepsTables
  BY DEF ReadDaily
<1>2. s \in Nat
  BY ClockIs, SumDaysIsNat
<1>3. writers' = [writers EXCEPT ![w].at = "insert", ![w].sum = s]
  BY DEF ReadDaily
<1> HIDE DEF s
<1>4. /\ q \in WriterType /\ q.at # "idle" /\ q.report = p.report /\ q.row = p.row
      /\ writers' = [writers EXCEPT ![w] = q]
  BY <1>2, <1>3, WriterIs DEF WriterType, TrafficTyped, WritersTyped
<1> HIDE DEF q
<1> QED
  BY <1>1, <1>4, WriterIs, ReadingTyped

LEMMA FinalizeTyped ==
    ASSUME TrafficTyped, NEW row \in RowType, row.day <= Day(clock), NEW today,
           Finalize(row, today), UNCHANGED clock
    PROVE  DaysTyped'
<1> DEFINE s == SumDays({row.day})
<1>1. s \in Nat /\ row.dayRx \in Nat /\ row.day \in Int /\ Days(daily) /\ DaysTyped
  BY ClockIs, SumDaysIsNat DEF RowType, TrafficTyped, TablesTyped
<1>2. CASE UNCHANGED daily
  BY <1>1, <1>2 DEF DaysTyped, Days, Day
<1>3. CASE row.dayRx > 0 /\ daily' = With(daily, row.day, s + row.dayRx)
  <2> HIDE DEF s
  <2>1. DOMAIN daily' = DOMAIN daily \cup {row.day}
    BY <1>3 DEF With
  <2>2. IsFiniteSet(DOMAIN daily')
    BY <1>1, <2>1, FS_AddElement DEF Days
  <2>3. s + row.dayRx \in Nat /\ s + row.dayRx # 0
    BY <1>1, <1>3
  <2>4. ASSUME NEW d \in DOMAIN daily'
        PROVE  daily'[d] \in Nat /\ daily'[d] # 0 /\ d \in Int /\ d <= Day(clock)
    <3>1. CASE d = row.day
      BY <1>1, <1>3, <2>1, <2>3, <3>1 DEF With
    <3>2. CASE d # row.day
      <4>1. d \in DOMAIN daily /\ daily'[d] = daily[d]
        BY <1>3, <2>1, <3>2 DEF With
      <4> QED
        BY <1>1, <4>1 DEF DaysTyped, Days
    <3> QED
      BY <3>1, <3>2
  <2> QED
    BY <2>2, <2>4 DEF DaysTyped, Days, Day
<1> QED
  BY <1>2, <1>3 DEF Finalize

LEMMA RowPut ==
    ASSUME TrafficTyped, NEW r \in RowType, r.day <= Day(clock),
           rows' = With(rows, r.month, r), UNCHANGED clock
    PROVE  RowsTyped'
<1>1. RowsOf(rows)
  BY ClockIs
<1>2. DOMAIN rows' = DOMAIN rows \cup {r.month}
  BY DEF With
<1>3. IsFiniteSet(DOMAIN rows')
  BY <1>1, <1>2, FS_AddElement DEF RowsOf
<1>4. ASSUME NEW m \in DOMAIN rows'
      PROVE  rows'[m] \in RowType /\ rows'[m].month = m /\ rows'[m].day <= Day(clock)
  <2>1. CASE m = r.month
    BY <1>2, <2>1 DEF With
  <2>2. CASE m # r.month
    <3>1. m \in DOMAIN rows /\ rows'[m] = rows[m]
      BY <1>2, <2>2 DEF With
    <3> QED
      BY <3>1 DEF TrafficTyped, TablesTyped, RowsTyped, RowsOf
  <2> QED
    BY <2>1, <2>2
<1> QED
  BY <1>3, <1>4 DEF RowsTyped, RowsOf, Day

\* The deltas are numbers, as is what is added to a day.
LEMMA DeltaIsNat ==
    ASSUME NEW raw \in Nat, NEW last \in Nat \cup {NoBaseline}
    PROVE  Delta(raw, last) \in Nat
  BY DEF Delta, NoBaseline

LEMMA ReportOfWriter ==
    ASSUME TrafficTyped, NEW w \in Writers
    PROVE  LET f == writers[w].report
           IN  /\ f.raw \in Nat /\ f.ts \in Nat /\ f.sent \in Nat
               /\ Day(f.ts) \in Nat /\ Day(f.ts) <= Day(clock)
<1> DEFINE f == writers[w].report
<1>1. f.raw \in Nat /\ f.ts \in Nat /\ f.sent \in Nat /\ f.ts <= clock /\ clock \in Nat
  BY WriterIs, ClockIs DEF CounterReport
<1> QED
  BY <1>1, DayIsNat, LaterDay

\* The row an update leaves.
Updated(row, f) ==
    [month |-> row.month, rx |-> rows[row.month].rx + Delta(f.raw, row.last), last |-> f.raw,
     day |-> Day(f.ts), dayRx |-> DayBytes(row, Day(f.ts), Delta(f.raw, row.last)), upd |-> f.ts]

LEMMA UpdateIs ==
    ASSUME TrafficTyped, NEW w \in Writers, WriteUpdate(w)
    PROVE  LET p == writers[w]
           IN  /\ p.at = "update" /\ Done(w)
               /\ \/ /\ Matches(p.row)
                     /\ Finalize(p.row, Day(p.report.ts))
                     /\ rows' = With(rows, p.row.month, Updated(p.row, p.report))
                     /\ slipped' = (slipped \/ Slips(p.row))
                  \/ ~Matches(p.row) /\ UNCHANGED <<rows, daily, slipped>>
               /\ UNCHANGED <<clock, resetDay, rebuild, agent, raws, pending, reports, rebuilds, base>>
<1> DEFINE p == writers[w]
           row == p.row
<1>1. ASSUME Matches(row), rows' = [rows EXCEPT ![row.month] =
                [month |-> row.month, rx |-> @.rx + Delta(p.report.raw, row.last),
                 last |-> p.report.raw, day |-> Day(p.report.ts),
                 dayRx |-> DayBytes(row, Day(p.report.ts), Delta(p.report.raw, row.last)),
                 upd |-> p.report.ts]]
      PROVE  rows' = With(rows, row.month, Updated(row, p.report))
  <2>1. row.month \in DOMAIN rows /\ DOMAIN rows \cup {row.month} = DOMAIN rows
    BY <1>1 DEF Matches
  <2> QED
    BY <1>1, <2>1 DEF With, Updated
<1> QED
  BY <1>1 DEF WriteUpdate

LEMMA UpdatedTyped ==
    ASSUME TrafficTyped, NEW w \in Writers, writers[w].row.month \in DOMAIN rows
    PROVE  Updated(writers[w].row, writers[w].report) \in RowType
<1> DEFINE row == writers[w].row
           f == writers[w].report
           d == Delta(f.raw, row.last)
<1>1. row \in RowType /\ row.month \in Int /\ row.dayRx \in Nat
      /\ row.last \in Nat \cup {NoBaseline}
  BY WriterIs DEF RowType
<1>2. f.raw \in Nat /\ f.ts \in Nat /\ Day(f.ts) \in Nat
  BY ReportOfWriter
<1>3. d \in Nat
  BY <1>1, <1>2, DeltaIsNat
<1>4. rows[row.month].rx \in Nat
  BY ClockIs DEF RowsOf, RowType
<1> DEFINE r == Updated(row, f)
<1>5. /\ r.month = row.month /\ r.rx = rows[row.month].rx + d /\ r.last = f.raw
      /\ r.day = Day(f.ts) /\ r.dayRx = (IF row.day = Day(f.ts) THEN row.dayRx + d ELSE d)
      /\ r.upd = f.ts
  BY DEF Updated, DayBytes
<1>6. r = [month |-> r.month, rx |-> r.rx, last |-> r.last, day |-> r.day, dayRx |-> r.dayRx,
           upd |-> r.upd]
  BY DEF Updated
<1> HIDE DEF r, d
<1>7. r.rx \in Nat /\ r.dayRx \in Nat
  BY <1>1, <1>3, <1>4, <1>5
<1>8. r.month \in Int /\ r.last \in Nat /\ r.day \in Int /\ r.upd \in Nat
  BY <1>1, <1>2, <1>5
<1>9. r \in RowType
  BY <1>6, <1>7, <1>8 DEF RowType
<1> QED
  BY <1>9 DEF r

LEMMA WriteUpdateTyped ==
    ASSUME TrafficTyped, NEW w \in Writers, WriteUpdate(w)
    PROVE  TrafficTyped'
<1> DEFINE p == writers[w]
<1>1. /\ p.at = "update" /\ Done(w)
      /\ \/ /\ Matches(p.row)
            /\ Finalize(p.row, Day(p.report.ts))
            /\ rows' = With(rows, p.row.month, Updated(p.row, p.report))
         \/ UNCHANGED <<rows, daily>>
      /\ UNCHANGED <<clock, resetDay, rebuild, agent, raws, pending, reports, rebuilds, base>>
  BY UpdateIs
<1>2. Numbers'
  BY <1>1 DEF TrafficTyped, Numbers, agent
<1>3. TablesTyped'
  <2>1. CASE UNCHANGED <<rows, daily>>
    BY <1>1, <2>1, TablesKept DEF TrafficTyped
  <2>2. CASE /\ Matches(p.row) /\ Finalize(p.row, Day(p.report.ts))
             /\ rows' = With(rows, p.row.month, Updated(p.row, p.report))
    <3> DEFINE r == Updated(p.row, p.report)
    <3>1. r \in RowType /\ r.month = p.row.month /\ r.day = Day(p.report.ts)
      BY <2>2, UpdatedTyped DEF Matches, Updated
    <3>2. r.day <= Day(clock)
      BY <3>1, ReportOfWriter
    <3> HIDE DEF r
    <3>3. rows' = With(rows, r.month, r)
      BY <2>2, <3>1 DEF r
    <3>4. RowsTyped'
      BY <1>1, <3>1, <3>2, <3>3, RowPut
    <3>5. DaysTyped'
      BY <1>1, <2>2, WriterIs, FinalizeTyped
    <3> QED
      BY <3>4, <3>5 DEF TablesTyped
  <2> QED
    BY <1>1, <2>1, <2>2
<1>4. WritersTyped'
  BY <1>1, DoneTyped
<1>5. Counted'
  <2>1. Len(pending') \in Nat /\ Len(pending') <= Len(pending) + 1
    BY <1>1 DEF TrafficTyped, Waiting
  <2> QED
    BY <1>1, <2>1, BusyEnds
<1> QED
  BY <1>1, <1>2, <1>3, <1>4, <1>5, WaitingKept, RebuildKept DEF TrafficTyped

\* The row an insert leaves.
Inserted(p) ==
    LET latest == p.row  today == Day(p.report.ts)
        delta == Delta(p.report.raw, latest.last)
        carried == Carried(latest, p.month)
    IN  [month |-> p.month, rx |-> p.sum + carried + delta, last |-> p.report.raw,
         day |-> today, dayRx |-> (IF latest.day = today THEN carried ELSE 0) + delta,
         upd |-> IF latest # NoRow /\ latest.upd >= p.report.ts
                 THEN latest.upd + 1 ELSE p.report.ts]

LEMMA InsertIs ==
    ASSUME NEW w \in Writers, WriteInsert(w)
    PROVE  LET p == writers[w]
           IN  /\ p.at = "insert" /\ Done(w)
               /\ \/ /\ p.month \notin DOMAIN rows
                     /\ Finalize(p.row, Day(p.report.ts))
                     /\ rows' = With(rows, p.month, Inserted(p))
                     /\ base' = IF rows = <<>> THEN p.report.sent ELSE base
                  \/ p.month \in DOMAIN rows /\ UNCHANGED <<rows, daily, base>>
               /\ UNCHANGED <<clock, resetDay, rebuild, agent, raws, pending, reports, rebuilds, slipped>>
  BY DEF WriteInsert, Inserted

LEMMA InsertedTyped ==
    ASSUME TrafficTyped, NEW w \in Writers
    PROVE  Inserted(writers[w]) \in RowType
<1> DEFINE p == writers[w]
           f == p.report
           l == p.row
           d == Delta(f.raw, l.last)
           c == Carried(l, p.month)
<1>1. /\ l.dayRx \in Nat /\ l.last \in Nat \cup {NoBaseline} /\ l.upd \in Nat
      /\ p.month \in Int /\ p.sum \in Nat
  BY WriterIs DEF RowType
<1>2. f.raw \in Nat /\ f.ts \in Nat /\ Day(f.ts) \in Nat
  BY ReportOfWriter
<1>3. d \in Nat
  BY <1>1, <1>2, DeltaIsNat
<1>4. c \in Nat
  BY <1>1 DEF Carried
<1> DEFINE r == Inserted(p)
<1>5. /\ r.month = p.month /\ r.rx = p.sum + c + d /\ r.last = f.raw /\ r.day = Day(f.ts)
      /\ r.dayRx \in {c + d, 0 + d} /\ r.upd \in {l.upd + 1, f.ts}
  BY DEF Inserted
<1>6. r = [month |-> r.month, rx |-> r.rx, last |-> r.last, day |-> r.day, dayRx |-> r.dayRx,
           upd |-> r.upd]
  BY DEF Inserted
<1> HIDE DEF r, d, c
<1>7. r.rx \in Nat /\ r.dayRx \in Nat /\ r.upd \in Nat
  BY <1>1, <1>2, <1>3, <1>4, <1>5
<1>8. r.month \in Int /\ r.last \in Nat /\ r.day \in Int
  BY <1>1, <1>2, <1>5
<1>9. r \in RowType
  BY <1>6, <1>7, <1>8 DEF RowType
<1> QED
  BY <1>9 DEF r

LEMMA WriteInsertTyped ==
    ASSUME TrafficTyped, NEW w \in Writers, WriteInsert(w)
    PROVE  TrafficTyped'
<1> DEFINE p == writers[w]
<1>1. /\ p.at = "insert" /\ Done(w)
      /\ \/ /\ Finalize(p.row, Day(p.report.ts))
            /\ rows' = With(rows, p.month, Inserted(p))
         \/ UNCHANGED <<rows, daily>>
      /\ base' \in {p.report.sent, base}
      /\ UNCHANGED <<clock, resetDay, rebuild, agent, raws, pending, reports, rebuilds>>
  BY InsertIs
<1>2. Numbers'
  <2>1. p.report.sent \in Nat
    BY ReportOfWriter
  <2> QED
    BY <1>1, <2>1 DEF TrafficTyped, Numbers, agent
<1>3. TablesTyped'
  <2>1. CASE UNCHANGED <<rows, daily>>
    BY <1>1, <2>1, TablesKept DEF TrafficTyped
  <2>2. CASE /\ Finalize(p.row, Day(p.report.ts))
             /\ rows' = With(rows, p.month, Inserted(p))
    <3> DEFINE r == Inserted(p)
    <3>1. r \in RowType /\ r.month = p.month /\ r.day = Day(p.report.ts)
      BY InsertedTyped DEF Inserted
    <3>2. r.day <= Day(clock)
      BY <3>1, ReportOfWriter
    <3> HIDE DEF r
    <3>3. rows' = With(rows, r.month, r)
      BY <2>2, <3>1 DEF r
    <3>4. RowsTyped'
      BY <1>1, <3>1, <3>2, <3>3, RowPut
    <3>5. DaysTyped'
      BY <1>1, <2>2, WriterIs, FinalizeTyped
    <3> QED
      BY <3>4, <3>5 DEF TablesTyped
  <2> QED
    BY <1>1, <2>1, <2>2
<1>4. WritersTyped'
  BY <1>1, DoneTyped
<1>5. Counted'
  <2>1. Len(pending') \in Nat /\ Len(pending') <= Len(pending) + 1
    BY <1>1 DEF TrafficTyped, Waiting
  <2> QED
    BY <1>1, <2>1, BusyEnds
<1> QED
  BY <1>1, <1>2, <1>3, <1>4, <1>5, WaitingKept, RebuildKept DEF TrafficTyped

LEMMA WriteFailsTyped ==
    ASSUME TrafficTyped, NEW w \in Writers, WriteFails(w)
    PROVE  TrafficTyped'
<1> DEFINE f == writers[w].report
<1>1. writers[w].at # "idle" /\ Done(w) /\ KeepsTables /\ pending' \in {pending, Append(pending, f)}
  BY DEF WriteFails
<1>2. pending \in Seq(CounterReport) /\ f \in CounterReport /\ f.ts <= clock
  BY WriterIs DEF TrafficTyped, Waiting
<1>3. Numbers'
  BY <1>1 DEF TrafficTyped, Numbers, KeepsTables, agent, history
<1> HIDE DEF f
<1>4. Waiting' /\ Len(pending') \in Nat /\ Len(pending') <= Len(pending) + 1
  <2>1. CASE pending' = pending
    BY <1>1, <1>2, <2>1 DEF TrafficTyped, Waiting, KeepsTables
  <2>2. CASE pending' = Append(pending, f)
    <3>1. /\ pending' \in Seq(CounterReport) /\ Len(pending') = Len(pending) + 1
          /\ \A i \in 1..Len(pending') :
                pending'[i] = IF i = Len(pending) + 1 THEN f ELSE pending[i]
      BY <1>2, <2>2
    <3>2. Len(pending) \in Nat /\ clock' = clock
      BY <1>1, <1>2 DEF KeepsTables
    <3>3. \A i \in 1..Len(pending') : pending'[i].ts <= clock
      BY <1>2, <3>1, <3>2 DEF TrafficTyped, Waiting
    <3> QED
      BY <3>1, <3>2, <3>3 DEF Waiting
  <2> QED
    BY <1>1, <2>1, <2>2
<1>5. WritersTyped'
  BY <1>1, DoneTyped DEF KeepsTables
<1>6. Counted'
  BY <1>1, <1>4, BusyEnds DEF KeepsTables
<1> QED
  BY <1>1, <1>3, <1>4, <1>5, <1>6, TablesKept, RebuildKept DEF TrafficTyped, KeepsTables

(***************************************************************************)
(* Types: the rebuild, and every step.                                     *)
(***************************************************************************)
LEMMA RebuildIs ==
    ASSUME TrafficTyped
    PROVE  /\ \E s : rebuild \in RebuildType(s)
           /\ rebuild.ts \in Nat /\ rebuild.ts <= clock /\ Day(rebuild.ts) \in Nat
           /\ Day(rebuild.ts) <= Day(clock)
           /\ rebuild.month \in Int /\ rebuild.latest \in RowType /\ rebuild.sum \in Nat
           /\ rebuild.latest.day <= Day(clock) /\ rebuild.metric \in Nat \cup {NoBaseline}
<1>1. PICK s : rebuild \in RebuildType(s)
  BY DEF TrafficTyped, RebuildTyped
<1>2. /\ rebuild.ts \in Nat /\ rebuild.month \in Int /\ rebuild.latest \in RowType
      /\ rebuild.sum \in Nat /\ rebuild.metric \in Nat \cup {NoBaseline}
      /\ rebuild.ts <= clock /\ rebuild.latest.day <= Day(clock) /\ clock \in Nat
  BY <1>1, ClockIs DEF RebuildType, TrafficTyped, RebuildTyped
<1>3. Day(rebuild.ts) \in Nat /\ Day(rebuild.ts) <= Day(clock)
  BY <1>2, DayIsNat, LaterDay
<1> QED
  BY <1>1, <1>2, <1>3

LEMMA SaveResetDayTyped ==
    ASSUME TrafficTyped, SaveResetDay
    PROVE  TrafficTyped'
<1>1. PICK r \in ResetDays :
         /\ rebuilds' = rebuilds + 1 /\ resetDay' = r
         /\ rebuild' = [rebuild EXCEPT !.at = "read", !.ts = clock, !.month = Period(Day(clock), r)]
         /\ UNCHANGED <<clock, rows, daily, writers, agent, pending, raws, reports, base, slipped>>
  BY DEF SaveResetDay
<1>2. Numbers'
  BY <1>1 DEF TrafficTyped, Numbers, agent
<1>3. RebuildTyped'
  <2>1. PICK s : rebuild \in RebuildType(s)
    BY RebuildIs
  <2>2. r \in Int /\ clock \in Nat /\ Day(clock) \in Nat
    BY <1>1, ClockIs, TrafficAssumption
  <2>3. Period(Day(clock), r) \in Int
    BY <2>2, PeriodOfDay
  <2>4. rebuild' \in RebuildType(s) /\ rebuild'.ts = clock /\ rebuild'.latest = rebuild.latest
    BY <1>1, <2>1, <2>2, <2>3 DEF RebuildType
  <2> QED
    BY <1>1, <2>2, <2>4, RebuildIs DEF RebuildTyped, Day
<1> QED
  BY <1>1, <1>2, <1>3, TablesKept, WritersKept, WaitingKept, CountedKept DEF TrafficTyped

LEMMA RebuildReadTyped ==
    ASSUME TrafficTyped, RebuildRead
    PROVE  TrafficTyped'
<1> DEFINE seen == [rows |-> rows, daily |-> daily]
<1>1. PICK metric \in raws \cup {NoBaseline} :
         /\ rebuild' = [rebuild EXCEPT !.at = "daily", !.latest = Latest, !.metric = metric,
                                       !.seen = seen]
         /\ UNCHANGED <<clock, resetDay, rows, daily, writers, agent, pending, raws, reports, history>>
  BY DEF RebuildRead
<1>2. Numbers'
  BY <1>1 DEF TrafficTyped, Numbers, agent, history
<1>3. RebuildTyped'
  <2> HIDE DEF seen
  <2>1. PICK s : rebuild \in RebuildType(s)
    BY RebuildIs
  <2>2. metric \in Nat \cup {NoBaseline}
    BY <1>1 DEF TrafficTyped, Numbers
  <2>3. rebuild' \in RebuildType(seen) /\ rebuild'.ts = rebuild.ts /\ rebuild'.latest = Latest
    BY <1>1, <2>1, <2>2, NewestIs DEF RebuildType
  <2> QED
    BY <1>1, <2>3, NewestIs, RebuildIs DEF RebuildTyped, Day
<1> QED
  BY <1>1, <1>2, <1>3, TablesKept, WritersKept, WaitingKept, CountedKept DEF TrafficTyped

LEMMA RebuildDailyTyped ==
    ASSUME TrafficTyped, RebuildDaily
    PROVE  TrafficTyped'
<1> DEFINE sum == SumDays(PeriodDays(rebuild.month))
<1>1. /\ rebuild' = [rebuild EXCEPT !.at = "write", !.sum = sum]
      /\ UNCHANGED <<clock, resetDay, rows, daily, writers, agent, pending, raws, reports, history>>
  BY DEF RebuildDaily
<1>2. Numbers'
  BY <1>1 DEF TrafficTyped, Numbers, agent, history
<1>3. RebuildTyped'
  <2>1. PICK s : rebuild \in RebuildType(s)
    BY RebuildIs
  <2>2. sum \in Nat
    BY ClockIs, SumDaysIsNat
  <2> HIDE DEF sum
  <2>3. rebuild' \in RebuildType(s) /\ rebuild'.ts = rebuild.ts /\ rebuild'.latest = rebuild.latest
    BY <1>1, <2>1, <2>2 DEF RebuildType
  <2> QED
    BY <1>1, <2>3, RebuildIs DEF RebuildTyped, Day
<1> QED
  BY <1>1, <1>2, <1>3, TablesKept, WritersKept, WaitingKept, CountedKept DEF TrafficTyped

\* The row a rebuild leaves.
RebuiltDayRx(p) ==
    IF InPeriod(p.latest.day, p.month)
    THEN p.latest.dayRx + (IF p.metric # NoBaseline THEN Delta(p.metric, p.latest.last) ELSE 0)
    ELSE 0
RebuiltRow(p) ==
    [month |-> p.month, rx |-> p.sum + RebuiltDayRx(p),
     last |-> IF (IF InPeriod(p.latest.day, p.month) /\ p.metric # NoBaseline
                  THEN Delta(p.metric, p.latest.last) ELSE 0) > 0 \/ p.latest.last = NoBaseline
              THEN p.metric ELSE p.latest.last,
     day |-> IF p.latest = NoRow THEN Day(p.ts) ELSE p.latest.day,
     dayRx |-> RebuiltDayRx(p), upd |-> RebuiltAt(p.latest, p)]

LEMMA RebuildWriteIs ==
    ASSUME RebuildWrite
    PROVE  /\ rebuild.at = "write" /\ rebuild' = NoRebuild
           /\ rows' = With(rows, rebuild.month, RebuiltRow(rebuild))
           /\ UNCHANGED <<clock, resetDay, daily, writers, agent, pending, raws, reports, history>>
<1> DEFINE p == rebuild
           active == InPeriod(p.latest.day, p.month)
<1>1. CASE active
  BY <1>1 DEF RebuildWrite, RebuiltRow, RebuiltDayRx
<1>2. CASE ~active
  BY <1>2 DEF RebuildWrite, RebuiltRow, RebuiltDayRx
<1> QED
  BY <1>1, <1>2

LEMMA RebuiltIs ==
    ASSUME TrafficTyped
    PROVE  /\ RebuiltRow(rebuild) \in RowType
           /\ RebuiltRow(rebuild).day <= Day(clock)
           /\ RebuiltDayRx(rebuild) \in Nat
<1> DEFINE p == rebuild
           r == RebuiltRow(p)
           d == Delta(p.metric, p.latest.last)
<1>1. /\ p.ts \in Nat /\ p.month \in Int /\ p.latest \in RowType /\ p.sum \in Nat
      /\ p.metric \in Nat \cup {NoBaseline} /\ Day(p.ts) \in Nat /\ Day(p.ts) <= Day(clock)
      /\ p.latest.day <= Day(clock)
  BY RebuildIs
<1>2. /\ p.latest.dayRx \in Nat /\ p.latest.last \in Nat \cup {NoBaseline}
      /\ p.latest.upd \in Nat /\ p.latest.day \in Int
  BY <1>1 DEF RowType
<1>3. p.metric # NoBaseline => d \in Nat
  BY <1>1, <1>2, DeltaIsNat
<1>4. RebuiltDayRx(p) \in Nat
  <2> HIDE DEF d
  <2>1. RebuiltDayRx(p) \in {0, p.latest.dayRx + (IF p.metric # NoBaseline THEN d ELSE 0)}
    BY DEF RebuiltDayRx, d
  <2> QED
    BY <1>2, <1>3, <2>1
<1>5. RebuiltAt(p.latest, p) \in Nat
  BY <1>1, <1>2 DEF RebuiltAt
<1>6. /\ r.month = p.month /\ r.rx = p.sum + RebuiltDayRx(p) /\ r.last \in {p.metric, p.latest.last}
      /\ r.day \in {Day(p.ts), p.latest.day} /\ r.dayRx = RebuiltDayRx(p)
      /\ r.upd = RebuiltAt(p.latest, p)
  BY DEF RebuiltRow
<1>7. r = [month |-> r.month, rx |-> r.rx, last |-> r.last, day |-> r.day, dayRx |-> r.dayRx,
           upd |-> r.upd]
  BY DEF RebuiltRow
<1> HIDE DEF r
<1>8. r.rx \in Nat
  BY <1>1, <1>4, <1>6
<1>9. r \in RowType
  BY <1>1, <1>2, <1>4, <1>5, <1>6, <1>7, <1>8 DEF RowType
<1>10. r.day <= Day(clock)
  BY <1>1, <1>6
<1> QED
  BY <1>4, <1>9, <1>10 DEF r

LEMMA RebuildWriteTyped ==
    ASSUME TrafficTyped, RebuildWrite
    PROVE  TrafficTyped'
<1> DEFINE r == RebuiltRow(rebuild)
<1>1. /\ rebuild' = NoRebuild /\ rows' = With(rows, rebuild.month, r)
      /\ UNCHANGED <<clock, resetDay, daily, writers, agent, pending, raws, reports, history>>
  BY RebuildWriteIs
<1>2. Numbers'
  BY <1>1 DEF TrafficTyped, Numbers, agent, history
<1>3. r \in RowType /\ r.day <= Day(clock) /\ r.month = rebuild.month
  BY RebuiltIs DEF RebuiltRow
<1> HIDE DEF r
<1>4. RowsTyped'
  BY <1>1, <1>3, RowPut
<1>5. DaysTyped'
  BY <1>1 DEF TrafficTyped, TablesTyped, DaysTyped, Days, Day
<1>6. RebuildTyped'
  <2>1. NoRebuild \in RebuildType(NoTables) /\ NoRebuild.ts = 0 /\ NoRebuild.latest = NoRow
    BY NoRowTyped DEF RebuildType, NoRebuild
  <2>2. clock \in Nat /\ Day(clock) \in Nat
    BY ClockIs
  <2> QED
    BY <1>1, <2>1, <2>2, NoRowTyped DEF RebuildTyped, Day
<1> QED
  BY <1>1, <1>2, <1>4, <1>5, <1>6, WritersKept, WaitingKept, CountedKept
  DEF TrafficTyped, TablesTyped

LEMMA TrafficStepTyped ==
    ASSUME TrafficTyped, [TrafficNext]_trafficVars
    PROVE  TrafficTyped'
<1>1. CASE Transfer \/ Reboot \/ TimePasses \/ Report
  BY <1>1, TransferTyped, RebootTyped, TimeTyped, ReportTyped
<1>2. ASSUME NEW w \in Writers, Start(w) \/ ReadRow(w) \/ ReadLatest(w) \/ ReadDaily(w)
      PROVE  TrafficTyped'
  BY <1>2, StartTyped, ReadRowTyped, ReadLatestTyped, ReadDailyTyped
<1>3. ASSUME NEW w \in Writers, WriteUpdate(w) \/ WriteInsert(w) \/ WriteFails(w)
      PROVE  TrafficTyped'
  BY <1>3, WriteUpdateTyped, WriteInsertTyped, WriteFailsTyped
<1>4. CASE SaveResetDay \/ RebuildRead \/ RebuildDaily \/ RebuildWrite
  BY <1>4, SaveResetDayTyped, RebuildReadTyped, RebuildDailyTyped, RebuildWriteTyped
<1>5. CASE UNCHANGED trafficVars
  <2>1. /\ UNCHANGED <<clock, resetDay, rows, daily, writers, rebuild, pending, raws, reports>>
        /\ UNCHANGED <<counter, transferred, reboots, rebuilds, base>>
    BY <1>5 DEF trafficVars, agent, history
  <2>2. Numbers'
    BY <2>1 DEF TrafficTyped, Numbers
  <2> QED
    BY <2>1, <2>2, TablesKept, WritersKept, WaitingKept, RebuildKept, CountedKept DEF TrafficTyped
<1> QED
  BY <1>1, <1>2, <1>3, <1>4, <1>5 DEF TrafficNext

LEMMA TypedIsTypeOK == TrafficTyped => TrafficTypeOK
<1> SUFFICES ASSUME TrafficTyped PROVE TrafficTypeOK
  OBVIOUS
<1>1. clock \in Nat /\ resetDay \in ResetDays /\ counter \in 0..MaxCounter
  BY DEF TrafficTyped, Numbers
<1>2. \A m \in DOMAIN rows : rows[m] \in RowType /\ rows[m].month = m
  BY DEF TrafficTyped, TablesTyped, RowsTyped, RowsOf
<1>3. \A d \in DOMAIN daily : daily[d] \in Nat \ {0} /\ d <= Day(clock)
  BY DEF TrafficTyped, TablesTyped, DaysTyped, Days
<1>4. \A w \in Writers : writers[w].at \in {"idle", "row", "latest", "daily", "update", "insert"}
  BY WriterIs DEF WriterType
<1>5. rebuild.at \in {"idle", "read", "daily", "write"}
  BY RebuildIs DEF RebuildType
<1>6. Len(pending) <= MaxReports
  <2>1. /\ IsFiniteSet(BusyIn(writers)) /\ Len(pending) + Cardinality(BusyIn(writers)) <= reports
        /\ reports \in Nat /\ reports <= MaxReports /\ Len(pending) \in Nat /\ MaxReports \in Nat
    BY TrafficAssumption DEF TrafficTyped, Counted, Numbers, Waiting
  <2>2. PICK c \in Nat : c = Cardinality(BusyIn(writers))
    BY <2>1, FS_CardinalityType
  <2> QED
    BY <2>1, <2>2
<1> QED
  BY <1>1, <1>2, <1>3, <1>4, <1>5, <1>6 DEF TrafficTypeOK

(***************************************************************************)
(* Whatever requests write, fail or are rebuilt, every row is filed under  *)
(* its period, and no day is counted that has not come                     *)
(* (metrics.js:797-928).                                                   *)
(***************************************************************************)
THEOREM TrafficTypeCorrect == TrafficSpec => []TrafficTypeOK
<1>1. TrafficInit => TrafficTyped
  BY TrafficInitTyped
<1>2. TrafficTyped /\ [TrafficNext]_trafficVars => TrafficTyped'
  BY TrafficStepTyped
<1> QED
  BY <1>1, <1>2, TypedIsTypeOK, PTL DEF TrafficSpec

(***************************************************************************)
(* The books: what holds between tables, writers and reports as long as no *)
(* period was rebuilt and reports are written as they come.  The newest    *)
(* row is of the current period; what the tables credit and what a report  *)
(* would add to them is at most what was transferred up to that report.    *)
(* This survives other writers because reports come in an order in which   *)
(* transferred bytes grow at least as the counter does, and because an     *)
(* update that finds day and counter as it read them finds the same days   *)
(* finished.                                                               *)
(***************************************************************************)
Finished == Total(daily, Int \cap DOMAIN daily)
Month(f) == Period(Day(f.ts), resetDay)
TakenNow    == [ts |-> clock, raw |-> counter, sent |-> transferred]
Before(f, g) == f.ts <= g.ts /\ f.sent <= g.sent /\ f.sent - f.raw <= g.sent - g.raw
Unread   == {TakenNow} \cup {pending[i] : i \in 1..Len(pending)}
Active(w) == writers[w].at # "idle"

Queued ==
    \A i \in 1..Len(pending) :
        /\ Before(pending[i], TakenNow)
        /\ \A j \in 1..Len(pending) : i < j => Before(pending[i], pending[j])
Handed ==
    \A w \in Writers : Active(w) =>
        /\ \A f \in Unread : Before(writers[w].report, f)
        /\ writers[w].month = Month(writers[w].report)
Together ==
    \A v, w \in Writers : v # w /\ Active(v) /\ Active(w) =>
        /\ writers[v].month = writers[w].month
        /\ writers[w].at = "row" =>
               writers[v].at # "row" /\ Before(writers[v].report, writers[w].report)

Filed ==
    /\ rows = <<>> \/ DOMAIN rows # {}
    /\ DOMAIN rows = {} => DOMAIN daily = {}
    /\ DOMAIN rows # {} =>
          /\ Latest.month \in DOMAIN rows /\ Latest = rows[Latest.month]
          /\ Latest.last \in Nat /\ base \in Nat
          /\ Period(Latest.day, resetDay) = Latest.month
          /\ \A m \in DOMAIN rows :
                m <= Latest.month /\ Period(Day(rows[m].upd), resetDay) = m
          /\ \A d \in DOMAIN daily : d < Latest.day

\* With the days finished and this row, what the report adds is covered.
CoveredBy(row, finished, b, f) ==
    /\ row.day <= Day(f.ts)
    /\ finished + row.dayRx + Delta(f.raw, row.last) <= f.sent - b
Covered(f) == DOMAIN rows # {} => CoveredBy(Latest, Finished, base, f)
Coming ==
    /\ \A f \in Unread : Covered(f)
    /\ \A w \in Writers : writers[w].at = "row" => Covered(writers[w].report)
UpdateBooked(p) ==
    /\ DOMAIN rows # {} /\ p.row.last \in Nat
    /\ p.month = Latest.month /\ p.row.month = Latest.month
    /\ p.row.day <= Latest.day
    /\ p.row.day = Latest.day => CoveredBy(p.row, Finished, base, p.report)
InsertBooked(p) ==
    p.month \notin DOMAIN rows =>
        /\ Covered(p.report)
        /\ p.at # "latest" => p.row = Latest
        /\ p.at = "insert" => p.sum = 0
Updating  == \A w \in Writers : writers[w].at = "update" => UpdateBooked(writers[w])
Inserting ==
    \A w \in Writers :
        writers[w].at \in {"latest", "daily", "insert"} => InsertBooked(writers[w])

InLine  == Queued /\ Handed /\ Together
Booked  == Filed /\ Coming /\ Updating /\ Inserting
Books   == rebuilds = 0 => rebuild.at = "idle" /\ InLine /\ Booked

LEMMA BeforeFacts ==
    ASSUME NEW f \in CounterReport, NEW g \in CounterReport, NEW h \in CounterReport
    PROVE  /\ Before(f, f)
           /\ Before(f, g) /\ Before(g, h) => Before(f, h)
           /\ Before(f, g) => Day(f.ts) <= Day(g.ts)
<1>1. /\ f.ts \in Nat /\ g.ts \in Nat /\ h.ts \in Nat /\ f.raw \in Nat /\ g.raw \in Nat
      /\ h.raw \in Nat /\ f.sent \in Nat /\ g.sent \in Nat /\ h.sent \in Nat
  BY DEF CounterReport
<1>2. Before(f, g) => Day(f.ts) <= Day(g.ts)
  BY <1>1, LaterDay DEF Before
<1> QED
  BY <1>1, <1>2 DEF Before

\* A later report adds at most what was transferred in between.
LEMMA DeltaBefore ==
    ASSUME NEW f \in CounterReport, NEW g \in CounterReport, Before(f, g), NEW last \in Nat
    PROVE  /\ Delta(g.raw, last) \in Nat /\ Delta(f.raw, last) \in Nat
           /\ Delta(g.raw, last) <= Delta(f.raw, last) + (g.sent - f.sent)
           /\ Delta(g.raw, f.raw) \in Nat
           /\ Delta(g.raw, f.raw) <= g.sent - f.sent
  BY DEF CounterReport, Before, Delta, NoBaseline

LEMMA CoveredLater ==
    ASSUME NEW f \in CounterReport, NEW g \in CounterReport, Before(f, g),
           NEW row \in RowType, row.last \in Nat, NEW n \in Nat, NEW b \in Nat,
           CoveredBy(row, n, b, f)
    PROVE  CoveredBy(row, n, b, g)
<1>1. Day(f.ts) \in Nat /\ Day(g.ts) \in Nat /\ Day(f.ts) <= Day(g.ts)
  BY BeforeFacts, DayIsNat DEF CounterReport
<1>2. f.sent \in Nat /\ g.sent \in Nat /\ row.dayRx \in Nat /\ row.day \in Int
  BY DEF CounterReport, RowType
<1>3. PICK df \in Nat : df = Delta(f.raw, row.last)
  BY DeltaBefore
<1>4. PICK dg \in Nat : dg = Delta(g.raw, row.last)
  BY DeltaBefore
<1>5. dg <= df + (g.sent - f.sent)
  BY <1>3, <1>4, DeltaBefore
<1> QED
  BY <1>1, <1>2, <1>3, <1>4, <1>5 DEF CoveredBy

\* After a report was written every later one is covered.
LEMMA CoveredNext ==
    ASSUME NEW f \in CounterReport, NEW g \in CounterReport, Before(f, g),
           NEW row \in RowType, row.last = f.raw, row.day = Day(f.ts),
           NEW n \in Nat, NEW b \in Nat, n + row.dayRx <= f.sent - b
    PROVE  CoveredBy(row, n, b, g)
<1>1. Day(f.ts) <= Day(g.ts)
  BY BeforeFacts
<1>2. f.sent \in Nat /\ g.sent \in Nat /\ row.dayRx \in Nat /\ f.raw \in Nat
  BY DEF CounterReport, RowType
<1>3. PICK d \in Nat : d = Delta(g.raw, f.raw)
  BY <1>2, DeltaBefore
<1>4. d <= g.sent - f.sent
  BY <1>2, <1>3, DeltaBefore
<1> QED
  BY <1>1, <1>2, <1>3, <1>4 DEF CoveredBy

LEMMA ReportsAre ==
    ASSUME TrafficTyped
    PROVE  /\ TakenNow \in CounterReport /\ TakenNow.ts = clock /\ TakenNow.raw = counter
           /\ TakenNow.sent = transferred
           /\ pending \in Seq(CounterReport) /\ Len(pending) \in Nat
           /\ \A i \in 1..Len(pending) : pending[i] \in CounterReport
           /\ \A f \in Unread : f \in CounterReport
           /\ Finished \in Nat
<1>1. pending \in Seq(CounterReport) /\ Len(pending) \in Nat
  BY DEF TrafficTyped, Waiting
<1>2. \A i \in 1..Len(pending) : pending[i] \in CounterReport
  BY <1>1
<1>3. TakenNow \in CounterReport /\ TakenNow.ts = clock /\ TakenNow.raw = counter /\ TakenNow.sent = transferred
  BY DEF TrafficTyped, Numbers, TakenNow, CounterReport
<1>4. \A f \in Unread : f \in CounterReport
  BY <1>2, <1>3 DEF Unread
<1>5. Finished \in Nat
  BY ClockIs, TotalOfDays DEF Finished
<1> QED
  BY <1>1, <1>2, <1>3, <1>4, <1>5

LEMMA CreditedIs ==
    ASSUME TrafficTyped
    PROVE  Credited = Finished + Latest.dayRx
<1>1. DOMAIN daily \cap DOMAIN daily = Int \cap DOMAIN daily
  BY DEF TrafficTyped, TablesTyped, DaysTyped
<1>2. SumDays(DOMAIN daily) = Total(daily, DOMAIN daily \cap DOMAIN daily)
  BY SumDaysIsTotal
<1> QED
  BY <1>1, <1>2 DEF Credited, Finished

\* Times of different periods are ordered as their periods.
LEMMA PeriodOrder ==
    ASSUME NEW a \in Int, NEW b \in Int, NEW r \in Int, Period(a, r) < Period(b, r)
    PROVE  /\ a < b /\ a < Period(b, r)
           /\ ~InPeriod(a, Period(b, r))
<1>1. /\ Period(a, r) \in Int /\ Period(b, r) \in Int
      /\ a < Period(a, r) + PeriodLength /\ Period(b, r) <= b
      /\ PeriodLength \in Nat
  BY PeriodOfDay, TrafficAssumption
<1>2. a < b
  <2>1. CASE b <= a
    BY <1>1, <2>1, LaterPeriod
  <2> QED
    BY <2>1
<1>3. Period(a, r) + PeriodLength <= Period(b, r)
  BY <1>1, <1>2, LaterPeriod
<1>4. a < Period(b, r)
  BY <1>1, <1>3
<1> QED
  BY <1>1, <1>2, <1>4 DEF InPeriod

LEMMA TimeOrder ==
    ASSUME NEW s \in Nat, NEW t \in Nat, NEW r \in Int, Period(Day(s), r) < Period(Day(t), r)
    PROVE  s < t
<1>1. Day(s) \in Nat /\ Day(t) \in Nat
  BY DayIsNat
<1>2. Day(s) < Day(t)
  BY <1>1, PeriodOrder
<1>3. CASE t <= s
  BY <1>1, <1>2, <1>3, LaterDay
<1> QED
  BY <1>3

LEMMA MonthOrder ==
    ASSUME NEW a \in Int, NEW b \in Int, NEW r \in Int, a <= b
    PROVE  Period(a, r) \in Int /\ Period(b, r) \in Int /\ Period(a, r) <= Period(b, r)
  BY PeriodOfDay, LaterPeriod

(***************************************************************************)
(* Reports stay in line.                                                   *)
(***************************************************************************)
LEMMA UnreadMonth ==
    ASSUME TrafficTyped, NEW f \in CounterReport
    PROVE  Month(f) \in Int /\ f.ts \in Nat /\ f.raw \in Nat /\ f.sent \in Nat /\ Day(f.ts) \in Nat
<1>1. f.ts \in Nat /\ f.raw \in Nat /\ f.sent \in Nat
  BY DEF CounterReport
<1>2. Day(f.ts) \in Nat /\ resetDay \in Int
  BY <1>1, DayIsNat, ClockIs
<1> QED
  BY <1>1, <1>2, PeriodOfDay DEF Month

LEMMA AgentInLine ==
    ASSUME TrafficTyped, TrafficTyped', InLine, UNCHANGED <<pending, writers, resetDay>>,
           Before(TakenNow, TakenNow')
    PROVE  InLine'
<1>1. /\ TakenNow \in CounterReport /\ TakenNow' \in CounterReport
      /\ \A i \in 1..Len(pending) : pending[i] \in CounterReport
      /\ Unread = {TakenNow} \cup {pending[i] : i \in 1..Len(pending)}
      /\ Unread' = {TakenNow'} \cup {pending[i] : i \in 1..Len(pending)}
  <2>1. TakenNow' \in CounterReport
    BY DEF TrafficTyped, Numbers, TakenNow, CounterReport
  <2>2. Unread' = {TakenNow'} \cup {pending[i] : i \in 1..Len(pending)}
    BY DEF Unread
  <2> QED
    BY <2>1, <2>2, ReportsAre DEF Unread
<1>2. ASSUME NEW f \in CounterReport, Before(f, TakenNow)
      PROVE  Before(f, TakenNow')
  BY <1>1, <1>2, BeforeFacts
<1>3. Queued'
  <2>1. \A i \in 1..Len(pending) : Before(pending[i], TakenNow')
    BY <1>1, <1>2 DEF InLine, Queued
  <2>2. \A i, j \in 1..Len(pending) : i < j => Before(pending[i], pending[j])
    BY DEF InLine, Queued
  <2> QED
    BY <2>1, <2>2 DEF Queued
<1>4. Handed'
  <2>1. ASSUME NEW w \in Writers, Active(w)
        PROVE  /\ \A f \in Unread' : Before(writers[w].report, f)
               /\ writers[w].month = Month(writers[w].report)
    <3>1. \A f \in Unread : Before(writers[w].report, f)
      BY <2>1 DEF InLine, Handed
    <3>2. Before(writers[w].report, TakenNow')
      BY <1>1, <1>2, <3>1, WriterIs
    <3> QED
      BY <1>1, <2>1, <3>1, <3>2 DEF InLine, Handed
  <2> QED
    BY <2>1 DEF Handed, Active, Month
<1>5. Together'
  BY DEF InLine, Together, Active
<1> QED
  BY <1>3, <1>4, <1>5 DEF InLine

LEMMA ReportInLine ==
    ASSUME TrafficTyped, InLine, Report
    PROVE  InLine' /\ Unread' = Unread
<1>1. /\ pending \in Seq(CounterReport) /\ TakenNow \in CounterReport /\ Len(pending) \in Nat
      /\ pending' = Append(pending, TakenNow)
      /\ UNCHANGED <<writers, resetDay, clock, counter, transferred>>
  BY ReportsAre DEF Report, TakenNow, agent
<1>2. TakenNow' = TakenNow
  BY <1>1 DEF TakenNow
<1>3. /\ Len(pending') = Len(pending) + 1
      /\ \A i \in 1..Len(pending') : pending'[i] = IF i = Len(pending) + 1 THEN TakenNow ELSE pending[i]
  BY <1>1
<1>4. Unread' = Unread
  <2>1. \A i \in 1..Len(pending) : i \in 1..Len(pending') /\ pending'[i] = pending[i]
    BY <1>1, <1>3
  <2>2. \A i \in 1..Len(pending') : pending'[i] = TakenNow \/ (i \in 1..Len(pending) /\ pending'[i] = pending[i])
    BY <1>1, <1>3
  <2>3. Unread' = {TakenNow} \cup {pending'[i] : i \in 1..Len(pending')}
    BY <1>2 DEF Unread
  <2> QED
    BY <2>1, <2>2, <2>3 DEF Unread
<1>5. Queued'
  <2>1. ASSUME NEW i \in 1..Len(pending')
        PROVE  Before(pending'[i], TakenNow)
    BY <1>1, <1>3, BeforeFacts DEF InLine, Queued
  <2>2. ASSUME NEW i \in 1..Len(pending'), NEW j \in 1..Len(pending'), i < j
        PROVE  Before(pending'[i], pending'[j])
    BY <1>1, <1>3, <2>2 DEF InLine, Queued
  <2> QED
    BY <1>2, <2>1, <2>2 DEF Queued
<1>6. Handed'
  BY <1>1, <1>4 DEF InLine, Handed, Active, Month
<1>7. Together'
  BY <1>1 DEF InLine, Together, Active
<1> QED
  BY <1>4, <1>5, <1>6, <1>7 DEF InLine

\* A request that reads on, or ends.
LEMMA WriterInLine ==
    ASSUME TrafficTyped, InLine, NEW w \in Writers, Active(w), NEW q,
           writers' = [writers EXCEPT ![w] = q],
           \/ q.at = "idle"
           \/ q.at # "row" /\ q.report = writers[w].report /\ q.month = writers[w].month,
           UNCHANGED <<pending, resetDay, clock, counter, transferred>>
    PROVE  InLine' /\ Unread' = Unread
<1>1. \A v \in Writers : writers'[v] = IF v = w THEN q ELSE writers[v]
  BY DEF TrafficTyped, WritersTyped
<1>2. TakenNow' = TakenNow /\ Unread' = Unread
  BY DEF TakenNow, Unread
<1>3. Queued'
  BY <1>2 DEF InLine, Queued
<1>4. Handed'
  BY <1>1, <1>2 DEF InLine, Handed, Active, Month
<1>5. Together'
  BY <1>1 DEF InLine, Together, Active
<1> QED
  BY <1>2, <1>3, <1>4, <1>5 DEF InLine

LEMMA StartIs ==
    ASSUME TrafficTyped, InOrder = TRUE, NEW w \in Writers, Start(w)
    PROVE  /\ 1 \in 1..Len(pending) /\ writers[w].at = "idle" /\ KeepsTables
           /\ \A v \in Writers : Active(v) => SamePeriod(writers[v].report, pending[1])
           /\ \A v \in Writers : writers[v].at # "row"
           /\ \E q : /\ q.at = "row" /\ q.report = pending[1] /\ q.month = Month(pending[1])
                     /\ writers' = [writers EXCEPT ![w] = q]
           /\ Len(pending') = Len(pending) - 1
           /\ \A j \in 1..Len(pending') : j + 1 \in 1..Len(pending) /\ pending'[j] = pending[j + 1]
<1>1. PICK i \in 1..Len(pending) :
         /\ i = 1
         /\ \A v \in Writers : writers[v].at \notin {"idle", "row"} => SamePeriod(writers[v].report, pending[1])
         /\ \A v \in Writers : writers[v].at # "row"
         /\ writers[w].at = "idle"
         /\ writers' = [writers EXCEPT ![w].at = "row", ![w].report = pending[i],
                                       ![w].month = Period(Day(pending[i].ts), resetDay)]
         /\ pending' = [j \in 1..(Len(pending) - 1) |-> IF j < i THEN pending[j] ELSE pending[j + 1]]
         /\ KeepsTables
  BY DEF Start
<1>2. Len(pending) \in Nat /\ i = 1 /\ Len(pending) - 1 \in Nat
  BY <1>1, ReportsAre
<1>3. \A v \in Writers : Active(v) => SamePeriod(writers[v].report, pending[1])
  BY <1>1 DEF Active
<1>4. \E q : /\ q.at = "row" /\ q.report = pending[1] /\ q.month = Month(pending[1])
             /\ writers' = [writers EXCEPT ![w] = q]
  <2> DEFINE q == [writers[w] EXCEPT !.at = "row", !.report = pending[1], !.month = Month(pending[1])]
  <2>1. writers[w] \in WriterType
    BY WriterIs
  <2>2. q.at = "row" /\ q.report = pending[1] /\ q.month = Month(pending[1])
    BY <2>1 DEF WriterType
  <2>3. writers' = [writers EXCEPT ![w] = q]
    BY <1>1, <1>2 DEF Month, TrafficTyped, WritersTyped
  <2> HIDE DEF q
  <2> QED
    BY <2>2, <2>3
<1>5. /\ Len(pending') = Len(pending) - 1
      /\ \A j \in 1..Len(pending') : j + 1 \in 1..Len(pending) /\ pending'[j] = pending[j + 1]
  <2> DEFINE n == Len(pending) - 1
  <2>1. pending' = [j \in 1..n |-> pending[j + 1]]
    BY <1>1, <1>2
  <2>2. Len(pending') = n
    <3> HIDE DEF n
    <3> QED
      BY <1>2, <2>1 DEF n
  <2> QED
    BY <1>2, <2>1, <2>2
<1> QED
  BY <1>1, <1>2, <1>3, <1>4, <1>5

LEMMA StartInLine ==
    ASSUME TrafficTyped, InLine, InOrder = TRUE, NEW w \in Writers, Start(w)
    PROVE  InLine' /\ Unread' \subseteq Unread
<1>1. PICK q : /\ q.at = "row" /\ q.report = pending[1] /\ q.month = Month(pending[1])
               /\ writers' = [writers EXCEPT ![w] = q]
  BY StartIs
<1>2. \A v \in Writers : writers'[v] = IF v = w THEN q ELSE writers[v]
  BY <1>1 DEF TrafficTyped, WritersTyped
<1>3. /\ 1 \in 1..Len(pending) /\ KeepsTables
      /\ \A j \in 1..Len(pending') : j + 1 \in 1..Len(pending) /\ pending'[j] = pending[j + 1]
      /\ Len(pending') = Len(pending) - 1 /\ Len(pending) \in Nat
  BY StartIs, ReportsAre
<1>4. TakenNow' = TakenNow /\ Unread' \subseteq Unread /\ UNCHANGED resetDay
  <2>1. TakenNow' = TakenNow /\ UNCHANGED resetDay
    BY <1>3 DEF TakenNow, KeepsTables, agent
  <2>2. \A j \in 1..Len(pending') : pending'[j] \in Unread
    BY <1>3 DEF Unread
  <2>3. Unread' = {TakenNow} \cup {pending'[i] : i \in 1..Len(pending')}
    BY <2>1 DEF Unread
  <2>4. TakenNow \in Unread
    BY DEF Unread
  <2> QED
    BY <2>1, <2>2, <2>3, <2>4
<1>5. Queued'
  <2>1. ASSUME NEW i \in 1..Len(pending')
        PROVE  Before(pending'[i], TakenNow)
    BY <1>3 DEF InLine, Queued
  <2>2. ASSUME NEW i \in 1..Len(pending'), NEW j \in 1..Len(pending'), i < j
        PROVE  Before(pending'[i], pending'[j])
    <3>1. /\ i + 1 \in 1..Len(pending) /\ j + 1 \in 1..Len(pending) /\ i + 1 < j + 1
          /\ pending'[i] = pending[i + 1] /\ pending'[j] = pending[j + 1]
      BY <1>3, <2>2
    <3> QED
      BY <3>1 DEF InLine, Queued
  <2> QED
    BY <1>4, <2>1, <2>2 DEF Queued
<1>6. Handed'
  <2>1. \A f \in Unread' : Before(pending[1], f)
    <3>1. Before(pending[1], TakenNow)
      BY <1>3 DEF InLine, Queued
    <3>2. ASSUME NEW j \in 1..Len(pending')
          PROVE  Before(pending[1], pending'[j])
      <4>1. j + 1 \in 1..Len(pending) /\ 1 < j + 1 /\ pending'[j] = pending[j + 1]
        BY <1>3
      <4> QED
        BY <1>3, <4>1 DEF InLine, Queued
    <3>3. Unread' = {TakenNow} \cup {pending'[i] : i \in 1..Len(pending')}
      BY <1>4 DEF Unread
    <3> QED
      BY <3>1, <3>2, <3>3
  <2>2. ASSUME NEW v \in Writers, writers'[v].at # "idle"
        PROVE  /\ \A f \in Unread' : Before(writers'[v].report, f)
               /\ writers'[v].month = Month(writers'[v].report)
    BY <1>1, <1>2, <1>4, <2>1, <2>2 DEF InLine, Handed, Active
  <2> QED
    BY <1>4, <2>2 DEF Handed, Active, Month
<1>7. Together'
  <2>1. \A v \in Writers : writers[v].at # "row"
    BY StartIs
  <2>2. ASSUME NEW v \in Writers, Active(v)
        PROVE  writers[v].month = Month(pending[1]) /\ Before(writers[v].report, pending[1])
    <3>1. SamePeriod(writers[v].report, pending[1])
      BY <2>2, StartIs
    <3>2. pending[1] \in Unread
      BY <1>3 DEF Unread
    <3> QED
      BY <2>2, <3>1, <3>2 DEF InLine, Handed, SamePeriod, Month
  <2>3. ASSUME NEW u \in Writers, NEW v \in Writers, u # v,
               writers'[u].at # "idle", writers'[v].at # "idle"
        PROVE  /\ writers'[u].month = writers'[v].month
               /\ writers'[v].at = "row" =>
                     writers'[u].at # "row" /\ Before(writers'[u].report, writers'[v].report)
    <3>1. CASE u = w
      BY <1>1, <1>2, <2>1, <2>2, <2>3, <3>1 DEF Active
    <3>2. CASE v = w
      BY <1>1, <1>2, <2>1, <2>2, <2>3, <3>2 DEF Active
    <3>3. CASE u # w /\ v # w
      BY <1>2, <2>1, <2>3, <3>3 DEF InLine, Together, Active
    <3> QED
      BY <3>1, <3>2, <3>3
  <2> QED
    BY <2>3 DEF Together, Active
<1> QED
  BY <1>4, <1>5, <1>6, <1>7 DEF InLine

(***************************************************************************)
(* The books stay right: requests that only read, fail or end.             *)
(***************************************************************************)
LEMMA FiledIs ==
    ASSUME TrafficTyped, Filed, DOMAIN rows # {}
    PROVE  /\ Latest \in RowType /\ Latest.month \in DOMAIN rows /\ Latest = rows[Latest.month]
           /\ Latest.month \in Int /\ Latest.last \in Nat /\ base \in Nat
           /\ Latest.day \in Int /\ Latest.upd \in Nat /\ Latest.dayRx \in Nat /\ Latest.rx \in Nat
           /\ Period(Latest.day, resetDay) = Latest.month
<1>1. Latest \in RowType
  BY NewestIs
<1> QED
  BY <1>1 DEF Filed, RowType

\* The newest row's period is not after a covered report's.
LEMMA CoveredMonth ==
    ASSUME TrafficTyped, Filed, DOMAIN rows # {}, NEW f \in CounterReport, Covered(f)
    PROVE  /\ Latest.month <= Month(f)
           /\ Month(f) \in DOMAIN rows => Month(f) = Latest.month
           /\ Month(f) \notin DOMAIN rows =>
                 /\ Latest.month < Month(f) /\ Latest.day < Month(f)
                 /\ ~InPeriod(Latest.day, Month(f)) /\ Latest.day # Day(f.ts)
                 /\ Latest.upd < f.ts
<1>1. /\ Latest.day \in Int /\ Day(f.ts) \in Int /\ resetDay \in Int /\ Latest.day <= Day(f.ts)
      /\ Month(f) \in Int /\ Latest.month \in Int
      /\ Month(f) = Period(Day(f.ts), resetDay) /\ Latest.month = Period(Latest.day, resetDay)
      /\ f.ts \in Nat /\ Latest.upd \in Nat
  <2>1. Month(f) \in Int /\ f.ts \in Nat /\ Day(f.ts) \in Nat
    BY UnreadMonth
  <2>2. Latest.day <= Day(f.ts)
    BY DEF Covered, CoveredBy
  <2>3. /\ Latest.day \in Int /\ Latest.month \in Int /\ Latest.upd \in Nat
        /\ Latest.month = Period(Latest.day, resetDay)
    BY FiledIs
  <2>4. Month(f) = Period(Day(f.ts), resetDay)
    BY DEF Month
  <2>5. resetDay \in Int
    BY ClockIs
  <2>6. Day(f.ts) \in Int
    BY <2>1
  <2> QED
    BY <2>1, <2>2, <2>3, <2>4, <2>5, <2>6
<1>2. Latest.month <= Month(f)
  <2>1. Period(Latest.day, resetDay) <= Period(Day(f.ts), resetDay)
    BY <1>1, MonthOrder
  <2> QED
    BY <1>1, <2>1
<1>3. ASSUME Month(f) \in DOMAIN rows
      PROVE  Month(f) = Latest.month
  <2>1. Month(f) <= Latest.month
    BY <1>3 DEF Filed
  <2> QED
    BY <1>1, <1>2, <2>1
<1>4. ASSUME Month(f) \notin DOMAIN rows
      PROVE  /\ Latest.month < Month(f) /\ Latest.day < Month(f)
             /\ ~InPeriod(Latest.day, Month(f)) /\ Latest.day # Day(f.ts)
             /\ Latest.upd < f.ts
  <2>1. Latest.month < Month(f)
    BY <1>1, <1>2, <1>4, FiledIs
  <2>2. Latest.day < Month(f) /\ ~InPeriod(Latest.day, Month(f)) /\ Latest.day < Day(f.ts)
    BY <1>1, <2>1, PeriodOrder
  <2>3. Period(Day(Latest.upd), resetDay) = Latest.month
    BY FiledIs DEF Filed
  <2>4. Latest.upd < f.ts
    BY <1>1, <2>1, <2>3, TimeOrder
  <2> QED
    BY <1>1, <2>1, <2>2, <2>4
<1> QED
  BY <1>2, <1>3, <1>4

LEMMA TablesSame ==
    ASSUME UNCHANGED <<rows, daily, base, resetDay>>, Filed
    PROVE  /\ Latest' = Latest /\ Finished' = Finished /\ Filed'
           /\ \A f : Covered(f) => Covered(f)'
<1>1. Latest' = Latest
  BY DEF Latest
<1>2. Finished' = Finished
  BY DEF Finished
<1> QED
  BY <1>1, <1>2 DEF Filed, Covered

\* Reports come and time passes.
LEMMA ComingLater ==
    ASSUME TrafficTyped, TrafficTyped', Booked, UNCHANGED <<rows, daily, base, resetDay, writers>>,
           \A f \in Unread' : \E g \in Unread : Before(g, f)
    PROVE  Booked'
<1>1. /\ Latest' = Latest /\ Finished' = Finished /\ Filed'
      /\ \A f : Covered(f) => Covered(f)'
  BY TablesSame DEF Booked
<1>2. Coming'
  <2>1. ASSUME NEW f \in Unread'
        PROVE  Covered(f)
    <3>1. PICK g \in Unread : Before(g, f)
      OBVIOUS
    <3>2. f \in CounterReport
      <4>1. /\ pending' \in Seq(CounterReport) /\ TakenNow' \in CounterReport
        BY DEF TrafficTyped, Numbers, Waiting, TakenNow, CounterReport
      <4>2. \A i \in 1..Len(pending') : pending'[i] \in CounterReport
        BY <4>1
      <4> QED
        BY <4>1, <4>2 DEF Unread
    <3>3. g \in CounterReport /\ Covered(g) /\ Finished \in Nat
      BY ReportsAre DEF Booked, Coming
    <3> QED
      BY <3>1, <3>2, <3>3, CoveredLater, FiledIs DEF Covered, Booked
  <2> QED
    BY <1>1, <2>1 DEF Coming, Booked
<1>3. Updating'
  BY <1>1 DEF Booked, Updating, UpdateBooked
<1>4. Inserting'
  BY <1>1 DEF Booked, Inserting, InsertBooked, Covered
<1> QED
  BY <1>1, <1>2, <1>3, <1>4 DEF Booked

\* One request takes a report, reads or ends.
LEMMA WriterBooked ==
    ASSUME TrafficTyped, Booked, NEW w \in Writers, NEW q, writers' = [writers EXCEPT ![w] = q],
           UNCHANGED <<rows, daily, base, resetDay>>, Unread' \subseteq Unread,
           q.at = "row" => Covered(q.report),
           q.at = "update" => UpdateBooked(q),
           q.at \in {"latest", "daily", "insert"} => InsertBooked(q)
    PROVE  Booked'
<1>1. /\ Latest' = Latest /\ Finished' = Finished /\ Filed'
      /\ \A f : Covered(f) => Covered(f)'
  BY TablesSame DEF Booked
<1>2. \A v \in Writers : writers'[v] = IF v = w THEN q ELSE writers[v]
  BY DEF TrafficTyped, WritersTyped
<1>3. Coming'
  BY <1>1, <1>2 DEF Booked, Coming
<1>4. Updating'
  <2>1. \A v \in Writers : writers'[v].at = "update" => UpdateBooked(writers'[v])
    BY <1>2 DEF Booked, Updating
  <2> QED
    BY <1>1, <2>1 DEF Updating, UpdateBooked
<1>5. Inserting'
  <2>1. \A v \in Writers : writers'[v].at \in {"latest", "daily", "insert"} => InsertBooked(writers'[v])
    BY <1>2 DEF Booked, Inserting
  <2> QED
    BY <1>1, <2>1 DEF Inserting, InsertBooked, Covered
<1> QED
  BY <1>1, <1>3, <1>4, <1>5 DEF Booked

LEMMA EndBooked ==
    ASSUME TrafficTyped, InLine, Booked, NEW w \in Writers, Active(w), Done(w),
           UNCHANGED <<rows, daily, base, resetDay, pending, clock, counter, transferred>>
    PROVE  InLine' /\ Booked'
<1>1. NoWriter.at = "idle"
  BY DEF NoWriter
<1>2. writers' = [writers EXCEPT ![w] = NoWriter]
  BY DEF Done
<1>3. InLine' /\ Unread' = Unread
  BY <1>1, <1>2, WriterInLine
<1>4. Unread' \subseteq Unread
  BY <1>3
<1> QED
  BY <1>1, <1>2, <1>3, <1>4, WriterBooked

LEMMA StartBooked ==
    ASSUME TrafficTyped, InLine, Booked, InOrder = TRUE, NEW w \in Writers, Start(w)
    PROVE  InLine' /\ Booked'
<1>1. InLine' /\ Unread' \subseteq Unread
  BY StartInLine
<1>2. PICK q : /\ q.at = "row" /\ q.report = pending[1] /\ q.month = Month(pending[1])
               /\ writers' = [writers EXCEPT ![w] = q]
  BY StartIs
<1>3. 1 \in 1..Len(pending) /\ KeepsTables
  BY StartIs
<1>4. Covered(q.report)
  BY <1>2, <1>3 DEF Booked, Coming, Unread
<1>5. UNCHANGED <<rows, daily, base, resetDay>>
  BY <1>3 DEF KeepsTables, history
<1> QED
  BY <1>1, <1>2, <1>4, <1>5, WriterBooked

LEMMA ReadRowBooked ==
    ASSUME TrafficTyped, InLine, Booked, NEW w \in Writers, ReadRow(w)
    PROVE  InLine' /\ Booked'
<1> DEFINE p == writers[w]
           f == p.report
           row == Row(p.month)
<1>1. /\ p.at = "row" /\ UNCHANGED pending /\ KeepsTables /\ Active(w)
      /\ p \in WriterType /\ f \in CounterReport
  BY WriterIs DEF ReadRow, Active
<1>2. UNCHANGED <<rows, daily, base, resetDay, pending, clock, counter, transferred>>
  BY <1>1 DEF KeepsTables, history, agent
<1>3. Covered(f) /\ p.month = Month(f)
  BY <1>1 DEF Booked, Coming, InLine, Handed
<1>4. CASE Done(w)
  BY <1>1, <1>2, <1>4, EndBooked
<1>5. CASE writers' = [writers EXCEPT ![w].at = "latest"] /\ row = NoRow
  <2> DEFINE q == [p EXCEPT !.at = "latest"]
  <2>1. /\ writers' = [writers EXCEPT ![w] = q] /\ q.at = "latest" /\ q.report = f
        /\ q.month = p.month
    BY <1>1, <1>5 DEF WriterType, TrafficTyped, WritersTyped
  <2> HIDE DEF q
  <2>2. InsertBooked(q)
    BY <1>3, <2>1 DEF InsertBooked
  <2>3. InLine' /\ Unread' = Unread
    BY <1>1, <1>2, <2>1, WriterInLine
  <2>4. Unread' \subseteq Unread
    BY <2>3
  <2> QED
    BY <1>2, <2>1, <2>2, <2>3, <2>4, WriterBooked
<1>6. CASE writers' = [writers EXCEPT ![w].at = "update", ![w].row = row] /\ row # NoRow
  <2>1. p.month \in DOMAIN rows /\ row = rows[p.month]
    BY <1>6 DEF Row
  <2>2. p.month = Latest.month /\ row = Latest /\ DOMAIN rows # {}
    <3>1. DOMAIN rows # {} /\ Filed
      BY <2>1 DEF Booked
    <3>2. Month(f) = Latest.month
      BY <1>1, <1>3, <2>1, <3>1, CoveredMonth
    <3> QED
      BY <1>3, <2>1, <3>1, <3>2, FiledIs
  <2> DEFINE q == [p EXCEPT !.at = "update", !.row = Latest]
  <2>3. /\ writers' = [writers EXCEPT ![w] = q] /\ q.at = "update" /\ q.report = f
        /\ q.month = p.month /\ q.row = Latest
    BY <1>1, <1>6, <2>2 DEF WriterType, TrafficTyped, WritersTyped
  <2> HIDE DEF q, row
  <2>4. UpdateBooked(q)
    <3>1. Latest.last \in Nat /\ Latest.day \in Int
      BY <2>2, FiledIs DEF Booked
    <3> QED
      BY <1>3, <2>2, <2>3, <3>1 DEF UpdateBooked, Covered
  <2>5. InLine' /\ Unread' = Unread
    BY <1>1, <1>2, <2>3, WriterInLine
  <2>6. Unread' \subseteq Unread
    BY <2>5
  <2> QED
    BY <1>2, <2>3, <2>4, <2>5, <2>6, WriterBooked
<1> QED
  BY <1>4, <1>5, <1>6 DEF ReadRow

LEMMA ReadLatestBooked ==
    ASSUME TrafficTyped, InLine, Booked, NEW w \in Writers, ReadLatest(w)
    PROVE  InLine' /\ Booked'
<1> DEFINE p == writers[w]
           q == [p EXCEPT !.at = "daily", !.row = Latest]
<1>1. /\ p.at = "latest" /\ UNCHANGED pending /\ KeepsTables /\ Active(w) /\ p \in WriterType
  BY WriterIs DEF ReadLatest, Active
<1>2. UNCHANGED <<rows, daily, base, resetDay, pending, clock, counter, transferred>>
  BY <1>1 DEF KeepsTables, history, agent
<1>3. /\ writers' = [writers EXCEPT ![w] = q] /\ q.at = "daily" /\ q.report = p.report
      /\ q.month = p.month /\ q.row = Latest
  BY <1>1 DEF ReadLatest, WriterType, TrafficTyped, WritersTyped
<1> HIDE DEF q
<1>4. InsertBooked(q)
  BY <1>1, <1>3 DEF Booked, Inserting, InsertBooked
<1>5. InLine' /\ Unread' = Unread
  BY <1>1, <1>2, <1>3, WriterInLine
<1>6. Unread' \subseteq Unread
  BY <1>5
<1> QED
  BY <1>2, <1>3, <1>4, <1>5, <1>6, WriterBooked

\* No day of a period that has no row is finished.
LEMMA NoDaysYet ==
    ASSUME TrafficTyped, Filed, NEW f \in CounterReport, Covered(f), Month(f) \notin DOMAIN rows
    PROVE  PeriodDays(Month(f)) \cap DOMAIN daily = {} /\ SumDays(PeriodDays(Month(f))) = 0
<1>1. PeriodDays(Month(f)) \cap DOMAIN daily = {}
  <2>1. CASE DOMAIN rows = {}
    BY <2>1 DEF Filed
  <2>2. CASE DOMAIN rows # {}
    <3>1. Latest.day < Month(f) /\ Latest.day \in Int /\ Month(f) \in Int
      BY <2>2, CoveredMonth, FiledIs, UnreadMonth
    <3>2. ASSUME NEW d \in DOMAIN daily, d \in PeriodDays(Month(f))
          PROVE  FALSE
      <4>1. d < Latest.day
        BY <2>2 DEF Filed
      <4>2. d \in Int /\ Month(f) <= d
        BY <3>1, <3>2, TrafficAssumption DEF PeriodDays
      <4> QED
        BY <3>1, <4>1, <4>2
    <3> QED
      BY <3>2
  <2> QED
    BY <2>1, <2>2
<1> QED
  BY <1>1, SumDaysIsTotal, TotalOfNone

LEMMA ReadDailyBooked ==
    ASSUME TrafficTyped, InLine, Booked, NEW w \in Writers, ReadDaily(w)
    PROVE  InLine' /\ Booked'
<1> DEFINE p == writers[w]
           s == SumDays(PeriodDays(p.month))
           q == [p EXCEPT !.at = "insert", !.sum = s]
<1>1. /\ p.at = "daily" /\ UNCHANGED pending /\ KeepsTables /\ Active(w) /\ p \in WriterType
      /\ p.report \in CounterReport
  BY WriterIs DEF ReadDaily, Active
<1>2. UNCHANGED <<rows, daily, base, resetDay, pending, clock, counter, transferred>>
  BY <1>1 DEF KeepsTables, history, agent
<1>3. /\ writers' = [writers EXCEPT ![w] = q] /\ q.at = "insert" /\ q.report = p.report
      /\ q.month = p.month /\ q.row = p.row /\ q.sum = s
  <2>1. writers' = [writers EXCEPT ![w].at = "insert", ![w].sum = s]
    BY DEF ReadDaily
  <2> HIDE DEF s
  <2> QED
    BY <1>1, <2>1 DEF WriterType, TrafficTyped, WritersTyped
<1> HIDE DEF q
<1>4. InsertBooked(q)
  <2>1. p.month = Month(p.report) /\ InsertBooked(p)
    BY <1>1 DEF InLine, Handed, Booked, Inserting
  <2>2. ASSUME p.month \notin DOMAIN rows
        PROVE  s = 0 /\ Covered(p.report) /\ p.row = Latest
    <3>1. Covered(p.report) /\ p.row = Latest
      BY <1>1, <2>1, <2>2 DEF InsertBooked
    <3> QED
      BY <1>1, <2>1, <2>2, <3>1, NoDaysYet DEF Booked
  <2> HIDE DEF s
  <2> QED
    BY <1>3, <2>2 DEF InsertBooked
<1>5. InLine' /\ Unread' = Unread
  BY <1>1, <1>2, <1>3, WriterInLine
<1>6. Unread' \subseteq Unread
  BY <1>5
<1> QED
  BY <1>2, <1>3, <1>4, <1>5, <1>6, WriterBooked

(***************************************************************************)
(* The books stay right: a row is written.                                 *)
(***************************************************************************)
\* The row becomes the newest, and every report not yet compared is covered.
LEMMA RowWritten ==
    ASSUME TrafficTyped, TrafficTyped', InLine, InLine', Booked, NEW w \in Writers, Active(w), Done(w),
           UNCHANGED <<resetDay, pending, clock, counter, transferred>>,
           NEW f, f = writers[w].report,
           NEW r \in RowType, r.month = writers[w].month, r.day = Day(f.ts), r.last = f.raw,
           r.upd = f.ts, rows' = With(rows, r.month, r),
           \A m \in DOMAIN rows : m <= r.month,
           base' \in Nat, Finished' + r.dayRx <= f.sent - base',
           \A d \in DOMAIN daily' : d < r.day
    PROVE  /\ Latest' = r /\ Filed' /\ Coming'
           /\ DOMAIN rows' = DOMAIN rows \cup {r.month} /\ r.month = Month(f)
<1>1. /\ f \in CounterReport /\ f.ts \in Nat /\ f.raw \in Nat /\ f.sent \in Nat
      /\ Day(f.ts) \in Nat /\ resetDay \in Int /\ Finished' \in Nat
  <2>1. f \in CounterReport
    BY WriterIs
  <2>2. Finished' \in Nat
    <3>1. Days(daily)'
      BY DEF TrafficTyped, TablesTyped, DaysTyped
    <3>2. Days(daily')
      BY <3>1 DEF Days
    <3> QED
      BY <3>2, TotalOfDays DEF Finished
  <2> QED
    BY <2>1, <2>2, UnreadMonth, ClockIs
<1>2. r.month = Month(f) /\ Period(r.day, resetDay) = r.month /\ r.month \in Int
  <2>1. r.month = Month(f)
    BY DEF InLine, Handed
  <2> QED
    BY <1>1, <2>1, UnreadMonth DEF Month
<1>3. /\ DOMAIN rows' = DOMAIN rows \cup {r.month} /\ rows'[r.month] = r
      /\ \A m \in DOMAIN rows : m # r.month => rows'[m] = rows[m]
  BY DEF With
<1>4. RowsOf(rows) /\ RowsOf(rows')
  <2>1. RowsOf(rows)'
    BY DEF TrafficTyped, TablesTyped, RowsTyped
  <2> QED
    BY <2>1, ClockIs DEF RowsOf
<1>5. ASSUME NEW m \in DOMAIN rows'
      PROVE  /\ m <= r.month /\ NewerRow(r, rows'[m]) /\ Period(Day(rows'[m].upd), resetDay) = m
  <2>1. CASE m = r.month
    <3>1. Period(Day(r.upd), resetDay) = r.month
      BY <1>2 DEF Month
    <3> QED
      BY <1>1, <1>2, <1>3, <2>1, <3>1 DEF NewerRow
  <2>2. CASE m # r.month
    <3>1. m \in DOMAIN rows /\ rows'[m] = rows[m] /\ m <= r.month
      BY <1>3, <2>2
    <3>2. rows[m].upd \in Nat /\ rows[m].month = m /\ m \in Int
      BY <1>4, <3>1 DEF RowsOf, RowType
    <3>3. Period(Day(rows[m].upd), resetDay) = m
      BY <3>1 DEF Booked, Filed
    <3>4. Period(Day(r.upd), resetDay) = r.month
      BY <1>2 DEF Month
    <3>5. rows[m].upd < r.upd
      <4>1. m < r.month
        BY <1>2, <2>2, <3>1, <3>2
      <4> QED
        BY <1>1, <3>2, <3>3, <3>4, <4>1, TimeOrder
    <3> QED
      BY <3>1, <3>3, <3>5 DEF NewerRow
  <2> QED
    BY <2>1, <2>2
<1>6. Latest' = r
  <2>1. r.month \in DOMAIN rows' /\ rows'[r.month] = r
    BY <1>3
  <2>2. LatestIn(rows') = rows'[r.month]
    BY <1>4, <1>5, <2>1, LatestUnique
  <2> QED
    BY <2>1, <2>2, LatestIsLatestIn
<1>7. Filed'
  <2>1. DOMAIN rows' # {}
    BY <1>3
  <2>2. Period(Latest'.day, resetDay') = r.month
    BY <1>2, <1>6
  <2>3. \A m \in DOMAIN rows' : m <= Latest'.month /\ Period(Day(rows'[m].upd), resetDay') = m
    BY <1>5, <1>6
  <2>4. Latest'.month \in DOMAIN rows' /\ Latest' = rows'[Latest'.month] /\ Latest'.last \in Nat
    BY <1>1, <1>3, <1>6
  <2> QED
    BY <1>6, <2>1, <2>2, <2>3, <2>4 DEF Filed, Period, Day
<1>8. ASSUME NEW g \in CounterReport, Before(f, g)
      PROVE  CoveredBy(Latest', Finished', base', g)
  <2>1. CoveredBy(r, Finished', base', g)
    BY <1>1, <1>8, CoveredNext
  <2> QED
    BY <1>6, <2>1
<1>9. Coming'
  <2>1. \A v \in Writers : writers'[v] = IF v = w THEN NoWriter ELSE writers[v]
    BY DEF Done, TrafficTyped, WritersTyped
  <2>2. Unread' = Unread
    BY DEF Unread, TakenNow
  <2>3. \A g \in Unread : g \in CounterReport /\ Before(f, g)
    BY ReportsAre DEF InLine, Handed
  <2>4. ASSUME NEW v \in Writers, writers'[v].at = "row"
        PROVE  writers'[v].report \in CounterReport /\ Before(f, writers'[v].report)
    <3>1. v # w /\ writers'[v] = writers[v]
      BY <2>1, <2>4 DEF NoWriter
    <3> QED
      BY <2>4, <3>1, WriterIs DEF InLine, Together, Active
  <2>5. \A g \in Unread' : CoveredBy(Latest', Finished', base', g)
    BY <1>8, <2>2, <2>3
  <2>6. \A v \in Writers : writers'[v].at = "row" =>
           CoveredBy(Latest', Finished', base', writers'[v].report)
    BY <1>8, <2>4
  <2> QED
    BY <2>5, <2>6 DEF Coming, Covered
<1> QED
  BY <1>2, <1>3, <1>6, <1>7, <1>9

\* The days after an update or insert has added the one that is over.
LEMMA DayFinished ==
    ASSUME TrafficTyped, NEW row \in RowType, row.day \notin DOMAIN daily, NEW today,
           Finalize(row, today), Matches(row), NEW P
    PROVE  /\ Total(daily', P \cap DOMAIN daily') =
                 Total(daily, P \cap DOMAIN daily)
                 + (IF row.day # today /\ row.day \in P THEN row.dayRx ELSE 0)
           /\ \A d \in DOMAIN daily' : d \in DOMAIN daily \/ (d = row.day /\ row.day # today)
<1>1. /\ Days(daily) /\ row.dayRx \in Nat /\ Total(daily, P \cap DOMAIN daily) \in Nat
  BY ClockIs, TotalOfDays DEF RowType
<1>2. CASE row.day # today /\ row.dayRx > 0
  <2>1. SumDays({row.day}) = 0
    BY <1>1, SumDaysIsTotal, TotalOfOne
  <2>2. 0 + row.dayRx = row.dayRx
    BY <1>1
  <2>3. daily' = With(daily, row.day, row.dayRx)
    BY <1>2, <2>1, <2>2 DEF Finalize
  <2>4. /\ DOMAIN daily' = DOMAIN daily \cup {row.day}
        /\ Total(daily', P \cap DOMAIN daily') =
              Total(daily, P \cap DOMAIN daily) + (IF row.day \in P THEN row.dayRx ELSE 0)
    <3>1. PICK v \in Nat : v = row.dayRx
      BY <1>1
    <3>2. TotalsWith(daily', daily, row.day, v)
      BY <1>1, <2>3, <3>1, TotalWithDay
    <3>3. PICK n \in Nat : n = Total(daily, P \cap DOMAIN daily)
      BY <1>1
    <3>4. row.day \in P => Total(daily', P \cap DOMAIN daily') = n + v
      BY <3>2, <3>3 DEF TotalsWith
    <3>5. row.day \notin P => Total(daily', P \cap DOMAIN daily') = n
      BY <3>2, <3>3 DEF TotalsWith
    <3>6. DOMAIN daily' = DOMAIN daily \cup {row.day}
      BY <3>2 DEF TotalsWith
    <3> QED
      BY <3>1, <3>3, <3>4, <3>5, <3>6
  <2> QED
    BY <1>2, <2>4
<1>3. CASE ~(row.day # today /\ row.dayRx > 0)
  <2>1. daily' = daily
    BY <1>3 DEF Finalize
  <2>2. (IF row.day # today /\ row.day \in P THEN row.dayRx ELSE 0) = 0
    BY <1>1, <1>3
  <2>3. PICK n \in Nat : n = Total(daily, P \cap DOMAIN daily)
    BY <1>1
  <2> QED
    BY <2>1, <2>2, <2>3
<1> QED
  BY <1>2, <1>3

\* What a matching update finds and leaves.
LEMMA UpdateBooks ==
    ASSUME TrafficTyped, InLine, Booked, NEW w \in Writers, writers[w].at = "update",
           Matches(writers[w].row), NEW row, row = writers[w].row, NEW f, f = writers[w].report,
           Finalize(row, Day(f.ts))
    PROVE  /\ row \in RowType /\ f \in CounterReport /\ row.dayRx \in Nat /\ row.last \in Nat
           /\ Delta(f.raw, row.last) \in Nat
           /\ DOMAIN rows # {} /\ row.month = Latest.month /\ writers[w].month = Latest.month
           /\ Latest.day = row.day /\ Latest.last = row.last /\ rows[row.month] = Latest
           /\ row.day <= Day(f.ts) /\ row.day \notin DOMAIN daily
           /\ Finished + row.dayRx + Delta(f.raw, row.last) <= f.sent - base
           /\ Finished \in Nat /\ Finished' = Finished + (IF row.day # Day(f.ts) THEN row.dayRx ELSE 0)
           /\ \A d \in DOMAIN daily' : d < Day(f.ts)
           /\ Updated(row, f) \in RowType
           /\ Finished' + Updated(row, f).dayRx = Finished + row.dayRx + Delta(f.raw, row.last)
<1>1. /\ row \in RowType /\ f \in CounterReport /\ row.dayRx \in Nat /\ row.day \in Int
      /\ f.raw \in Nat /\ Day(f.ts) \in Nat
  BY WriterIs, UnreadMonth DEF RowType
<1>2. /\ DOMAIN rows # {} /\ row.last \in Nat /\ writers[w].month = Latest.month
      /\ row.month = Latest.month
      /\ row.day = Latest.day => CoveredBy(row, Finished, base, f)
  BY DEF Booked, Updating, UpdateBooked
<1>3. rows[row.month] = Latest /\ Latest.day \in Int
  BY <1>2, FiledIs DEF Booked
<1>4. Latest.day = row.day /\ Latest.last = row.last
  BY <1>3 DEF Matches
<1>5. /\ row.day <= Day(f.ts)
      /\ Finished + row.dayRx + Delta(f.raw, row.last) <= f.sent - base
  BY <1>2, <1>4 DEF CoveredBy
<1>6. \A d \in DOMAIN daily : d < row.day /\ d \in Int
  BY <1>2, <1>4 DEF Booked, Filed, TrafficTyped, TablesTyped, DaysTyped
<1>7. row.day \notin DOMAIN daily
  BY <1>1, <1>6
<1>8. Finished' = Finished + (IF row.day # Day(f.ts) THEN row.dayRx ELSE 0)
  <2>1. Total(daily', Int \cap DOMAIN daily') =
           Total(daily, Int \cap DOMAIN daily)
           + (IF row.day # Day(f.ts) /\ row.day \in Int THEN row.dayRx ELSE 0)
    BY <1>1, <1>7, DayFinished
  <2> QED
    BY <1>1, <2>1 DEF Finished
<1>9. \A d \in DOMAIN daily' : d < Day(f.ts)
  <2>1. \A d \in DOMAIN daily' : d \in DOMAIN daily \/ (d = row.day /\ row.day # Day(f.ts))
    BY <1>1, <1>7, DayFinished
  <2> QED
    BY <1>1, <1>5, <1>6, <2>1
<1>10. Updated(row, f) \in RowType
  BY UpdatedTyped DEF Matches
<1>11. PICK d \in Nat : d = Delta(f.raw, row.last)
  BY <1>1, <1>2, DeltaIsNat
<1>12. PICK n \in Nat : n = Finished
  BY ReportsAre
<1>13. Finished' + Updated(row, f).dayRx = Finished + row.dayRx + Delta(f.raw, row.last)
  <2>1. Updated(row, f).dayRx = IF row.day = Day(f.ts) THEN row.dayRx + d ELSE d
    BY <1>11 DEF Updated, DayBytes
  <2>2. Finished' = n + (IF row.day # Day(f.ts) THEN row.dayRx ELSE 0)
    BY <1>8, <1>12
  <2> QED
    BY <1>1, <1>11, <1>12, <2>1, <2>2
<1> QED
  BY <1>1, <1>2, <1>3, <1>4, <1>5, <1>7, <1>8, <1>9, <1>10, <1>11, <1>12, <1>13

LEMMA WriteUpdateBooked ==
    ASSUME TrafficTyped, TrafficTyped', InLine, Booked, NEW w \in Writers, WriteUpdate(w)
    PROVE  InLine' /\ Booked'
<1> DEFINE p == writers[w]
<1>1. /\ p.at = "update" /\ Done(w) /\ Active(w)
      /\ UNCHANGED <<clock, resetDay, pending, base, counter, transferred>>
  BY UpdateIs DEF Active, agent
<1>2. CASE UNCHANGED <<rows, daily>>
  BY <1>1, <1>2, EndBooked
<1>3. CASE /\ Matches(p.row) /\ Finalize(p.row, Day(p.report.ts))
           /\ rows' = With(rows, p.row.month, Updated(p.row, p.report))
  <2>1. PICK row : row = p.row
    OBVIOUS
  <2>2. PICK f : f = p.report
    OBVIOUS
  <2>3. PICK r : r = Updated(row, f)
    OBVIOUS
  <2>4. /\ row \in RowType /\ f \in CounterReport /\ row.dayRx \in Nat
        /\ DOMAIN rows # {} /\ row.month = Latest.month /\ p.month = Latest.month
        /\ Latest.day = row.day /\ row.day <= Day(f.ts)
        /\ Finished + row.dayRx + Delta(f.raw, row.last) <= f.sent - base
        /\ Finished \in Nat /\ Finished' = Finished + (IF row.day # Day(f.ts) THEN row.dayRx ELSE 0)
        /\ \A d \in DOMAIN daily' : d < Day(f.ts)
        /\ r \in RowType
        /\ Finished' + r.dayRx = Finished + row.dayRx + Delta(f.raw, row.last)
    BY <1>1, <1>3, <2>1, <2>2, <2>3, UpdateBooks
  <2>5. /\ r.month = Latest.month /\ r.day = Day(f.ts) /\ r.last = f.raw /\ r.upd = f.ts
    BY <2>3, <2>4 DEF Updated
  <2>6. rows' = With(rows, r.month, r)
    BY <1>3, <2>1, <2>2, <2>3, <2>4, <2>5
  <2>7. InLine' /\ Unread' = Unread
    <3>1. NoWriter.at = "idle" /\ writers' = [writers EXCEPT ![w] = NoWriter]
      BY <1>1 DEF NoWriter, Done
    <3> QED
      BY <1>1, <3>1, WriterInLine
  <2>8. \A m \in DOMAIN rows : m <= r.month
    BY <2>4, <2>5 DEF Booked, Filed
  <2>9. base' \in Nat /\ base' = base
    BY <1>1, <2>4, FiledIs DEF Booked
  <2>10. Finished' + r.dayRx <= f.sent - base'
    BY <2>4, <2>9
  <2>11. \A d \in DOMAIN daily' : d < r.day
    BY <2>4, <2>5
  <2>12. r.month = p.month
    BY <2>4, <2>5
  <2>13. /\ Latest' = r /\ Filed' /\ Coming'
         /\ DOMAIN rows' = DOMAIN rows \cup {r.month}
    BY <1>1, <2>2, <2>4, <2>5, <2>6, <2>7, <2>8, <2>9, <2>10, <2>11, <2>12, RowWritten
  <2>14. DOMAIN rows' = DOMAIN rows /\ r.month \in DOMAIN rows
    BY <2>4, <2>5, <2>13, FiledIs DEF Booked
  <2>15. \A v \in Writers : writers'[v] = IF v = w THEN NoWriter ELSE writers[v]
    BY <1>1 DEF Done, TrafficTyped, WritersTyped
  <2>16. Updating'
    <3>1. ASSUME NEW v \in Writers, writers'[v].at = "update", NEW q, q = writers[v]
          PROVE  /\ writers'[v] = q /\ q.row.last \in Nat
                 /\ q.month = r.month /\ q.row.month = r.month /\ q.row.day <= r.day
                 /\ q.row.day = r.day => CoveredBy(q.row, Finished', base', q.report)
      <4>1. v # w /\ writers'[v] = q /\ q.at = "update"
        BY <2>15, <3>1 DEF NoWriter
      <4>2. UpdateBooked(q)
        BY <3>1, <4>1 DEF Booked, Updating
      <4>3. q.row.day \in Int /\ Latest.day \in Int /\ r.day \in Int /\ Latest.day <= r.day
        BY <2>4, <2>5, <3>1, WriterIs DEF RowType
      <4>4. q.row.day <= Latest.day
        BY <4>2 DEF UpdateBooked
      <4>5. q.row.day <= r.day
        BY <4>3, <4>4
      <4>6. ASSUME q.row.day = r.day
            PROVE  CoveredBy(q.row, Finished', base', q.report)
        <5>1. Latest.day = r.day /\ row.day = Day(f.ts)
          <6>1. Latest.day = r.day
            BY <4>3, <4>4, <4>6
          <6>2. Latest.day = row.day
            BY <2>4
          <6> QED
            BY <2>5, <6>1, <6>2
        <5>2. Finished' = Finished
          <6>1. Finished' = Finished + 0 /\ Finished \in Nat
            BY <2>4, <5>1
          <6> QED
            BY <6>1
        <5>3. CoveredBy(q.row, Finished, base, q.report)
          BY <4>2, <4>6, <5>1 DEF UpdateBooked
        <5> QED
          BY <2>9, <5>2, <5>3
      <4> QED
        BY <2>5, <4>1, <4>2, <4>5, <4>6 DEF UpdateBooked
    <3>2. DOMAIN rows' # {}
      BY <2>4, <2>14
    <3> QED
      BY <2>13, <3>1, <3>2 DEF Updating, UpdateBooked
  <2>17. Inserting'
    <3>1. ASSUME NEW v \in Writers, writers'[v].at # "idle"
          PROVE  writers'[v].month \in DOMAIN rows'
      <4>1. v # w /\ writers'[v] = writers[v] /\ Active(v)
        BY <2>15, <3>1 DEF NoWriter, Active
      <4>2. writers[v].month = p.month
        BY <1>1, <4>1 DEF InLine, Together
      <4> QED
        BY <2>12, <2>14, <4>1, <4>2
    <3> QED
      BY <3>1 DEF Inserting, InsertBooked
  <2> QED
    BY <2>7, <2>13, <2>16, <2>17 DEF Booked
<1> QED
  BY <1>2, <1>3, UpdateIs

\* What an insert finds and leaves.
LEMMA InsertBooks ==
    ASSUME TrafficTyped, InLine, Booked, NEW w \in Writers, writers[w].at = "insert",
           writers[w].month \notin DOMAIN rows, NEW p, p = writers[w], NEW f, f = p.report,
           Finalize(p.row, Day(f.ts)), base' = IF rows = <<>> THEN f.sent ELSE base
    PROVE  /\ f \in CounterReport /\ p.month = Month(f) /\ p.sum = 0 /\ Carried(p.row, p.month) = 0
           /\ Inserted(p).dayRx \in Nat /\ base' \in Nat
           /\ Inserted(p).dayRx = (IF DOMAIN rows = {} THEN 0 ELSE Delta(f.raw, Latest.last))
           /\ Inserted(p).upd = f.ts
           /\ DOMAIN rows = {} => base' = f.sent /\ Finished' = 0 /\ daily' = daily
           /\ DOMAIN rows # {} =>
                 /\ base' = base /\ Finished' = Finished + Latest.dayRx
                 /\ Delta(f.raw, Latest.last) \in Nat
           /\ Finished' + Inserted(p).dayRx <= f.sent - base'
           /\ \A m \in DOMAIN rows : m <= p.month
           /\ \A d \in DOMAIN daily' : d < p.month /\ d < Day(f.ts)
<1>1. /\ f \in CounterReport /\ f.raw \in Nat /\ f.ts \in Nat /\ f.sent \in Nat
      /\ Day(f.ts) \in Nat /\ p.month = Month(f) /\ p.month \in Int
  <2>1. f \in CounterReport
    BY WriterIs
  <2>2. p.month = Month(f)
    BY DEF InLine, Handed, Active
  <2> QED
    BY <2>1, <2>2, UnreadMonth
<1>2. Covered(f) /\ p.row = Latest /\ p.sum = 0
  BY DEF Booked, Inserting, InsertBooked
<1>3. p.month <= Day(f.ts)
  <2>1. Period(Day(f.ts), resetDay) <= Day(f.ts)
    BY <1>1, ClockIs, PeriodOfDay
  <2> QED
    BY <1>1, <2>1 DEF Month
<1>4. CASE DOMAIN rows = {}
  <2>1. Latest = NoRow /\ rows = <<>>
    BY <1>4 DEF Latest, Booked, Filed
  <2>2. /\ Latest.last = NoBaseline /\ Latest.dayRx = 0
    BY <2>1, NoRowTyped
  <2>3. Delta(f.raw, Latest.last) = 0 /\ Carried(p.row, p.month) = 0
    BY <1>2, <2>2 DEF Delta, Carried
  <2>4. Inserted(p).dayRx = 0 /\ Inserted(p).upd = f.ts
    BY <1>2, <2>1, <2>3 DEF Inserted
  <2>5. daily' = daily /\ DOMAIN daily = {}
    BY <1>2, <1>4, <2>2 DEF Finalize, Booked, Filed
  <2>6. Finished' = 0
    <3>1. Int \cap DOMAIN daily' = {}
      BY <2>5
    <3> QED
      BY <3>1, TotalOfNone DEF Finished
  <2>7. base' = f.sent
    BY <2>1
  <2>8. Finished' + Inserted(p).dayRx <= f.sent - base'
    BY <1>1, <2>4, <2>6, <2>7
  <2> QED
    BY <1>1, <1>2, <1>4, <2>3, <2>4, <2>5, <2>6, <2>7, <2>8
<1>5. CASE DOMAIN rows # {}
  <2> DEFINE delta == Delta(f.raw, Latest.last)
  <2>1. /\ Latest \in RowType /\ Latest.last \in Nat /\ Latest.day \in Int /\ Latest.dayRx \in Nat
        /\ Latest.upd \in Nat /\ Latest.month \in Int /\ base \in Nat /\ Latest = rows[Latest.month]
        /\ Latest.month \in DOMAIN rows
    BY <1>5, FiledIs DEF Booked
  <2>2. /\ Latest.month < p.month /\ Latest.day < p.month
        /\ ~InPeriod(Latest.day, p.month) /\ Latest.day # Day(f.ts)
        /\ Latest.upd < f.ts
    BY <1>1, <1>2, <1>5, CoveredMonth DEF Booked
  <2>3. Carried(p.row, p.month) = 0 /\ delta \in Nat
    BY <1>1, <1>2, <2>1, <2>2, DeltaIsNat DEF Carried
  <2>4. Inserted(p).dayRx = delta /\ Inserted(p).upd = f.ts
    <3>1. Inserted(p).dayRx = 0 + delta
      BY <1>2, <2>2 DEF Inserted
    <3>2. ~(Latest.upd >= f.ts)
      BY <1>1, <2>1, <2>2
    <3>3. Inserted(p).upd = f.ts
      BY <1>2, <3>2 DEF Inserted
    <3> HIDE DEF delta
    <3> QED
      BY <2>3, <3>1, <3>3
  <2>5. base' = base
    <3>1. rows # <<>>
      BY <1>5
    <3> QED
      BY <3>1
  <2>6. Matches(Latest)
    BY <2>1 DEF Matches
  <2>7. \A d \in DOMAIN daily : d < Latest.day /\ d \in Int
    BY <1>5 DEF Booked, Filed, TrafficTyped, TablesTyped, DaysTyped
  <2>8. Latest.day \notin DOMAIN daily
    BY <2>1, <2>7
  <2>9. /\ Finished' = Finished + Latest.dayRx
        /\ \A d \in DOMAIN daily' : d \in DOMAIN daily \/ d = Latest.day
    <3>1. Finalize(Latest, Day(f.ts))
      BY <1>2
    <3>2. PICK row \in RowType : row = Latest
      BY <2>1
    <3>3. /\ row.day \notin DOMAIN daily /\ Finalize(row, Day(f.ts)) /\ Matches(row)
          /\ row.day # Day(f.ts) /\ row.day \in Int
      BY <2>1, <2>2, <2>6, <2>8, <3>1, <3>2
    <3>4. /\ Total(daily', Int \cap DOMAIN daily') =
                Total(daily, Int \cap DOMAIN daily)
                + (IF row.day # Day(f.ts) /\ row.day \in Int THEN row.dayRx ELSE 0)
          /\ \A d \in DOMAIN daily' : d \in DOMAIN daily \/ (d = row.day /\ row.day # Day(f.ts))
      BY <3>3, DayFinished
    <3> QED
      BY <3>2, <3>3, <3>4 DEF Finished
  <2>10. \A d \in DOMAIN daily' : d < p.month /\ d < Day(f.ts)
    BY <1>1, <1>3, <2>1, <2>2, <2>7, <2>9
  <2>11. Finished' + Inserted(p).dayRx <= f.sent - base'
    <3>1. Finished + Latest.dayRx + delta <= f.sent - base
      BY <1>2, <1>5 DEF Covered, CoveredBy
    <3> QED
      BY <2>4, <2>5, <2>9, <3>1
  <2>12. \A m \in DOMAIN rows : m <= p.month
    <3>1. \A m \in DOMAIN rows : m <= Latest.month /\ m \in Int
      <4>1. \A m \in DOMAIN rows : m \in Int
        BY ClockIs DEF RowsOf, RowType
      <4> QED
        BY <1>5, <4>1 DEF Booked, Filed
    <3> QED
      BY <1>1, <2>1, <2>2, <3>1
  <2> HIDE DEF delta
  <2>13. Inserted(p).dayRx \in Nat /\ base' \in Nat
    BY <2>1, <2>3, <2>4, <2>5
  <2> QED
    BY <1>1, <1>2, <1>5, <2>3, <2>4, <2>5, <2>9, <2>10, <2>11, <2>12, <2>13 DEF delta
<1> QED
  BY <1>4, <1>5

LEMMA WriteInsertBooked ==
    ASSUME TrafficTyped, TrafficTyped', InLine, Booked, NEW w \in Writers, WriteInsert(w)
    PROVE  InLine' /\ Booked'
<1>1. PICK p : p = writers[w]
  OBVIOUS
<1>2. /\ p.at = "insert" /\ Done(w) /\ Active(w)
      /\ UNCHANGED <<clock, resetDay, pending, counter, transferred>>
  BY <1>1, InsertIs DEF Active, agent
<1>3. CASE UNCHANGED <<rows, daily, base>>
  BY <1>2, <1>3, EndBooked
<1>4. CASE /\ p.month \notin DOMAIN rows /\ Finalize(p.row, Day(p.report.ts))
           /\ rows' = With(rows, p.month, Inserted(p))
           /\ base' = IF rows = <<>> THEN p.report.sent ELSE base
  <2>1. PICK f : f = p.report
    OBVIOUS
  <2>2. PICK r : r = Inserted(p)
    OBVIOUS
  <2>3. /\ f \in CounterReport /\ p.month = Month(f) /\ base' \in Nat /\ r.upd = f.ts
        /\ Finished' + r.dayRx <= f.sent - base'
        /\ \A m \in DOMAIN rows : m <= p.month
        /\ \A d \in DOMAIN daily' : d < Day(f.ts)
    BY <1>1, <1>2, <1>4, <2>1, <2>2, InsertBooks
  <2>4. /\ r.month = p.month /\ r.day = Day(f.ts) /\ r.last = f.raw
    BY <2>1, <2>2 DEF Inserted
  <2>5. r \in RowType
    BY <1>1, <2>2, InsertedTyped
  <2>6. rows' = With(rows, r.month, r)
    BY <1>4, <2>2, <2>4
  <2>7. InLine' /\ Unread' = Unread
    <3>1. NoWriter.at = "idle" /\ writers' = [writers EXCEPT ![w] = NoWriter]
      BY <1>2 DEF NoWriter, Done
    <3> QED
      BY <1>2, <3>1, WriterInLine
  <2>8. \A d \in DOMAIN daily' : d < r.day
    BY <2>3, <2>4
  <2>9. (\A m \in DOMAIN rows : m <= r.month) /\ f = writers[w].report /\ r.month = writers[w].month
    BY <1>1, <2>1, <2>3, <2>4
  <2>10. /\ Latest' = r /\ Filed' /\ Coming'
         /\ DOMAIN rows' = DOMAIN rows \cup {r.month}
    BY <1>2, <2>3, <2>4, <2>5, <2>6, <2>7, <2>8, <2>9, RowWritten
  <2>11. \A v \in Writers : writers'[v] = IF v = w THEN NoWriter ELSE writers[v]
    BY <1>2 DEF Done, TrafficTyped, WritersTyped
  <2>12. ASSUME NEW v \in Writers, writers'[v].at # "idle"
         PROVE  writers'[v] = writers[v] /\ writers[v].month = p.month /\ writers'[v].month = p.month
    <3>1. v # w /\ writers'[v] = writers[v] /\ Active(v)
      BY <2>11, <2>12 DEF NoWriter, Active
    <3> QED
      BY <1>1, <1>2, <3>1 DEF InLine, Together
  <2>13. Updating'
    <3>1. ASSUME NEW v \in Writers, writers'[v].at = "update"
          PROVE  FALSE
      <4>1. writers[v].month = p.month /\ writers[v].at = "update"
        BY <2>12, <3>1
      <4>2. DOMAIN rows # {} /\ writers[v].month = Latest.month
        BY <4>1 DEF Booked, Updating, UpdateBooked
      <4>3. Latest.month \in DOMAIN rows
        BY <4>2, FiledIs DEF Booked
      <4> QED
        BY <1>4, <4>1, <4>2, <4>3
    <3> QED
      BY <3>1 DEF Updating
  <2>14. Inserting'
    <3>1. \A v \in Writers : writers'[v].at # "idle" => writers'[v].month \in DOMAIN rows'
      BY <2>4, <2>10, <2>12
    <3> QED
      BY <3>1 DEF Inserting, InsertBooked
  <2> QED
    BY <2>7, <2>10, <2>13, <2>14 DEF Booked
<1> QED
  BY <1>1, <1>3, <1>4, InsertIs

LEMMA AgentBooked ==
    ASSUME TrafficTyped, TrafficTyped', InLine, Booked,
           UNCHANGED <<pending, writers, resetDay, rows, daily, base>>, Before(TakenNow, TakenNow')
    PROVE  InLine' /\ Booked'
<1>1. InLine'
  BY AgentInLine
<1>2. \A f \in Unread' : \E g \in Unread : Before(g, f)
  <2>1. Unread' = {TakenNow'} \cup {pending[i] : i \in 1..Len(pending)}
    BY DEF Unread
  <2>2. TakenNow \in Unread /\ \A i \in 1..Len(pending) : pending[i] \in Unread
    BY DEF Unread
  <2>3. \A f \in Unread : Before(f, f)
    BY ReportsAre, BeforeFacts
  <2> QED
    BY <2>1, <2>2, <2>3
<1> QED
  BY <1>1, <1>2, ComingLater

LEMMA AgentBefore ==
    ASSUME TrafficTyped, Transfer \/ Reboot \/ TimePasses
    PROVE  /\ UNCHANGED <<pending, writers, resetDay, rows, daily, base, slipped, rebuild, rebuilds>>
           /\ Before(TakenNow, TakenNow')
<1>1. clock \in Nat /\ counter \in Nat /\ transferred \in Nat
  BY TrafficAssumption DEF TrafficTyped, Numbers
<1>2. UNCHANGED <<pending, writers, resetDay, rows, daily, base, slipped, rebuild, rebuilds>>
  BY DEF Transfer, Reboot, TimePasses, agent, history
<1>3. /\ clock <= clock' /\ transferred <= transferred'
      /\ transferred - counter <= transferred' - counter'
  <2>1. CASE Transfer
    BY <1>1, <2>1 DEF Transfer
  <2>2. CASE Reboot
    BY <1>1, <2>2 DEF Reboot
  <2>3. CASE TimePasses
    BY <1>1, <2>3 DEF TimePasses, agent
  <2> QED
    BY <2>1, <2>2, <2>3
<1> QED
  BY <1>2, <1>3 DEF Before, TakenNow

LEMMA ReportBooked ==
    ASSUME TrafficTyped, TrafficTyped', InLine, Booked, Report
    PROVE  InLine' /\ Booked'
<1>1. InLine' /\ Unread' = Unread
  BY ReportInLine
<1>2. UNCHANGED <<rows, daily, base, resetDay, writers>>
  BY DEF Report, history
<1>3. \A f \in Unread' : \E g \in Unread : Before(g, f)
  BY <1>1, ReportsAre, BeforeFacts
<1> QED
  BY <1>1, <1>2, <1>3, ComingLater

\* Without rebuilds only two steps of a request change the tables.
LEMMA WithoutRebuild ==
    ASSUME TrafficTyped, Books, [TrafficNext]_trafficVars, rebuilds' = 0
    PROVE  /\ rebuilds = 0 /\ rebuild.at = "idle" /\ rebuild'.at = "idle" /\ InLine /\ Booked
           /\ \/ Transfer \/ Reboot \/ TimePasses \/ Report
              \/ \E w \in Writers : \/ Start(w) \/ ReadRow(w) \/ ReadLatest(w) \/ ReadDaily(w)
                                    \/ WriteUpdate(w) \/ WriteInsert(w) \/ WriteFails(w)
              \/ UNCHANGED trafficVars
<1>1. rebuilds \in Nat
  BY DEF TrafficTyped, Numbers
<1>2. ~SaveResetDay
  <2>1. SaveResetDay => rebuilds' = rebuilds + 1
    BY DEF SaveResetDay
  <2>2. rebuilds' # rebuilds + 1
    BY <1>1
  <2> QED
    BY <2>1, <2>2
<1>3. CASE RebuildRead \/ RebuildDaily \/ RebuildWrite
  <2>1. rebuilds = 0 /\ rebuild.at # "idle"
    BY <1>3 DEF RebuildRead, RebuildDaily, RebuildWrite, history
  <2> QED
    BY <2>1 DEF Books
<1>4. CASE Transfer \/ Reboot \/ TimePasses \/ Report
  <2>1. rebuilds = 0 /\ rebuild' = rebuild
    BY <1>4 DEF Transfer, Reboot, TimePasses, Report, history
  <2> QED
    BY <1>4, <2>1 DEF Books
<1>5. ASSUME NEW w \in Writers,
             \/ Start(w) \/ ReadRow(w) \/ ReadLatest(w) \/ ReadDaily(w)
             \/ WriteUpdate(w) \/ WriteInsert(w) \/ WriteFails(w)
      PROVE  rebuilds = 0 /\ rebuild' = rebuild
  BY <1>5 DEF Start, ReadRow, ReadLatest, ReadDaily, WriteUpdate, WriteInsert, WriteFails,
              KeepsTables, history
<1>6. CASE UNCHANGED trafficVars
  <2>1. rebuilds = 0 /\ rebuild' = rebuild
    BY <1>6 DEF trafficVars, history
  <2> QED
    BY <1>6, <2>1 DEF Books
<1>7. CASE \E w \in Writers : \/ Start(w) \/ ReadRow(w) \/ ReadLatest(w) \/ ReadDaily(w)
                              \/ WriteUpdate(w) \/ WriteInsert(w) \/ WriteFails(w)
  <2>1. rebuilds = 0 /\ rebuild' = rebuild
    BY <1>5, <1>7
  <2> QED
    BY <1>7, <2>1 DEF Books
<1> QED
  BY <1>2, <1>3, <1>4, <1>6, <1>7 DEF TrafficNext

LEMMA BooksKept ==
    ASSUME TrafficTyped, TrafficTyped', InOrder = TRUE, Books, [TrafficNext]_trafficVars
    PROVE  Books'
<1> SUFFICES ASSUME rebuilds' = 0
             PROVE  rebuild'.at = "idle" /\ InLine' /\ Booked'
  BY DEF Books
<1>1. rebuild'.at = "idle" /\ InLine /\ Booked
  BY WithoutRebuild
<1>2. CASE Transfer \/ Reboot \/ TimePasses
  BY <1>1, <1>2, AgentBefore, AgentBooked
<1>3. CASE Report
  BY <1>1, <1>3, ReportBooked
<1>4. ASSUME NEW w \in Writers, Start(w) \/ ReadRow(w) \/ ReadLatest(w) \/ ReadDaily(w)
      PROVE  InLine' /\ Booked'
  BY <1>1, <1>4, StartBooked, ReadRowBooked, ReadLatestBooked, ReadDailyBooked
<1>5. ASSUME NEW w \in Writers, WriteUpdate(w) \/ WriteInsert(w)
      PROVE  InLine' /\ Booked'
  BY <1>1, <1>5, WriteUpdateBooked, WriteInsertBooked
<1>6. ASSUME NEW w \in Writers, WriteFails(w)
      PROVE  InLine' /\ Booked'
  <2>1. Active(w) /\ Done(w) /\ pending' = pending /\ KeepsTables
    BY <1>6 DEF WriteFails, Active
  <2>2. UNCHANGED <<rows, daily, base, resetDay, pending, clock, counter, transferred>>
    BY <2>1 DEF KeepsTables, history, agent
  <2> QED
    BY <1>1, <2>1, <2>2, EndBooked
<1>7. CASE UNCHANGED trafficVars
  <2>1. /\ UNCHANGED <<pending, writers, resetDay, rows, daily, base>>
        /\ UNCHANGED <<clock, counter, transferred>>
    BY <1>7 DEF trafficVars, agent, history
  <2>2. TakenNow' = TakenNow
    BY <2>1 DEF TakenNow
  <2>3. Before(TakenNow, TakenNow')
    BY <2>2, ReportsAre, BeforeFacts
  <2> QED
    BY <1>1, <2>1, <2>3, AgentBooked
<1> QED
  BY <1>1, <1>2, <1>3, <1>4, <1>5, <1>6, <1>7, WithoutRebuild

LEMMA BooksInit ==
    ASSUME TrafficInit
    PROVE  Books
<1>1. TrafficTyped
  BY TrafficInitTyped
<1>2. /\ rows = <<>> /\ DOMAIN rows = {} /\ DOMAIN daily = {} /\ rebuild.at = "idle"
      /\ pending = <<>> /\ Len(pending) = 0 /\ \A w \in Writers : writers[w].at = "idle"
  BY DEF TrafficInit, NoRebuild, NoWriter
<1>3. InLine
  BY <1>2 DEF InLine, Queued, Handed, Together, Active
<1>4. Booked
  BY <1>2 DEF Booked, Filed, Coming, Covered, Updating, Inserting
<1> QED
  BY <1>2, <1>3, <1>4 DEF Books

LEMMA BooksCover ==
    ASSUME TrafficTyped, Books
    PROVE  NeverOvercounts
<1> SUFFICES ASSUME rebuilds = 0, rows # <<>>
             PROVE  Credited <= transferred - base
  BY DEF NeverOvercounts
<1>1. Booked /\ DOMAIN rows # {}
  BY DEF Books, Booked, Filed
<1>2. TakenNow \in CounterReport /\ TakenNow.sent = transferred /\ Finished \in Nat
  BY ReportsAre
<1>3. CoveredBy(Latest, Finished, base, TakenNow)
  BY <1>1 DEF Booked, Coming, Covered, Unread
<1>4. Latest.last \in Nat /\ Latest.dayRx \in Nat /\ base \in Nat /\ transferred \in Nat
  BY <1>1, FiledIs DEF Booked, TrafficTyped, Numbers
<1>5. PICK d \in Nat : d = Delta(TakenNow.raw, Latest.last)
  BY <1>2, <1>4, DeltaIsNat DEF CounterReport
<1>6. Finished + Latest.dayRx + d <= transferred - base
  BY <1>2, <1>3, <1>5 DEF CoveredBy
<1>7. Finished + Latest.dayRx <= transferred - base
  BY <1>2, <1>4, <1>5, <1>6
<1> QED
  BY <1>7, CreditedIs

(***************************************************************************)
(* Reports that are written as they come never make the tables show more   *)
(* than was transferred: however they are throttled, fail, meet in the     *)
(* tables or are interrupted by reboots (persistAgentTraffic,              *)
(* metrics.js:859-928, with the baseline of rawTrafficDelta,               *)
(* metrics.js:769-775).                                                    *)
(***************************************************************************)
THEOREM TrafficNeverOvercounted ==
    ASSUME InOrder = TRUE
    PROVE  TrafficSpec => []NeverOvercounts
<1>1. TrafficInit => TrafficTyped /\ Books
  BY TrafficInitTyped, BooksInit
<1>2. TrafficTyped /\ Books /\ [TrafficNext]_trafficVars => TrafficTyped' /\ Books'
  BY TrafficStepTyped, BooksKept
<1>3. TrafficTyped /\ Books => NeverOvercounts
  BY BooksCover
<1> QED
  BY <1>1, <1>2, <1>3, PTL DEF TrafficSpec

(***************************************************************************)
(* The current period is the sum of its days.                              *)
(***************************************************************************)
HoldsIn(row, days) ==
    row.rx = Total(days, PeriodDays(row.month) \cap DOMAIN days)
             + (IF InPeriod(row.day, row.month) THEN row.dayRx ELSE 0)
DaysHeld == rebuilds = 0 /\ ~slipped => HoldsIn(Latest, daily)

LEMMA PeriodIsTotal == PeriodHoldsDays <=> HoldsIn(Latest, daily)
  BY SumDaysIsTotal DEF PeriodHoldsDays, HoldsIn

LEMMA InOwnPeriod ==
    ASSUME NEW d \in Int, NEW r \in Int
    PROVE  InPeriod(d, Period(d, r)) /\ d \in PeriodDays(Period(d, r))
<1>1. /\ Period(d, r) \in Int /\ Period(d, r) <= d /\ d < Period(d, r) + PeriodLength
      /\ PeriodLength \in Nat
  BY PeriodOfDay, TrafficAssumption
<1>2. d \in Period(d, r)..(Period(d, r) + PeriodLength - 1)
  BY <1>1
<1> QED
  BY <1>2 DEF InPeriod, PeriodDays

\* What an update or insert leaves as the newest row.
LEMMA NewestWritten ==
    ASSUME TrafficTyped, TrafficTyped', InOrder = TRUE, Books, Books', rebuilds' = 0, rebuilds = 0,
           NEW m \in Int, NEW r, rows' = With(rows, m, r), r.month = m,
           \A k \in DOMAIN rows : k <= m
    PROVE  Latest' = r
<1>1. /\ DOMAIN rows' # {} /\ DOMAIN rows' = DOMAIN rows \cup {m} /\ rows'[m] = r
  BY DEF With
<1>2. Latest'.month \in DOMAIN rows' /\ Latest' = rows'[Latest'.month] /\ m <= Latest'.month
  BY <1>1 DEF Books, Booked, Filed
<1>3. \A k \in DOMAIN rows' : k \in Int
  BY <1>1, ClockIs DEF RowsOf, RowType
<1>4. Latest'.month <= m
  BY <1>1, <1>2, <1>3
<1>5. Latest'.month = m
  BY <1>2, <1>3, <1>4
<1> QED
  BY <1>1, <1>2, <1>5

LEMMA DaysHeldKept ==
    ASSUME TrafficTyped, TrafficTyped', InOrder = TRUE, Books, Books', DaysHeld,
           [TrafficNext]_trafficVars
    PROVE  DaysHeld'
<1> SUFFICES ASSUME rebuilds' = 0, ~slipped'
             PROVE  HoldsIn(Latest', daily')
  BY DEF DaysHeld, HoldsIn, PeriodDays, InPeriod
<1>1. rebuilds = 0 /\ InLine /\ Booked
  BY WithoutRebuild
<1>2. CASE UNCHANGED <<rows, daily, slipped>>
  <2>1. Latest' = Latest
    BY <1>2 DEF Latest
  <2> QED
    BY <1>1, <1>2, <2>1 DEF DaysHeld
<1>3. ASSUME NEW w \in Writers, WriteUpdate(w), ~UNCHANGED <<rows, daily, slipped>>
      PROVE  HoldsIn(Latest', daily')
  <2> DEFINE p == writers[w]
  <2>1. PICK row : row = p.row
    OBVIOUS
  <2>2. PICK f : f = p.report
    OBVIOUS
  <2>3. PICK r : r = Updated(row, f)
    OBVIOUS
  <2>4. /\ p.at = "update" /\ Matches(row) /\ Finalize(row, Day(f.ts))
        /\ rows' = With(rows, row.month, r) /\ slipped' = (slipped \/ Slips(row))
        /\ UNCHANGED resetDay
    BY <1>3, <2>1, <2>2, <2>3, UpdateIs
  <2>5. /\ row \in RowType /\ f \in CounterReport /\ row.dayRx \in Nat /\ row.last \in Nat
        /\ Delta(f.raw, row.last) \in Nat
        /\ DOMAIN rows # {} /\ row.month = Latest.month /\ p.month = Latest.month
        /\ Latest.day = row.day /\ Latest.last = row.last /\ rows[row.month] = Latest
        /\ row.day \notin DOMAIN daily /\ r \in RowType
    BY <1>1, <2>1, <2>2, <2>3, <2>4, UpdateBooks
  <2>6. ~slipped /\ ~Slips(row)
    BY <2>4
  <2>7. Latest.dayRx = row.dayRx
    BY <2>5, <2>6 DEF Slips
  <2>8. /\ Latest.month \in Int /\ Latest.day \in Int /\ Latest.rx \in Nat /\ resetDay \in Int
        /\ Period(Latest.day, resetDay) = Latest.month
        /\ \A k \in DOMAIN rows : k <= Latest.month
        /\ p.month = Month(f) /\ Day(f.ts) \in Nat
    <3>1. p.month = Month(f)
      BY <1>1, <2>2, <2>4 DEF InLine, Handed, Active
    <3> QED
      BY <1>1, <2>5, <3>1, FiledIs, ClockIs, UnreadMonth DEF Booked, Filed
  <2>9. PICK d \in Nat : d = Delta(f.raw, row.last)
    BY <2>5
  <2>10. /\ r.month = Latest.month /\ r.rx = Latest.rx + d /\ r.day = Day(f.ts)
         /\ r.dayRx = (IF row.day = Day(f.ts) THEN row.dayRx + d ELSE d)
    BY <2>3, <2>5, <2>9 DEF Updated, DayBytes
  <2>11. Latest' = r
    BY <1>1, <2>4, <2>5, <2>8, <2>10, NewestWritten
  <2> DEFINE P == PeriodDays(Latest.month)
  <2>12. /\ InPeriod(Latest.day, Latest.month) /\ Latest.day \in P
         /\ InPeriod(r.day, r.month)
    <3>1. Period(r.day, resetDay) = r.month /\ r.day \in Int
      <4>1. Month(f) = Period(Day(f.ts), resetDay)
        BY DEF Month
      <4>2. r.month = Month(f) /\ r.day = Day(f.ts)
        BY <2>5, <2>8, <2>10
      <4> QED
        BY <2>8, <4>1, <4>2
    <3>2. InPeriod(r.day, r.month)
      <4>1. InPeriod(r.day, Period(r.day, resetDay))
        BY <2>8, <3>1, InOwnPeriod
      <4> QED
        BY <3>1, <4>1
    <3> QED
      BY <2>8, <3>2, InOwnPeriod
  <2>13. Total(daily', P \cap DOMAIN daily') =
            Total(daily, P \cap DOMAIN daily)
            + (IF row.day # Day(f.ts) /\ row.day \in P THEN row.dayRx ELSE 0)
    BY <2>4, <2>5, DayFinished
  <2>14. PICK n \in Nat : n = Total(daily, P \cap DOMAIN daily)
    BY ClockIs, TotalOfDays
  <2> HIDE DEF P
  <2>15. Latest.rx = n + row.dayRx
    <3>1. HoldsIn(Latest, daily)
      BY <1>1, <2>6 DEF DaysHeld
    <3> QED
      BY <2>7, <2>12, <2>14, <3>1 DEF HoldsIn, P
  <2>16. Total(daily', P \cap DOMAIN daily') = n + (IF row.day # Day(f.ts) THEN row.dayRx ELSE 0)
    BY <2>5, <2>12, <2>13, <2>14
  <2>17. r.rx = Total(daily', P \cap DOMAIN daily') + r.dayRx
    BY <2>5, <2>9, <2>10, <2>14, <2>15, <2>16
  <2>18. HoldsIn(r, daily')
    BY <2>10, <2>12, <2>17 DEF HoldsIn, P
  <2> QED
    BY <2>11, <2>18
<1>4. ASSUME NEW w \in Writers, WriteInsert(w), ~UNCHANGED <<rows, daily, slipped>>
      PROVE  HoldsIn(Latest', daily')
  <2>1. PICK p : p = writers[w]
    OBVIOUS
  <2>2. PICK f : f = p.report
    OBVIOUS
  <2>3. PICK r : r = Inserted(p)
    OBVIOUS
  <2>4. /\ p.at = "insert" /\ p.month \notin DOMAIN rows /\ Finalize(p.row, Day(f.ts))
        /\ rows' = With(rows, p.month, r) /\ base' = IF rows = <<>> THEN f.sent ELSE base
    BY <1>4, <2>1, <2>2, <2>3, InsertIs
  <2>5. /\ f \in CounterReport /\ p.month = Month(f) /\ p.sum = 0 /\ Carried(p.row, p.month) = 0
        /\ r.dayRx \in Nat
        /\ \A m \in DOMAIN rows : m <= p.month
        /\ \A d \in DOMAIN daily' : d < p.month /\ d < Day(f.ts)
    BY <1>1, <2>1, <2>2, <2>3, <2>4, InsertBooks
  <2>6. p.month \in Int /\ Day(f.ts) \in Nat /\ resetDay \in Int
    BY <2>5, UnreadMonth, ClockIs
  <2>7. r.month = p.month /\ r.day = Day(f.ts) /\ r.rx = r.dayRx
    <3>1. /\ r.month = p.month /\ r.day = Day(f.ts)
          /\ r.rx = 0 + 0 + Delta(f.raw, p.row.last) /\ r.dayRx = 0 + Delta(f.raw, p.row.last)
      BY <2>2, <2>3, <2>5 DEF Inserted
    <3>2. Delta(f.raw, p.row.last) \in Nat
      <4>1. p.row.last \in Nat \cup {NoBaseline} /\ f.raw \in Nat
        BY <2>1, <2>5, WriterIs, UnreadMonth DEF RowType
      <4> QED
        BY <4>1, DeltaIsNat
    <3> QED
      BY <3>1, <3>2
  <2>8. Latest' = r
    BY <1>1, <2>4, <2>5, <2>6, <2>7, NewestWritten
  <2>9. InPeriod(r.day, r.month)
    <3>1. Period(r.day, resetDay) = r.month /\ r.day \in Int
      BY <2>5, <2>6, <2>7 DEF Month
    <3> QED
      BY <2>6, <3>1, InOwnPeriod
  <2>10. PeriodDays(p.month) \cap DOMAIN daily' = {}
    <3>1. ASSUME NEW d \in DOMAIN daily', d \in PeriodDays(p.month)
          PROVE  FALSE
      <4>1. d < p.month /\ d \in Int /\ p.month <= d
        BY <2>5, <2>6, <3>1, TrafficAssumption DEF PeriodDays
      <4> QED
        BY <2>6, <4>1
    <3> QED
      BY <3>1
  <2>11. Total(daily', PeriodDays(r.month) \cap DOMAIN daily') = 0
    BY <2>7, <2>10, TotalOfNone
  <2>12. r.rx = 0 + r.dayRx
    BY <2>5, <2>7
  <2>13. HoldsIn(r, daily')
    BY <2>9, <2>11, <2>12 DEF HoldsIn
  <2> QED
    BY <2>8, <2>13
<1>5. ASSUME NEW w \in Writers, Start(w) \/ ReadRow(w) \/ ReadLatest(w) \/ ReadDaily(w) \/ WriteFails(w)
      PROVE  UNCHANGED <<rows, daily, slipped>>
  BY <1>5 DEF Start, ReadRow, ReadLatest, ReadDaily, WriteFails, KeepsTables, history
<1>6. CASE Transfer \/ Reboot \/ TimePasses \/ Report \/ UNCHANGED trafficVars
  <2>1. UNCHANGED <<rows, daily, slipped>>
    BY <1>6 DEF Transfer, Reboot, TimePasses, Report, trafficVars, history
  <2> QED
    BY <1>2, <2>1
<1> QED
  BY <1>2, <1>3, <1>4, <1>5, <1>6, WithoutRebuild

LEMMA DaysHeldInit ==
    ASSUME TrafficInit
    PROVE  DaysHeld
<1>1. DOMAIN rows = {} /\ DOMAIN daily = {}
  BY DEF TrafficInit
<1>2. Latest = NoRow
  BY <1>1 DEF Latest
<1>3. Total(daily, PeriodDays(NoRow.month) \cap DOMAIN daily) = 0
  <2>1. PeriodDays(NoRow.month) \cap DOMAIN daily = {}
    BY <1>1
  <2> QED
    BY <2>1, TotalOfNone
<1>4. NoRow.rx = 0 + (IF InPeriod(NoRow.day, NoRow.month) THEN NoRow.dayRx ELSE 0)
  BY NoRowTyped
<1> QED
  BY <1>2, <1>3, <1>4 DEF DaysHeld, HoldsIn

(***************************************************************************)
(* The period an administrator sees is the sum of its days, unless an      *)
(* update met the row as it had read it although other reports were        *)
(* written in between (the compare-and-set of metrics.js:887-889; what an  *)
(* update adds to the period and to the day, metrics.js:892-893, what an   *)
(* insert takes over, metrics.js:903-906, and the finished day,            *)
(* metrics.js:781-795).                                                    *)
(***************************************************************************)
THEOREM TrafficPeriodIsSumOfDays ==
    ASSUME InOrder = TRUE
    PROVE  TrafficSpec => []PeriodIsSumOfDays
<1>1. TrafficInit => TrafficTyped /\ Books /\ DaysHeld
  BY TrafficInitTyped, BooksInit, DaysHeldInit
<1>2. TrafficTyped /\ Books /\ DaysHeld /\ [TrafficNext]_trafficVars =>
         TrafficTyped' /\ Books' /\ DaysHeld'
  BY TrafficStepTyped, BooksKept, DaysHeldKept
<1>3. DaysHeld => PeriodIsSumOfDays
  BY PeriodIsTotal DEF DaysHeld, PeriodIsSumOfDays
<1> QED
  BY <1>1, <1>2, <1>3, PTL DEF TrafficSpec

(***************************************************************************)
(* Over one boot the tables credit exactly what was written: a report's    *)
(* counter is what was transferred when it was taken, no row that is read  *)
(* is ahead of a report, and an update that finds the counter as it read   *)
(* it finds the day's bytes as well.                                       *)
(***************************************************************************)
Behind(p, months, row) ==
    p.at = "row" \/ (p.at \in {"latest", "daily", "insert"} /\ p.month \notin months)
        => row.last <= p.report.raw
Unslipped(p, row) ==
    p.at = "update" =>
        /\ p.row.last <= row.last /\ p.row.last <= p.report.raw
        /\ p.row.last = row.last /\ p.row.day = row.day => p.row.dayRx = row.dayRx
ExactReports ==
    /\ \A f \in Unread : f.raw = f.sent
    /\ \A w \in Writers : Active(w) => writers[w].report.raw = writers[w].report.sent
ExactTables ==
    DOMAIN rows # {} =>
        /\ Finished + Latest.dayRx = Latest.last - base
        /\ \A f \in Unread : Latest.last <= f.raw
        /\ \A w \in Writers : Behind(writers[w], DOMAIN rows, Latest) /\ Unslipped(writers[w], Latest)
Exact == rebuilds = 0 /\ reboots = 0 => ExactReports /\ ExactTables

LEMMA ExactInit ==
    ASSUME TrafficInit
    PROVE  Exact
<1>1. /\ DOMAIN rows = {} /\ pending = <<>> /\ Len(pending) = 0 /\ counter = 0 /\ transferred = 0
      /\ \A w \in Writers : writers[w].at = "idle"
  BY DEF TrafficInit, NoWriter
<1>2. \A f \in Unread : f = TakenNow
  BY <1>1 DEF Unread
<1>3. TakenNow.raw = TakenNow.sent
  BY <1>1 DEF TakenNow
<1> QED
  BY <1>1, <1>2, <1>3 DEF Exact, ExactReports, ExactTables, Active

LEMMA AgentExact ==
    ASSUME TrafficTyped, TrafficTyped', Books, rebuilds = 0, ExactReports, ExactTables,
           UNCHANGED <<pending, writers, rows, daily, base>>,
           counter <= counter', transferred' - counter' = transferred - counter
    PROVE  ExactReports' /\ ExactTables'
<1>1. /\ TakenNow \in Unread /\ \A i \in 1..Len(pending) : pending[i] \in Unread
      /\ Unread' = {TakenNow'} \cup {pending[i] : i \in 1..Len(pending)}
      /\ TakenNow.raw = counter /\ TakenNow.sent = transferred
      /\ TakenNow'.raw = counter' /\ TakenNow'.sent = transferred'
  BY DEF Unread, TakenNow
<1>2. /\ counter \in Int /\ transferred \in Int /\ counter' \in Int /\ transferred' \in Int
      /\ counter = transferred
  <2>1. MaxCounter \in Nat
    BY TrafficAssumption
  <2>2. counter \in 0..MaxCounter /\ transferred \in Nat
    BY DEF TrafficTyped, Numbers
  <2>3. counter' \in 0..MaxCounter /\ transferred' \in Nat
    BY DEF TrafficTyped, Numbers
  <2>4. counter = transferred
    BY <1>1 DEF ExactReports
  <2> QED
    BY <2>1, <2>2, <2>3, <2>4
<1>3. ExactReports'
  <2>1. counter' = transferred'
    <3>1. transferred - counter = 0
      BY <1>2
    <3>2. transferred' - counter' = 0
      BY <3>1
    <3>3. PICK a \in Int, b \in Int : a = counter' /\ b = transferred'
      BY <1>2
    <3>4. b - a = 0
      BY <3>2, <3>3
    <3>5. a = b
      BY <3>4
    <3> QED
      BY <3>3, <3>5
  <2>2. \A f \in Unread' : f.raw = f.sent
    BY <1>1, <2>1 DEF ExactReports
  <2> QED
    BY <2>2 DEF ExactReports, Active
<1>4. Latest' = Latest /\ Finished' = Finished
  BY DEF Latest, Finished
<1>5. ExactTables'
  <2> SUFFICES ASSUME DOMAIN rows # {} PROVE ExactTables'
    BY DEF ExactTables
  <2>1. Latest.last \in Nat /\ Latest.last <= counter
    BY <1>1, FiledIs DEF Books, Booked, ExactTables
  <2>2. \A f \in Unread' : Latest.last <= f.raw
    <3>1. Latest.last <= counter'
      BY <1>2, <2>1
    <3>2. \A i \in 1..Len(pending) : Latest.last <= pending[i].raw
      BY <1>1 DEF ExactTables
    <3> QED
      BY <1>1, <3>1, <3>2
  <2> QED
    BY <1>4, <2>2 DEF ExactTables
<1> QED
  BY <1>3, <1>5

LEMMA ExactSame ==
    ASSUME UNCHANGED <<rows, daily, base>>, ExactReports, ExactTables, Unread' \subseteq Unread,
           \A w \in Writers :
              \/ writers'[w] = writers[w]
              \/ /\ writers'[w].at # "idle" => writers'[w].report.raw = writers'[w].report.sent
                 /\ DOMAIN rows # {} =>
                       Behind(writers'[w], DOMAIN rows, Latest) /\ Unslipped(writers'[w], Latest)
    PROVE  ExactReports' /\ ExactTables'
<1>1. Latest' = Latest /\ Finished' = Finished
  BY DEF Latest, Finished
<1>2. ExactReports'
  BY DEF ExactReports, Active
<1>3. ExactTables'
  BY <1>1 DEF ExactTables
<1> QED
  BY <1>2, <1>3

LEMMA WriterExact ==
    ASSUME TrafficTyped, UNCHANGED <<rows, daily, base>>, ExactReports, ExactTables,
           Unread' \subseteq Unread, NEW w \in Writers, NEW q, writers' = [writers EXCEPT ![w] = q],
           q.at # "idle" => q.report.raw = q.report.sent,
           DOMAIN rows # {} => Behind(q, DOMAIN rows, Latest) /\ Unslipped(q, Latest)
    PROVE  ExactReports' /\ ExactTables'
<1>1. \A v \in Writers : writers'[v] = IF v = w THEN q ELSE writers[v]
  BY DEF TrafficTyped, WritersTyped
<1> QED
  BY <1>1, ExactSame

LEMMA EndExact ==
    ASSUME TrafficTyped, UNCHANGED <<rows, daily, base>>, ExactReports, ExactTables,
           Unread' \subseteq Unread, NEW w \in Writers, Done(w)
    PROVE  ExactReports' /\ ExactTables'
<1>1. NoWriter.at = "idle" /\ writers' = [writers EXCEPT ![w] = NoWriter]
  BY DEF NoWriter, Done
<1>2. Behind(NoWriter, DOMAIN rows, Latest) /\ Unslipped(NoWriter, Latest)
  BY <1>1 DEF Behind, Unslipped
<1> QED
  BY <1>1, <1>2, WriterExact

LEMMA StartExact ==
    ASSUME TrafficTyped, InLine, ExactReports, ExactTables, InOrder = TRUE,
           NEW w \in Writers, Start(w)
    PROVE  ExactReports' /\ ExactTables'
<1>1. Unread' \subseteq Unread /\ UNCHANGED <<rows, daily, base>>
  BY StartInLine, StartIs DEF KeepsTables, history
<1>2. PICK q : /\ q.at = "row" /\ q.report = pending[1] /\ q.month = Month(pending[1])
               /\ writers' = [writers EXCEPT ![w] = q]
  BY StartIs
<1>3. pending[1] \in Unread
  BY StartIs DEF Unread
<1>4. q.report.raw = q.report.sent
  BY <1>2, <1>3 DEF ExactReports
<1>5. DOMAIN rows # {} => Behind(q, DOMAIN rows, Latest) /\ Unslipped(q, Latest)
  BY <1>2, <1>3 DEF ExactTables, Behind, Unslipped
<1> QED
  BY <1>1, <1>2, <1>4, <1>5, WriterExact

LEMMA ReadExact ==
    ASSUME TrafficTyped, TrafficTyped', Books, Books', rebuilds = 0, rebuilds' = 0,
           ExactReports, ExactTables, NEW w \in Writers, ReadRow(w) \/ ReadLatest(w) \/ ReadDaily(w)
    PROVE  ExactReports' /\ ExactTables'
<1> DEFINE p == writers[w]
<1>1. /\ p \in WriterType /\ p.at \in {"row", "latest", "daily"} /\ p.report.raw = p.report.sent
      /\ UNCHANGED <<rows, daily, base>>
  <2>1. p.at \in {"row", "latest", "daily"} /\ KeepsTables
    BY DEF ReadRow, ReadLatest, ReadDaily
  <2>2. p.report.raw = p.report.sent
    BY <2>1 DEF ExactReports, Active
  <2> QED
    <3>1. p \in WriterType
      BY WriterIs
    <3>2. UNCHANGED <<rows, daily, base>>
      BY <2>1 DEF KeepsTables, history
    <3> QED
      BY <2>1, <2>2, <3>1, <3>2
<1>2. Unread' = Unread /\ Latest' = Latest
  <2>1. UNCHANGED pending /\ KeepsTables
    BY DEF ReadRow, ReadLatest, ReadDaily
  <2> QED
    BY <2>1 DEF KeepsTables, agent, Unread, TakenNow, Latest
<1>3. CASE Done(w)
  BY <1>1, <1>2, <1>3, EndExact
<1>4. CASE writers' = [writers EXCEPT ![w].at = "latest"] /\ p.at = "row"
  <2> DEFINE q == [p EXCEPT !.at = "latest"]
  <2>1. writers' = [writers EXCEPT ![w] = q] /\ q.at = "latest" /\ q.report = p.report
    BY <1>1, <1>4 DEF WriterType, TrafficTyped, WritersTyped
  <2> HIDE DEF q
  <2>2. DOMAIN rows # {} => Behind(q, DOMAIN rows, Latest) /\ Unslipped(q, Latest)
    BY <1>4, <2>1 DEF ExactTables, Behind, Unslipped
  <2> QED
    BY <1>1, <1>2, <2>1, <2>2, WriterExact
<1>5. CASE \E row : writers' = [writers EXCEPT ![w].at = "daily", ![w].row = row] /\ p.at = "latest"
  <2>1. PICK row : writers' = [writers EXCEPT ![w].at = "daily", ![w].row = row] /\ p.at = "latest"
    BY <1>5
  <2> DEFINE q == [p EXCEPT !.at = "daily", !.row = row]
  <2>2. /\ writers' = [writers EXCEPT ![w] = q] /\ q.at = "daily" /\ q.report = p.report
        /\ q.month = p.month
    BY <1>1, <2>1 DEF WriterType, TrafficTyped, WritersTyped
  <2> HIDE DEF q
  <2>3. DOMAIN rows # {} => Behind(q, DOMAIN rows, Latest) /\ Unslipped(q, Latest)
    BY <2>1, <2>2 DEF ExactTables, Behind, Unslipped
  <2> QED
    BY <1>1, <1>2, <2>2, <2>3, WriterExact
<1>6. CASE \E sum : writers' = [writers EXCEPT ![w].at = "insert", ![w].sum = sum] /\ p.at = "daily"
  <2>1. PICK sum : writers' = [writers EXCEPT ![w].at = "insert", ![w].sum = sum] /\ p.at = "daily"
    BY <1>6
  <2> DEFINE q == [p EXCEPT !.at = "insert", !.sum = sum]
  <2>2. /\ writers' = [writers EXCEPT ![w] = q] /\ q.at = "insert" /\ q.report = p.report
        /\ q.month = p.month
    BY <1>1, <2>1 DEF WriterType, TrafficTyped, WritersTyped
  <2> HIDE DEF q
  <2>3. DOMAIN rows # {} => Behind(q, DOMAIN rows, Latest) /\ Unslipped(q, Latest)
    BY <2>1, <2>2 DEF ExactTables, Behind, Unslipped
  <2> QED
    BY <1>1, <1>2, <2>2, <2>3, WriterExact
<1>7. CASE /\ writers' = [writers EXCEPT ![w].at = "update", ![w].row = Row(p.month)]
           /\ Row(p.month) # NoRow /\ p.at = "row"
  <2>1. PICK row : row = Row(p.month)
    OBVIOUS
  <2> DEFINE q == [p EXCEPT !.at = "update", !.row = row]
  <2>2. writers' = [writers EXCEPT ![w].at = "update", ![w].row = row]
    BY <1>7, <2>1
  <2>3. /\ writers' = [writers EXCEPT ![w] = q] /\ q.at = "update" /\ q.report = p.report
        /\ q.month = p.month /\ q.row = row /\ writers'[w] = q
    BY <1>1, <2>2 DEF WriterType, TrafficTyped, WritersTyped
  <2> HIDE DEF q
  <2>4. p.month \in DOMAIN rows /\ row = rows[p.month]
    BY <1>7, <2>1 DEF Row
  <2>5. q.month = Latest.month
    <3>1. Updating'
      BY DEF Books, Booked
    <3>2. writers'[w].month = Latest'.month
      BY <2>3, <3>1 DEF Updating, UpdateBooked
    <3> QED
      BY <1>2, <2>3, <3>2
  <2>6. row = Latest /\ DOMAIN rows # {} /\ Latest.last \in Nat
    BY <2>3, <2>4, <2>5, FiledIs DEF Books, Booked
  <2>7. Behind(q, DOMAIN rows, Latest) /\ Unslipped(q, Latest)
    <3>1. Latest.last <= p.report.raw
      BY <1>7, <2>6 DEF ExactTables, Behind
    <3>2. Latest.last <= Latest.last
      BY <2>6
    <3> QED
      BY <2>3, <2>6, <3>1, <3>2 DEF Behind, Unslipped
  <2> QED
    BY <1>1, <1>2, <2>3, <2>7, WriterExact
<1>8. ReadRow(w) => Done(w) \/ (writers' = [writers EXCEPT ![w].at = "latest"] /\ p.at = "row")
                    \/ (/\ writers' = [writers EXCEPT ![w].at = "update", ![w].row = Row(p.month)]
                        /\ Row(p.month) # NoRow /\ p.at = "row")
  BY DEF ReadRow
<1>9. /\ ReadLatest(w) => \E row : writers' = [writers EXCEPT ![w].at = "daily", ![w].row = row] /\ p.at = "latest"
      /\ ReadDaily(w) => \E sum : writers' = [writers EXCEPT ![w].at = "insert", ![w].sum = sum] /\ p.at = "daily"
  BY DEF ReadLatest, ReadDaily
<1> QED
  BY <1>3, <1>4, <1>5, <1>6, <1>7, <1>8, <1>9

\* A row is written with the report's counter.
LEMMA RowExact ==
    ASSUME TrafficTyped, InLine, ExactReports, NEW w \in Writers, Active(w), Done(w),
           UNCHANGED <<pending, clock, counter, transferred>>,
           NEW f, f = writers[w].report, NEW r, Latest' = r, r.last = f.raw,
           Finished' + r.dayRx = f.raw - base',
           \A v \in Writers : v # w /\ Active(v) => writers[v].month \in DOMAIN rows',
           \A v \in Writers : v # w => Unslipped(writers[v], r)
    PROVE  ExactReports' /\ ExactTables'
<1>1. \A v \in Writers : writers'[v] = IF v = w THEN NoWriter ELSE writers[v]
  BY DEF Done, TrafficTyped, WritersTyped
<1>2. Unread' = Unread /\ NoWriter.at = "idle"
  BY DEF Unread, TakenNow, NoWriter
<1>3. ExactReports'
  BY <1>1, <1>2 DEF ExactReports, Active
<1>4. ASSUME NEW g \in CounterReport, Before(f, g), g.raw = g.sent
      PROVE  f.raw <= g.raw
  <2>1. f \in CounterReport /\ f.raw = f.sent
    BY WriterIs DEF ExactReports
  <2> QED
    BY <1>4, <2>1 DEF Before
<1>5. \A g \in Unread : f.raw <= g.raw
  BY <1>4, ReportsAre DEF InLine, Handed, ExactReports
<1>6. ASSUME NEW v \in Writers
      PROVE  Behind(writers'[v], DOMAIN rows', r) /\ Unslipped(writers'[v], r)
  <2>1. CASE v = w
    BY <1>1, <1>2, <2>1 DEF Behind, Unslipped
  <2>2. CASE v # w
    <3>1. writers'[v] = writers[v]
      BY <1>1, <2>2
    <3>2. ASSUME writers[v].at = "row"
          PROVE  f.raw <= writers[v].report.raw
      <4>1. Active(v) /\ Before(f, writers[v].report)
        BY <2>2, <3>2 DEF InLine, Together, Active
      <4> QED
        BY <1>4, <4>1, WriterIs DEF ExactReports
    <3>3. Behind(writers[v], DOMAIN rows', r)
      BY <2>2, <3>2 DEF Behind, Active
    <3> QED
      BY <2>2, <3>1, <3>3
  <2> QED
    BY <2>1, <2>2
<1>7. ExactTables'
  BY <1>2, <1>5, <1>6 DEF ExactTables
<1> QED
  BY <1>3, <1>7

LEMMA UpdateExact ==
    ASSUME TrafficTyped, TrafficTyped', InOrder = TRUE, Books, Books', rebuilds = 0, rebuilds' = 0,
           ExactReports, ExactTables, NEW w \in Writers, WriteUpdate(w)
    PROVE  ExactReports' /\ ExactTables'
<1> DEFINE p == writers[w]
<1>1. /\ p.at = "update" /\ Done(w) /\ Active(w)
      /\ UNCHANGED <<clock, resetDay, pending, base, counter, transferred>>
  BY UpdateIs DEF Active, agent
<1>2. CASE UNCHANGED <<rows, daily>>
  <2>1. Unread' \subseteq Unread
    BY <1>1 DEF Unread, TakenNow
  <2> QED
    BY <1>1, <1>2, <2>1, EndExact
<1>3. CASE /\ Matches(p.row) /\ Finalize(p.row, Day(p.report.ts))
           /\ rows' = With(rows, p.row.month, Updated(p.row, p.report))
  <2>1. PICK row : row = p.row
    OBVIOUS
  <2>2. PICK f : f = p.report
    OBVIOUS
  <2>3. PICK r : r = Updated(row, f)
    OBVIOUS
  <2>4. InLine /\ Booked
    BY DEF Books
  <2>5. /\ row \in RowType /\ f \in CounterReport /\ row.dayRx \in Nat /\ row.last \in Nat
        /\ DOMAIN rows # {} /\ row.month = Latest.month /\ p.month = Latest.month
        /\ Latest.day = row.day /\ Latest.last = row.last
        /\ row.day <= Day(f.ts) /\ Finished \in Nat /\ r \in RowType
        /\ Finished' + r.dayRx = Finished + row.dayRx + Delta(f.raw, row.last)
    BY <1>1, <1>3, <2>1, <2>2, <2>3, <2>4, UpdateBooks
  <2>6. /\ Latest.month \in Int /\ Latest.day \in Int /\ base \in Nat
        /\ Latest.month \in DOMAIN rows
        /\ \A k \in DOMAIN rows : k <= Latest.month
    BY <2>4, <2>5, FiledIs DEF Booked, Filed
  <2>7. /\ r.month = Latest.month /\ r.last = f.raw /\ r.day = Day(f.ts)
        /\ r.dayRx = (IF row.day = Day(f.ts) THEN row.dayRx + Delta(f.raw, row.last)
                                             ELSE Delta(f.raw, row.last))
    BY <2>3, <2>5 DEF Updated, DayBytes
  <2>8. rows' = With(rows, Latest.month, r)
    BY <1>3, <2>1, <2>2, <2>3, <2>5
  <2>9. Latest' = r
    BY <2>6, <2>7, <2>8, NewestWritten
  <2>10. /\ \A v \in Writers : Unslipped(writers[v], Latest)
         /\ Finished + Latest.dayRx = Latest.last - base
         /\ row.last <= f.raw /\ Latest.dayRx = row.dayRx
    <3>1. /\ \A v \in Writers : Unslipped(writers[v], Latest)
          /\ Finished + Latest.dayRx = Latest.last - base
      BY <2>5 DEF ExactTables
    <3>2. row.last <= f.raw /\ Latest.dayRx = row.dayRx
      BY <1>1, <2>1, <2>2, <2>5, <3>1 DEF Unslipped
    <3> QED
      BY <3>1, <3>2
  <2>11. f.raw \in Nat /\ Day(f.ts) \in Nat
    BY <2>5, UnreadMonth
  <2>12. Delta(f.raw, row.last) = f.raw - row.last
    BY <2>5, <2>10, <2>11 DEF Delta, NoBaseline
  <2>13. Finished' + r.dayRx = f.raw - base'
    <3>1. Finished + row.dayRx = row.last - base
      BY <2>5, <2>10
    <3>2. Finished' + r.dayRx = (Finished + row.dayRx) + (f.raw - row.last)
      BY <2>5, <2>12
    <3>3. base' = base
      BY <1>1
    <3> QED
      BY <2>5, <2>6, <2>11, <3>1, <3>2, <3>3
  <2>14. \A v \in Writers : v # w /\ Active(v) => writers[v].month \in DOMAIN rows'
    <3>1. \A v \in Writers : v # w /\ Active(v) => writers[v].month = p.month
      BY <1>1, <2>4 DEF InLine, Together
    <3>2. Latest.month \in DOMAIN rows'
      BY <2>8 DEF With
    <3> QED
      BY <2>5, <3>1, <3>2
  <2>15. ASSUME NEW v \in Writers, v # w
         PROVE  Unslipped(writers[v], r)
    <3> SUFFICES ASSUME writers[v].at = "update"
                 PROVE  Unslipped(writers[v], r)
      BY DEF Unslipped
    <3>1. PICK q : q = writers[v]
      OBVIOUS
    <3>2. /\ q.row.last \in Nat /\ q.row.day <= Latest.day
      BY <2>4, <3>1 DEF Booked, Updating, UpdateBooked
    <3>3. q.row.day \in Int
      BY <3>1, WriterIs
    <3>4. /\ q.row.last <= Latest.last /\ q.row.last <= q.report.raw
          /\ q.row.last = Latest.last /\ q.row.day = Latest.day => q.row.dayRx = Latest.dayRx
      BY <2>10, <3>1 DEF Unslipped
    <3>5. q.row.last <= r.last
      BY <2>5, <2>7, <2>10, <2>11, <3>2, <3>4
    <3>6. ASSUME q.row.last = r.last, q.row.day = r.day
          PROVE  q.row.dayRx = r.dayRx
      <4>1. q.row.last = Latest.last /\ f.raw = row.last
        BY <2>5, <2>7, <2>10, <2>11, <3>2, <3>4, <3>6
      <4>2. q.row.day = Latest.day /\ row.day = Day(f.ts)
        <5>1. Latest.day <= r.day /\ r.day \in Int
          BY <2>5, <2>7, <2>11
        <5>2. q.row.day = Latest.day
          BY <2>6, <3>2, <3>3, <3>6, <5>1
        <5> QED
          BY <2>5, <2>7, <3>6, <5>2
      <4>3. q.row.dayRx = row.dayRx
        BY <2>10, <3>4, <4>1, <4>2
      <4>4. r.dayRx = row.dayRx + (f.raw - row.last)
        BY <2>7, <2>12, <4>2
      <4> QED
        BY <2>5, <2>11, <4>1, <4>3, <4>4
    <3> QED
      BY <3>1, <3>4, <3>5, <3>6 DEF Unslipped
  <2> QED
    BY <1>1, <2>2, <2>4, <2>7, <2>9, <2>13, <2>14, <2>15, RowExact
<1> QED
  BY <1>2, <1>3, UpdateIs

LEMMA InsertExact ==
    ASSUME TrafficTyped, TrafficTyped', InOrder = TRUE, Books, Books', rebuilds = 0, rebuilds' = 0,
           ExactReports, ExactTables, NEW w \in Writers, WriteInsert(w)
    PROVE  ExactReports' /\ ExactTables'
<1>1. PICK p : p = writers[w]
  OBVIOUS
<1>2. /\ p.at = "insert" /\ Done(w) /\ Active(w)
      /\ UNCHANGED <<clock, resetDay, pending, counter, transferred>>
  BY <1>1, InsertIs DEF Active, agent
<1>3. CASE UNCHANGED <<rows, daily, base>>
  <2>1. Unread' \subseteq Unread
    BY <1>2 DEF Unread, TakenNow
  <2> QED
    BY <1>2, <1>3, <2>1, EndExact
<1>4. CASE /\ p.month \notin DOMAIN rows /\ Finalize(p.row, Day(p.report.ts))
           /\ rows' = With(rows, p.month, Inserted(p))
           /\ base' = IF rows = <<>> THEN p.report.sent ELSE base
  <2>1. PICK f : f = p.report
    OBVIOUS
  <2>2. PICK r : r = Inserted(p)
    OBVIOUS
  <2>3. InLine /\ Booked
    BY DEF Books
  <2>4. /\ f \in CounterReport /\ p.month = Month(f)
        /\ r.dayRx = (IF DOMAIN rows = {} THEN 0 ELSE Delta(f.raw, Latest.last))
        /\ DOMAIN rows = {} => base' = f.sent /\ Finished' = 0
        /\ DOMAIN rows # {} => base' = base /\ Finished' = Finished + Latest.dayRx
        /\ \A m \in DOMAIN rows : m <= p.month
    BY <1>1, <1>2, <1>4, <2>1, <2>2, <2>3, InsertBooks
  <2>5. /\ r.month = p.month /\ r.last = f.raw
    BY <2>1, <2>2 DEF Inserted
  <2>6. /\ p.month \in Int /\ f.raw \in Nat /\ f.sent \in Nat /\ f.raw = f.sent
    <3>1. f.raw = f.sent
      BY <1>1, <1>2, <2>1 DEF ExactReports
    <3> QED
      BY <2>4, <3>1, UnreadMonth
  <2>7. Latest' = r
    BY <1>4, <2>2, <2>4, <2>5, <2>6, NewestWritten
  <2>8. Finished' + r.dayRx = f.raw - base'
    <3>1. CASE DOMAIN rows = {}
      BY <2>4, <2>6, <3>1
    <3>2. CASE DOMAIN rows # {}
      <4>1. Latest.last \in Nat /\ base \in Nat /\ Latest.dayRx \in Nat /\ Finished \in Nat
        BY <2>3, <3>2, FiledIs, ReportsAre DEF Booked
      <4>2. Latest.last <= f.raw /\ Finished + Latest.dayRx = Latest.last - base
        BY <1>1, <1>2, <1>4, <2>1, <3>2 DEF ExactTables, Behind
      <4>3. r.dayRx = f.raw - Latest.last
        BY <2>4, <2>6, <3>2, <4>1, <4>2 DEF Delta, NoBaseline
      <4> QED
        BY <2>4, <2>6, <3>2, <4>1, <4>2, <4>3
    <3> QED
      BY <3>1, <3>2
  <2>9. \A v \in Writers : v # w /\ Active(v) => writers[v].month = p.month
    BY <1>1, <1>2, <2>3 DEF InLine, Together
  <2>10. \A v \in Writers : v # w /\ Active(v) => writers[v].month \in DOMAIN rows'
    <3>1. p.month \in DOMAIN rows'
      BY <1>4 DEF With
    <3> QED
      BY <2>9, <3>1
  <2>11. ASSUME NEW v \in Writers, v # w, writers[v].at = "update"
         PROVE  FALSE
    <3>1. writers[v].month = p.month
      BY <2>9, <2>11 DEF Active
    <3>2. DOMAIN rows # {} /\ writers[v].month = Latest.month
      BY <2>3, <2>11 DEF Booked, Updating, UpdateBooked
    <3>3. Latest.month \in DOMAIN rows
      BY <2>3, <3>2, FiledIs DEF Booked
    <3> QED
      BY <1>4, <3>1, <3>2, <3>3
  <2>12. \A v \in Writers : v # w => Unslipped(writers[v], r)
    BY <2>11 DEF Unslipped
  <2>13. f = writers[w].report
    BY <1>1, <2>1
  <2> QED
    BY <1>2, <2>3, <2>5, <2>7, <2>8, <2>10, <2>12, <2>13, RowExact
<1> QED
  BY <1>1, <1>3, <1>4, InsertIs

LEMMA ExactKept ==
    ASSUME TrafficTyped, TrafficTyped', InOrder = TRUE, Books, Books', Exact,
           [TrafficNext]_trafficVars
    PROVE  Exact'
<1> SUFFICES ASSUME rebuilds' = 0, reboots' = 0
             PROVE  ExactReports' /\ ExactTables'
  BY DEF Exact
<1>1. rebuilds = 0 /\ InLine /\ Booked
  BY WithoutRebuild
<1>2. ~Reboot
  <2>1. Reboot => reboots' = reboots + 1
    BY DEF Reboot
  <2>2. reboots' # reboots + 1
    BY DEF TrafficTyped, Numbers
  <2> QED
    BY <2>1, <2>2
<1>3. CASE Transfer \/ TimePasses \/ UNCHANGED trafficVars
  <2>1. /\ reboots = 0 /\ UNCHANGED <<pending, writers, rows, daily, base>>
        /\ \/ counter' = counter /\ transferred' = transferred
           \/ counter' = counter + 1 /\ transferred' = transferred + 1
    BY <1>3 DEF Transfer, TimePasses, trafficVars, agent, history
  <2>2. ExactReports /\ ExactTables
    BY <1>1, <2>1 DEF Exact
  <2>3. counter \in Int /\ transferred \in Int
    <3>1. counter \in 0..MaxCounter /\ MaxCounter \in Nat /\ transferred \in Nat
      BY TrafficAssumption DEF TrafficTyped, Numbers
    <3> QED
      BY <3>1
  <2>4. counter <= counter' /\ transferred' - counter' = transferred - counter
    BY <2>1, <2>3
  <2> QED
    BY <1>1, <2>1, <2>2, <2>4, AgentExact
<1>4. CASE Report
  <2>1. reboots = 0 /\ UNCHANGED <<rows, daily, base, writers>>
    BY <1>4 DEF Report, agent, history
  <2>2. ExactReports /\ ExactTables /\ Unread' \subseteq Unread
    BY <1>1, <1>4, <2>1, ReportInLine DEF Exact
  <2> QED
    BY <2>1, <2>2, ExactSame
<1>5. ASSUME NEW w \in Writers, \/ Start(w) \/ ReadRow(w) \/ ReadLatest(w) \/ ReadDaily(w)
                                \/ WriteUpdate(w) \/ WriteInsert(w) \/ WriteFails(w)
      PROVE  ExactReports' /\ ExactTables'
  <2>1. reboots' = reboots
    BY <1>5 DEF Start, ReadRow, ReadLatest, ReadDaily, WriteUpdate, WriteInsert, WriteFails,
                KeepsTables, agent
  <2>2. ExactReports /\ ExactTables
    BY <1>1, <2>1 DEF Exact
  <2>3. CASE Start(w)
    BY <1>1, <2>2, <2>3, StartExact
  <2>4. CASE ReadRow(w) \/ ReadLatest(w) \/ ReadDaily(w)
    BY <1>1, <2>2, <2>4, ReadExact
  <2>5. CASE WriteUpdate(w)
    BY <1>1, <2>2, <2>5, UpdateExact
  <2>6. CASE WriteInsert(w)
    BY <1>1, <2>2, <2>6, InsertExact
  <2>7. CASE WriteFails(w)
    <3>1. Done(w) /\ pending' = pending /\ KeepsTables
      BY <2>7 DEF WriteFails
    <3>2. Unread' \subseteq Unread /\ UNCHANGED <<rows, daily, base>>
      BY <3>1 DEF KeepsTables, agent, history, Unread, TakenNow
    <3> QED
      BY <2>2, <3>1, <3>2, EndExact
  <2> QED
    BY <1>5, <2>3, <2>4, <2>5, <2>6, <2>7
<1> QED
  BY <1>2, <1>3, <1>4, <1>5, WithoutRebuild

LEMMA ExactCounts ==
    ASSUME TrafficTyped, Books, Exact
    PROVE  CountsEveryByte
<1> SUFFICES ASSUME rebuilds = 0, reboots = 0, rows # <<>>
             PROVE  Credited = Latest.last - base
  BY DEF CountsEveryByte
<1>1. DOMAIN rows # {}
  BY DEF Books, Booked, Filed
<1> QED
  BY <1>1, CreditedIs DEF Exact, ExactTables

(***************************************************************************)
(* Over one boot no byte is lost either, and none counted twice: what the  *)
(* days show is the difference of the first and the last counter written   *)
(* (metrics.js:859-901: a report that is throttled or meets another one is *)
(* left to the delta of the next report).                                  *)
(***************************************************************************)
THEOREM TrafficCountsEveryByte ==
    ASSUME InOrder = TRUE
    PROVE  TrafficSpec => []CountsEveryByte
<1>1. TrafficInit => TrafficTyped /\ Books /\ Exact
  BY TrafficInitTyped, BooksInit, ExactInit
<1>2. TrafficTyped /\ Books /\ Exact /\ [TrafficNext]_trafficVars =>
         TrafficTyped' /\ Books' /\ Exact'
  BY TrafficStepTyped, BooksKept, ExactKept
<1>3. TrafficTyped /\ Books /\ Exact => CountsEveryByte
  BY ExactCounts
<1> QED
  BY <1>1, <1>2, <1>3, PTL DEF TrafficSpec

(***************************************************************************)
(* A rebuild nothing interferes with: what it has read is still what the   *)
(* tables hold.  Days only ever gain bytes, so days that are as they were  *)
(* seen were not written in between.                                       *)
(***************************************************************************)
Below(f, g) == \A d \in DOMAIN f : d \in DOMAIN g /\ f[d] <= g[d]
Dated ==
    /\ \A m \in DOMAIN rows : rows[m].day \in Nat
    /\ rebuild.latest = NoRow \/ rebuild.latest.day \in Nat
SumIn(p, days) == Total(days, PeriodDays(p.month) \cap DOMAIN days)
SeenBy(p, days) ==
    p.at \in {"daily", "write"} =>
        /\ p.latest = LatestIn(p.seen.rows)
        /\ Days(p.seen.daily) /\ Below(p.seen.daily, days)
        /\ p.at = "write" /\ p.seen.daily = days => p.sum = SumIn(p, days)
RowSeen == SeenBy(rebuild, daily)

LEMMA DayGrows ==
    ASSUME TrafficTyped, NEW row \in RowType, NEW today, Finalize(row, today),
           NEW f, Days(f), Below(f, daily)
    PROVE  Below(f, daily') /\ (daily' # daily => f # daily')
<1>1. Days(daily) /\ row.dayRx \in Nat
  BY ClockIs DEF RowType
<1>2. CASE daily' = daily
  BY <1>2
<1>3. CASE row.dayRx > 0 /\ daily' = With(daily, row.day, SumDays({row.day}) + row.dayRx)
  <2>1. PICK s \in Nat : s = SumDays({row.day})
    BY <1>1, SumDaysIsNat
  <2>2. row.day \in DOMAIN daily => s = daily[row.day]
    BY <1>1, <2>1, SumDaysIsTotal, TotalOfOne
  <2>3. PICK x \in Nat : x = s + row.dayRx
    BY <1>1
  <2>4. /\ DOMAIN daily' = DOMAIN daily \cup {row.day} /\ daily'[row.day] = x
        /\ \A d \in DOMAIN daily : d # row.day => daily'[d] = daily[d]
    BY <1>3, <2>1, <2>3 DEF With
  <2>5. x > s
    BY <1>1, <1>3, <2>3
  <2>6. Below(f, daily')
    <3>1. ASSUME NEW d \in DOMAIN f
          PROVE  d \in DOMAIN daily' /\ f[d] <= daily'[d]
      <4>1. d \in DOMAIN daily /\ f[d] <= daily[d] /\ f[d] \in Nat
        BY DEF Below, Days
      <4>2. CASE d = row.day
        BY <2>2, <2>4, <2>5, <4>1, <4>2
      <4>3. CASE d # row.day
        BY <2>4, <4>1, <4>3
      <4> QED
        BY <4>2, <4>3
    <3> QED
      BY <3>1 DEF Below
  <2>7. ASSUME f = daily'
        PROVE  FALSE
    <3>1. row.day \in DOMAIN f /\ f[row.day] = x
      BY <2>4, <2>7
    <3>2. row.day \in DOMAIN daily /\ x <= daily[row.day]
      BY <3>1 DEF Below
    <3> QED
      BY <2>2, <2>5, <3>2
  <2> QED
    BY <2>6, <2>7
<1> QED
  BY <1>2, <1>3 DEF Finalize

LEMMA SeenInit ==
    ASSUME TrafficInit
    PROVE  Dated /\ RowSeen
<1>1. DOMAIN rows = {} /\ rebuild.at = "idle" /\ rebuild.latest = NoRow
  BY DEF TrafficInit, NoRebuild
<1> QED
  BY <1>1 DEF Dated, RowSeen, SeenBy

LEMMA SeenSame ==
    ASSUME Dated, RowSeen, UNCHANGED <<rows, daily, rebuild>>
    PROVE  Dated' /\ RowSeen'
  BY DEF Dated, RowSeen

\* A request that writes a row of its report's day.
LEMMA SeenWritten ==
    ASSUME TrafficTyped, Dated, RowSeen, NEW row \in RowType, NEW today, Finalize(row, today),
           NEW m, NEW r, r.day \in Nat, rows' = With(rows, m, r), UNCHANGED rebuild
    PROVE  Dated' /\ RowSeen'
<1>1. Dated'
  <2>1. \A k \in DOMAIN rows' : rows'[k].day \in Nat
    BY DEF With, Dated
  <2> QED
    BY <2>1 DEF Dated
<1>2. RowSeen'
  <2> SUFFICES ASSUME rebuild.at \in {"daily", "write"}
               PROVE  SeenBy(rebuild, daily')
    BY DEF RowSeen, SeenBy
  <2>1. /\ rebuild.latest = LatestIn(rebuild.seen.rows)
        /\ Days(rebuild.seen.daily) /\ Below(rebuild.seen.daily, daily)
        /\ rebuild.at = "write" /\ rebuild.seen.daily = daily => rebuild.sum = SumIn(rebuild, daily)
    BY DEF RowSeen, SeenBy
  <2>2. Below(rebuild.seen.daily, daily') /\ (daily' # daily => rebuild.seen.daily # daily')
    BY <2>1, DayGrows
  <2> QED
    BY <2>1, <2>2 DEF SeenBy
<1> QED
  BY <1>1, <1>2

LEMMA SeenWriter ==
    ASSUME TrafficTyped, Dated, RowSeen, NEW w \in Writers, WriteUpdate(w) \/ WriteInsert(w)
    PROVE  Dated' /\ RowSeen'
<1> DEFINE p == writers[w]
<1>1. p.row \in RowType /\ Day(p.report.ts) \in Nat
  BY WriterIs, ReportOfWriter
<1>2. UNCHANGED rebuild
  BY DEF WriteUpdate, WriteInsert
<1>3. CASE UNCHANGED <<rows, daily>>
  BY <1>2, <1>3, SeenSame
<1>4. CASE Finalize(p.row, Day(p.report.ts)) /\ rows' = With(rows, p.row.month, Updated(p.row, p.report))
  <2>1. PICK m, r : m = p.row.month /\ r = Updated(p.row, p.report)
    OBVIOUS
  <2>2. r.day \in Nat /\ rows' = With(rows, m, r)
    BY <1>1, <1>4, <2>1 DEF Updated
  <2> QED
    BY <1>1, <1>2, <1>4, <2>2, SeenWritten
<1>5. CASE Finalize(p.row, Day(p.report.ts)) /\ rows' = With(rows, p.month, Inserted(p))
  <2>1. PICK m, r : m = p.month /\ r = Inserted(p)
    OBVIOUS
  <2>2. r.day \in Nat /\ rows' = With(rows, m, r)
    BY <1>1, <1>5, <2>1 DEF Inserted
  <2> QED
    BY <1>1, <1>2, <1>5, <2>2, SeenWritten
<1>6. WriteUpdate(w) => \/ UNCHANGED <<rows, daily>>
                        \/ /\ Finalize(p.row, Day(p.report.ts))
                           /\ rows' = With(rows, p.row.month, Updated(p.row, p.report))
  BY UpdateIs
<1>7. WriteInsert(w) => \/ UNCHANGED <<rows, daily>>
                        \/ /\ Finalize(p.row, Day(p.report.ts))
                           /\ rows' = With(rows, p.month, Inserted(p))
  BY InsertIs
<1> QED
  BY <1>3, <1>4, <1>5, <1>6, <1>7

LEMMA SeenRebuild ==
    ASSUME TrafficTyped, Dated, RowSeen, SaveResetDay \/ RebuildRead \/ RebuildDaily \/ RebuildWrite
    PROVE  Dated' /\ RowSeen'
<1>1. PICK s : rebuild \in RebuildType(s)
  BY RebuildIs
<1>2. CASE SaveResetDay
  <2>1. PICK r : rebuild' = [rebuild EXCEPT !.at = "read", !.ts = clock, !.month = Period(Day(clock), r)]
    BY <1>2 DEF SaveResetDay
  <2>2. rebuild'.at = "read" /\ rebuild'.latest = rebuild.latest /\ rows' = rows
    BY <1>1, <1>2, <2>1 DEF RebuildType, SaveResetDay
  <2> QED
    BY <2>2 DEF Dated, RowSeen, SeenBy
<1>3. CASE RebuildRead
  <2>1. PICK metric : rebuild' = [rebuild EXCEPT !.at = "daily", !.latest = Latest, !.metric = metric,
                                                 !.seen = [rows |-> rows, daily |-> daily]]
    BY <1>3 DEF RebuildRead
  <2>2. /\ rebuild'.at = "daily" /\ rebuild'.latest = Latest
        /\ rebuild'.seen.rows = rows /\ rebuild'.seen.daily = daily
        /\ rows' = rows /\ daily' = daily
    BY <1>1, <1>3, <2>1 DEF RebuildType, RebuildRead
  <2>3. Latest = LatestIn(rows)
    BY LatestIsLatestIn
  <2>4. Latest = NoRow \/ Latest.day \in Nat
    <3>1. CASE DOMAIN rows = {}
      BY <2>3, <3>1 DEF LatestIn
    <3>2. CASE DOMAIN rows # {}
      <4>1. PICK m \in DOMAIN rows : LatestIn(rows) = rows[m]
        BY <3>2, ClockIs, NewestExists
      <4> QED
        BY <2>3, <4>1 DEF Dated
    <3> QED
      BY <3>1, <3>2
  <2>5. Days(daily) /\ Below(daily, daily)
    BY ClockIs DEF Below, Days
  <2>6. Dated'
    BY <2>2, <2>4 DEF Dated
  <2>7. SeenBy(rebuild', daily')
    BY <2>2, <2>3, <2>5 DEF SeenBy
  <2> QED
    BY <2>6, <2>7 DEF RowSeen
<1>4. CASE RebuildDaily
  <2>1. PICK sum : sum = SumDays(PeriodDays(rebuild.month))
    OBVIOUS
  <2>2. /\ rebuild' = [rebuild EXCEPT !.at = "write", !.sum = sum] /\ rebuild.at = "daily"
        /\ rows' = rows /\ daily' = daily
    BY <1>4, <2>1 DEF RebuildDaily
  <2>3. /\ rebuild'.at = "write" /\ rebuild'.latest = rebuild.latest /\ rebuild'.month = rebuild.month
        /\ rebuild'.seen = rebuild.seen /\ rebuild'.sum = sum
    BY <1>1, <2>2 DEF RebuildType
  <2>4. sum = SumIn(rebuild', daily)
    BY <2>1, <2>3, SumDaysIsTotal DEF SumIn
  <2>5. Dated'
    BY <2>2, <2>3 DEF Dated
  <2>6. SeenBy(rebuild', daily')
    BY <2>2, <2>3, <2>4 DEF RowSeen, SeenBy
  <2> QED
    BY <2>5, <2>6 DEF RowSeen
<1>5. CASE RebuildWrite
  <2>1. PICK r : r = RebuiltRow(rebuild)
    OBVIOUS
  <2>2. rebuild' = NoRebuild /\ rows' = With(rows, rebuild.month, r)
    BY <1>5, <2>1, RebuildWriteIs
  <2>3. r.day \in Nat
    <3>1. r.day = IF rebuild.latest = NoRow THEN Day(rebuild.ts) ELSE rebuild.latest.day
      BY <2>1 DEF RebuiltRow
    <3> QED
      BY <3>1, RebuildIs DEF Dated
  <2>4. NoRebuild.at = "idle" /\ NoRebuild.latest = NoRow
    BY DEF NoRebuild
  <2>5. \A k \in DOMAIN rows' : rows'[k].day \in Nat
    BY <2>2, <2>3 DEF With, Dated
  <2> QED
    BY <2>2, <2>4, <2>5 DEF Dated, RowSeen, SeenBy
<1> QED
  BY <1>2, <1>3, <1>4, <1>5

LEMMA SeenKept ==
    ASSUME TrafficTyped, Dated, RowSeen, [TrafficNext]_trafficVars
    PROVE  Dated' /\ RowSeen'
<1>1. CASE SaveResetDay \/ RebuildRead \/ RebuildDaily \/ RebuildWrite
  BY <1>1, SeenRebuild
<1>2. ASSUME NEW w \in Writers, WriteUpdate(w) \/ WriteInsert(w)
      PROVE  Dated' /\ RowSeen'
  BY <1>2, SeenWriter
<1>3. ASSUME NEW w \in Writers, Start(w) \/ ReadRow(w) \/ ReadLatest(w) \/ ReadDaily(w) \/ WriteFails(w)
      PROVE  UNCHANGED <<rows, daily, rebuild>>
  BY <1>3 DEF Start, ReadRow, ReadLatest, ReadDaily, WriteFails, KeepsTables
<1>4. CASE Transfer \/ Reboot \/ TimePasses \/ Report \/ UNCHANGED trafficVars
  <2>1. UNCHANGED <<rows, daily, rebuild>>
    BY <1>4 DEF Transfer, Reboot, TimePasses, Report, trafficVars
  <2> QED
    BY <2>1, SeenSame
<1> QED
  BY <1>1, <1>2, <1>3, <1>4, SeenSame DEF TrafficNext

\* The row a rebuild writes is the newest, and its period the sum of its days.
LEMMA RebuiltNewest ==
    ASSUME TrafficTyped, TrafficTyped', Dated, RowSeen, RebuildWrite,
           rebuild.seen = [rows |-> rows, daily |-> daily]
    PROVE  Latest' = RebuiltRow(rebuild)
<1>1. PICK p : p = rebuild
  OBVIOUS
<1>2. PICK l : l = p.latest
  OBVIOUS
<1>3. PICK r : r = RebuiltRow(p)
  OBVIOUS
<1>4. /\ p.ts \in Nat /\ p.month \in Int /\ l \in RowType /\ l.upd \in Nat /\ l.month \in Int
      /\ r \in RowType /\ r.month = p.month /\ r.upd \in Nat
  <2>1. p.ts \in Nat /\ p.month \in Int /\ l \in RowType
    BY <1>1, <1>2, RebuildIs
  <2>2. r \in RowType /\ r.month = p.month
    BY <1>1, <1>3, RebuiltIs DEF RebuiltRow
  <2> QED
    BY <2>1, <2>2 DEF RowType
<1>5. rows' = With(rows, p.month, r)
  BY <1>1, <1>3, RebuildWriteIs
<1>6. l = LatestIn(rows)
  <2>1. rebuild.at = "write" /\ rebuild.seen.rows = rows
    BY RebuildWriteIs
  <2> QED
    BY <1>1, <1>2, <2>1 DEF RowSeen, SeenBy
<1>7. r.upd = RebuiltAt(l, p)
  BY <1>2, <1>3 DEF RebuiltRow
<1>8. /\ r.upd >= l.upd
      /\ l # NoRow /\ l.month # p.month => r.upd >= l.upd + 1
  BY <1>4, <1>7 DEF RebuiltAt
<1>9. ASSUME NEW k \in DOMAIN rows, k # p.month
      PROVE  NewerRow(r, rows[k])
  <2>1. PICK m \in DOMAIN rows : l = rows[m] /\ \A j \in DOMAIN rows : NewerRow(rows[m], rows[j])
    BY <1>6, ClockIs, NewestExists
  <2>2. rows[k].upd \in Nat /\ rows[k].month \in Int /\ NewerRow(l, rows[k])
    BY <2>1, ClockIs DEF RowsOf, RowType
  <2>3. l # NoRow
    BY <2>1, NoRowTyped DEF Dated
  <2>4. CASE l.month = p.month
    BY <1>4, <1>8, <2>2, <2>4 DEF NewerRow
  <2>5. CASE l.month # p.month
    BY <1>4, <1>8, <2>2, <2>3, <2>5 DEF NewerRow
  <2> QED
    BY <2>4, <2>5
<1>10. /\ DOMAIN rows' = DOMAIN rows \cup {p.month} /\ rows'[p.month] = r
       /\ \A k \in DOMAIN rows : k # p.month => rows'[k] = rows[k]
  BY <1>5 DEF With
<1>11. NewerRow(r, r)
  BY <1>4 DEF NewerRow
<1>12. \A k \in DOMAIN rows' : NewerRow(r, rows'[k])
  BY <1>9, <1>10, <1>11
<1>13. RowsOf(rows')
  <2>1. RowsOf(rows)'
    BY DEF TrafficTyped, TablesTyped, RowsTyped
  <2> QED
    BY <2>1 DEF RowsOf
<1>14. LatestIn(rows') = rows'[p.month]
  <2>1. p.month \in DOMAIN rows' /\ \A k \in DOMAIN rows' : NewerRow(rows'[p.month], rows'[k])
    BY <1>10, <1>12
  <2> QED
    BY <1>13, <2>1, LatestUnique
<1> QED
  BY <1>1, <1>3, <1>10, <1>14, LatestIsLatestIn

LEMMA RebuiltHolds ==
    ASSUME TrafficTyped, RowSeen, RebuildWrite, rebuild.seen = [rows |-> rows, daily |-> daily]
    PROVE  HoldsIn(RebuiltRow(rebuild), daily)
<1>1. PICK p : p = rebuild
  OBVIOUS
<1>2. PICK r : r = RebuiltRow(p)
  OBVIOUS
<1>3. /\ r.rx = p.sum + RebuiltDayRx(p) /\ r.dayRx = RebuiltDayRx(p) /\ r.month = p.month
      /\ r.day = IF p.latest = NoRow THEN Day(p.ts) ELSE p.latest.day
  BY <1>2 DEF RebuiltRow
<1>4. p.sum = Total(daily, PeriodDays(p.month) \cap DOMAIN daily)
  <2>1. p.at = "write" /\ p.seen.daily = daily
    BY <1>1, RebuildWriteIs
  <2> QED
    BY <1>1, <2>1 DEF RowSeen, SeenBy, SumIn
<1>5. RebuiltDayRx(p) = IF InPeriod(r.day, r.month) THEN r.dayRx ELSE 0
  <2>1. CASE p.latest = NoRow
    <3>1. p.latest.dayRx = 0 /\ p.latest.last = NoBaseline
      BY <2>1, NoRowTyped
    <3>2. RebuiltDayRx(p) \in {0, 0 + 0}
      BY <3>1 DEF RebuiltDayRx, Delta
    <3> QED
      BY <1>3, <3>2
  <2>2. CASE p.latest # NoRow
    BY <1>3, <2>2 DEF RebuiltDayRx
  <2> QED
    BY <2>1, <2>2
<1>6. r.rx = Total(daily, PeriodDays(r.month) \cap DOMAIN daily)
             + (IF InPeriod(r.day, r.month) THEN r.dayRx ELSE 0)
  BY <1>3, <1>4, <1>5
<1> QED
  BY <1>1, <1>2, <1>6 DEF HoldsIn

LEMMA RebuildIsCurrent ==
    ASSUME TrafficTyped, TrafficTyped', Dated, RowSeen, [TrafficNext]_trafficVars,
           rebuild.at = "write", rebuild'.at = "idle",
           rebuild.seen = [rows |-> rows, daily |-> daily]
    PROVE  Latest'.month = rebuild.month /\ PeriodHoldsDays'
<1>1. RebuildWrite
  <2>1. PICK s : rebuild \in RebuildType(s)
    BY RebuildIs
  <2>2. ~SaveResetDay /\ ~RebuildRead /\ ~RebuildDaily
    BY DEF SaveResetDay, RebuildRead, RebuildDaily
  <2>3. rebuild' # rebuild
    OBVIOUS
  <2>4. ~(Transfer \/ Reboot \/ TimePasses \/ Report \/ UNCHANGED trafficVars)
    BY <2>3 DEF Transfer, Reboot, TimePasses, Report, trafficVars
  <2>5. ASSUME NEW w \in Writers, \/ Start(w) \/ ReadRow(w) \/ ReadLatest(w) \/ ReadDaily(w)
                                  \/ WriteUpdate(w) \/ WriteInsert(w) \/ WriteFails(w)
        PROVE  FALSE
    BY <2>3, <2>5 DEF Start, ReadRow, ReadLatest, ReadDaily, WriteUpdate, WriteInsert, WriteFails,
                      KeepsTables
  <2> QED
    BY <2>2, <2>4, <2>5 DEF TrafficNext
<1>2. Latest' = RebuiltRow(rebuild) /\ daily' = daily
  BY <1>1, RebuiltNewest, RebuildWriteIs
<1>3. HoldsIn(Latest', daily')
  BY <1>1, <1>2, RebuiltHolds
<1>4. PeriodHoldsDays'
  <2>1. (PeriodHoldsDays <=> HoldsIn(Latest, daily))'
    BY PeriodIsTotal, PTL
  <2> QED
    BY <1>3, <2>1 DEF HoldsIn, PeriodDays, InPeriod
<1>5. Latest'.month = rebuild.month
  BY <1>2 DEF RebuiltRow
<1> QED
  BY <1>4, <1>5

(***************************************************************************)
(* The period a rebuild was asked for becomes the current one and holds    *)
(* its days, whatever the clocks, the reports that wait and the rows of    *)
(* other periods are, unless a report is written meanwhile                 *)
(* (rebuildAgentTrafficPeriod, metrics.js:797-857, with updated_at from    *)
(* metrics.js:832-833).                                                    *)
(***************************************************************************)
THEOREM TrafficRebuiltIsCurrent == TrafficSpec => RebuiltPeriodIsCurrent
<1>1. TrafficInit => TrafficTyped /\ Dated /\ RowSeen
  BY TrafficInitTyped, SeenInit
<1>2. TrafficTyped /\ Dated /\ RowSeen /\ [TrafficNext]_trafficVars => TrafficTyped' /\ Dated' /\ RowSeen'
  BY TrafficStepTyped, SeenKept
<1>3. TrafficTyped /\ Dated /\ RowSeen /\ [TrafficNext]_trafficVars =>
         [rebuild.at = "write" /\ rebuild'.at = "idle" /\ rebuild.seen = [rows |-> rows, daily |-> daily]
          => Latest'.month = rebuild.month /\ PeriodHoldsDays']_trafficVars
  BY TrafficStepTyped, RebuildIsCurrent
<1> QED
  BY <1>1, <1>2, <1>3, PTL DEF TrafficSpec, RebuiltPeriodIsCurrent
=============================================================================
