----------------------- MODULE TelemetryIngest_proofs -----------------------
(* Theorems about TelemetryIngest, for every value of its constants.         *)
EXTENDS TelemetryIngest, Integers, SequenceTheorems,
        FiniteSetTheorems, WellFoundedInduction, TLAPS

-----------------------------------------------------------------------------
(* Queues of reports.                                                        *)

ReportsIn(q) == {q[i] : i \in 1..Len(q)}

\* A set of natural numbers that is not empty has a least one.
LEMMA LeastNatural ==
    ASSUME NEW T, T \subseteq Nat, T # {}
    PROVE  \E m \in T : \A k \in T : m <= k
<1> DEFINE Less == {ss \in Nat \X Nat : ss[1] < ss[2]}
<1>1. IsWellFoundedOn(Less, Nat)
  BY NatLessThanWellFounded DEF OpToRel
<1>2. PICK m \in T : \A k \in T : ~(<<k, m>> \in Less)
  <2> HIDE DEF Less
  <2> QED
    BY <1>1, WFMin
<1>3. ASSUME NEW k \in T
      PROVE  m <= k
  <2>1. ~(<<k, m>> \in Less) /\ k \in Nat /\ m \in Nat
    BY <1>2
  <2>2. ~(k < m)
    BY <2>1
  <2> QED
    BY <2>1, <2>2
<1> QED
  BY <1>2, <1>3

LEMMA IdsAreOfReports ==
    ASSUME NEW q
    PROVE  Ids(q) = {x.id : x \in ReportsIn(q)}
  BY DEF Ids, ReportsIn

LEMMA EmptyQueue ==
    /\ ReportsIn(<<>>) = {} /\ Ids(<<>>) = {} /\ Len(<<>>) = 0
    /\ <<>> \in Seq(ReportType)
  BY DEF ReportsIn, Ids

\* A queue is what is dropped from it and what stays.
LEMMA Dropping ==
    ASSUME NEW S, NEW q \in Seq(S), NEW n \in 0..Len(q)
    PROVE  /\ WithoutOldest(q, n) \in Seq(S)
           /\ Len(WithoutOldest(q, n)) = Len(q) - n
           /\ ReportsIn(WithoutOldest(q, n)) \subseteq ReportsIn(q)
           /\ Ids(q) = Oldest(q, n) \cup Ids(WithoutOldest(q, n))
           /\ n < Len(q) => Last(WithoutOldest(q, n)) = Last(q)
<1> DEFINE w == SubSeq(q, n + 1, Len(q))
           o == SubSeq(q, 1, n)
<1>1. /\ w \in Seq(S) /\ Len(w) = Len(q) - n
      /\ \A i \in 1..Len(w) : w[i] = q[i + n]
  OBVIOUS
<1>2. /\ Len(o) = n
      /\ \A i \in 1..n : o[i] = q[i]
  OBVIOUS
<1>3. WithoutOldest(q, n) = w /\ Oldest(q, n) = Ids(o)
  BY DEF WithoutOldest, Oldest
<1> HIDE DEF w, o
<1>4. ReportsIn(w) \subseteq ReportsIn(q)
  <2>1. ASSUME NEW i \in 1..Len(w)
        PROVE  w[i] \in ReportsIn(q)
    <3>1. i + n \in 1..Len(q) /\ w[i] = q[i + n]
      BY <1>1
    <3> QED
      BY <3>1 DEF ReportsIn
  <2> QED
    BY <2>1 DEF ReportsIn
<1>5. Ids(q) \subseteq Ids(o) \cup Ids(w)
  <2>1. ASSUME NEW i \in 1..Len(q)
        PROVE  q[i].id \in Ids(o) \cup Ids(w)
    <3>1. CASE i <= n
      <4>1. i \in 1..Len(o) /\ o[i] = q[i]
        BY <1>2, <3>1
      <4> QED
        BY <4>1 DEF Ids
    <3>2. CASE ~(i <= n)
      <4>1. i - n \in 1..Len(w) /\ w[i - n] = q[(i - n) + n] /\ (i - n) + n = i
        BY <1>1, <3>2
      <4> QED
        BY <4>1 DEF Ids
    <3> QED
      BY <3>1, <3>2
  <2> QED
    BY <2>1 DEF Ids
<1>6. Ids(o) \subseteq Ids(q)
  <2>1. \A i \in 1..Len(o) : i \in 1..Len(q) /\ o[i] = q[i]
    BY <1>2
  <2> QED
    BY <2>1 DEF Ids
<1>7. Ids(w) \subseteq Ids(q)
  BY <1>4, IdsAreOfReports
<1>8. n < Len(q) => Last(w) = Last(q)
  BY <1>1 DEF Last
<1> QED
  BY <1>1, <1>3, <1>4, <1>5, <1>6, <1>7, <1>8

LEMMA Appending ==
    ASSUME NEW S, NEW q \in Seq(S), NEW x \in S
    PROVE  /\ Append(q, x) \in Seq(S) /\ Len(Append(q, x)) = Len(q) + 1
           /\ Len(q) + 1 \in Nat \ {0}
           /\ ReportsIn(Append(q, x)) = ReportsIn(q) \cup {x}
           /\ Ids(Append(q, x)) = Ids(q) \cup {x.id}
           /\ Last(Append(q, x)) = x
<1> DEFINE a == Append(q, x)
<1>1. /\ a \in Seq(S) /\ Len(a) = Len(q) + 1 /\ Len(q) \in Nat
      /\ \A i \in 1..Len(q) : a[i] = q[i]
      /\ a[Len(q) + 1] = x
  OBVIOUS
<1> HIDE DEF a
<1>2. ReportsIn(a) \subseteq ReportsIn(q) \cup {x}
  <2>1. ASSUME NEW i \in 1..Len(a)
        PROVE  a[i] \in ReportsIn(q) \cup {x}
    <3>1. i \in 1..Len(q) \/ i = Len(q) + 1
      BY <1>1
    <3> QED
      BY <1>1, <3>1 DEF ReportsIn
  <2> QED
    BY <2>1 DEF ReportsIn
<1>3. ReportsIn(q) \cup {x} \subseteq ReportsIn(a)
  <2>1. 1..Len(q) \subseteq 1..Len(a) /\ Len(q) + 1 \in 1..Len(a)
    BY <1>1
  <2> QED
    BY <1>1, <2>1 DEF ReportsIn
<1>4. ReportsIn(a) = ReportsIn(q) \cup {x}
  BY <1>2, <1>3
<1>5. Ids(a) = Ids(q) \cup {x.id}
  BY <1>4, IdsAreOfReports
<1>6. Last(a) = x
  BY <1>1 DEF Last
<1> QED
  BY <1>1, <1>4, <1>5, <1>6 DEF a

LEMMA Joining ==
    ASSUME NEW S, NEW q \in Seq(S), NEW p \in Seq(S)
    PROVE  /\ q \o p \in Seq(S) /\ Len(q \o p) = Len(q) + Len(p)
           /\ ReportsIn(q \o p) \subseteq ReportsIn(q) \cup ReportsIn(p)
           /\ Ids(q) \cup Ids(p) \subseteq Ids(q \o p)
<1> DEFINE j == q \o p
<1>1. /\ j \in Seq(S) /\ Len(j) = Len(q) + Len(p) /\ Len(q) \in Nat /\ Len(p) \in Nat
      /\ \A i \in 1..Len(q) : j[i] = q[i]
      /\ \A i \in 1..Len(p) : j[i + Len(q)] = p[i]
  BY ConcatProperties
<1> HIDE DEF j
<1>2. ReportsIn(j) \subseteq ReportsIn(q) \cup ReportsIn(p)
  <2>1. ASSUME NEW i \in 1..Len(j)
        PROVE  j[i] \in ReportsIn(q) \cup ReportsIn(p)
    <3>1. CASE i <= Len(q)
      <4>1. i \in 1..Len(q)
        BY <1>1, <3>1
      <4> QED
        BY <1>1, <4>1 DEF ReportsIn
    <3>2. CASE ~(i <= Len(q))
      <4>1. i - Len(q) \in 1..Len(p) /\ (i - Len(q)) + Len(q) = i
        BY <1>1, <3>2
      <4>2. j[i] = p[i - Len(q)]
        BY <1>1, <4>1
      <4> QED
        BY <4>1, <4>2 DEF ReportsIn
    <3> QED
      BY <3>1, <3>2
  <2> QED
    BY <2>1 DEF ReportsIn
<1>3. Ids(q) \subseteq Ids(j)
  <2>1. 1..Len(q) \subseteq 1..Len(j)
    BY <1>1
  <2> QED
    BY <1>1, <2>1 DEF Ids
<1>4. Ids(p) \subseteq Ids(j)
  <2>1. \A i \in 1..Len(p) : i + Len(q) \in 1..Len(j)
    BY <1>1
  <2> QED
    BY <1>1, <2>1 DEF Ids
<1> QED
  BY <1>1, <1>2, <1>3, <1>4 DEF j

\* The loop sheds what the bounds say, and never the newest report.
LEMMA ShedBound ==
    ASSUME NEW S, NEW q \in Seq(S), Len(q) > 0, NEW bytes \in Int
    PROVE  /\ Shed(q, bytes) \in 0..(Len(q) - 1)
           /\ Len(q) - Shed(q, bytes) <= MaxReports
<1> DEFINE Over(k) == \/ Len(q) - k > MaxReports
                      \/ bytes - k > MaxBytes /\ Len(q) - k > 1
           Least(n) == ~Over(n) /\ \A k \in 0..(n - 1) : Over(k)
           byCount == IF Len(q) > MaxReports THEN Len(q) - MaxReports ELSE 0
           byBytes == IF bytes - MaxBytes < Len(q) - 1 THEN bytes - MaxBytes ELSE Len(q) - 1
           n0 == IF byBytes > byCount THEN byBytes ELSE byCount
<1>0. /\ MaxReports \in Nat \ {0} /\ MaxBytes \in Nat \ {0} /\ Len(q) \in Nat
  BY IngestAssumption
<1>1. n0 \in 0..Len(q) /\ Least(n0)
  BY <1>0
<1>2. Shed(q, bytes) = CHOOSE n \in 0..Len(q) : Least(n)
  BY DEF Shed
<1> HIDE DEF n0, Least
<1>3. PICK n \in 0..Len(q) : n = Shed(q, bytes) /\ Least(n)
  BY <1>1, <1>2
<1>4. ~Over(n) /\ \A k \in 0..(n - 1) : Over(k)
  BY <1>3 DEF Least
<1>5. Len(q) - n <= MaxReports
  BY <1>0, <1>4
<1>6. n # Len(q)
  <2> SUFFICES ASSUME n = Len(q) PROVE FALSE
    OBVIOUS
  <2>1. n - 1 \in 0..(n - 1) /\ Len(q) - (n - 1) = 1
    BY <1>0
  <2>2. Over(n - 1)
    BY <1>4, <2>1
  <2> QED
    BY <1>0, <2>1, <2>2
<1> QED
  BY <1>0, <1>3, <1>5, <1>6

LEMMA SurplusBound ==
    ASSUME NEW S, NEW q \in Seq(S)
    PROVE  Surplus(q) \in 0..Len(q) /\ Len(q) - Surplus(q) <= MaxReports
<1>1. MaxReports \in Nat /\ Len(q) \in Nat
  BY IngestAssumption
<1> QED
  BY <1>1 DEF Surplus

\* The newest state of a group: reports with a state are there, and so are a
\* newest state and a first report that has it.
LEMMA NewestIsStated ==
    ASSUME NEW q \in Seq(ReportType), Stated(q) # {}
    PROVE  NewestIdx(q) \in Stated(q)
<1>1. /\ Stated(q) \subseteq Nat /\ MaxClock \in Nat
      /\ \A i \in Stated(q) : q[i].upd \in 0..MaxClock
  <2>1. \A x \in ReportType : x.upd \in 0..MaxClock
    BY DEF ReportType
  <2>2. \A i \in Stated(q) : i \in Nat /\ q[i] \in ReportType
    BY DEF Stated
  <2> QED
    BY <2>1, <2>2, IngestAssumption
<1>2. PICK top \in Stated(q) : \A j \in Stated(q) : q[j].upd <= q[top].upd
  <2> DEFINE T == {MaxClock - q[i].upd : i \in Stated(q)}
  <2>1. T \subseteq Nat /\ T # {}
    BY <1>1
  <2>2. PICK m \in T : \A k \in T : m <= k
    <3> HIDE DEF T
    <3> QED
      BY <2>1, LeastNatural
  <2>3. PICK i \in Stated(q) : m = MaxClock - q[i].upd
    BY <2>2
  <2>4. \A j \in Stated(q) : MaxClock - q[i].upd <= MaxClock - q[j].upd
    BY <2>2, <2>3
  <2>5. ASSUME NEW j \in Stated(q)
        PROVE  q[j].upd <= q[i].upd
    <3>0. q[j].upd \in 0..MaxClock /\ q[i].upd \in 0..MaxClock
      BY <1>1
    <3>1. q[j].upd \in Nat /\ q[i].upd \in Nat /\ MaxClock \in Nat
      BY <1>1, <3>0
    <3>2. MaxClock - q[i].upd <= MaxClock - q[j].upd
      BY <2>4
    <3> QED
      BY <3>1, <3>2
  <2> QED
    BY <2>5
<1>3. PICK i \in Stated(q) :
          /\ q[i].upd = q[top].upd
          /\ \A j \in Stated(q) : q[j].upd = q[top].upd => i <= j
  <2> DEFINE T == {j \in Stated(q) : q[j].upd = q[top].upd}
  <2>1. T \subseteq Nat /\ T # {}
    BY <1>1
  <2>2. PICK m \in T : \A k \in T : m <= k
    <3> HIDE DEF T
    <3> QED
      BY <2>1, LeastNatural
  <2> QED
    BY <2>2
<1>4. /\ \A j \in Stated(q) : q[j].upd <= q[i].upd
      /\ \A j \in Stated(q) : q[j].upd = q[i].upd => i <= j
  BY <1>2, <1>3
<1> QED
  BY <1>4 DEF NewestIdx

\* A queue whose reports are changed one by one.
Same(x, y) == y.id = x.id /\ y.epoch = x.epoch
LEMMA Changing ==
    ASSUME NEW q \in Seq(ReportType), NEW p \in Seq(ReportType), Len(p) = Len(q),
           \A i \in 1..Len(q) : Same(q[i], p[i]) /\ (q[i].appended => p[i].appended)
    PROVE  /\ Ids(p) = Ids(q)
           /\ \A y \in ReportsIn(p) : \E x \in ReportsIn(q) :
                 Same(x, y) /\ (x.appended => y.appended)
  BY DEF Ids, ReportsIn, Same

LEMMA MarkedGroup ==
    ASSUME NEW q \in Seq(ReportType)
    PROVE  /\ Marked(q) \in Seq(ReportType) /\ Len(Marked(q)) = Len(q)
           /\ \A i \in 1..Len(q) : Same(q[i], Marked(q)[i])
                                   /\ Marked(q)[i].appended = q[i].appended
<1>1. CASE Stated(q) = {}
  BY <1>1 DEF Marked, Same
<1>2. CASE Stated(q) # {}
  <2>1. PICK n : n = NewestIdx(q)
    OBVIOUS
  <2>2. Marked(q) = [q EXCEPT ![n].persisted = TRUE]
    BY <1>2, <2>1 DEF Marked
  <2>3. n \in 1..Len(q) /\ q[n] \in ReportType
    BY <1>2, <2>1, NewestIsStated DEF Stated
  <2>4. PICK y : y = [q[n] EXCEPT !.persisted = TRUE]
    OBVIOUS
  <2>5. y \in ReportType /\ Same(q[n], y) /\ y.appended = q[n].appended
    BY <2>3, <2>4 DEF ReportType, Same
  <2>6. Marked(q) = [q EXCEPT ![n] = y]
    BY <2>2, <2>3, <2>4
  <2>7. /\ [q EXCEPT ![n] = y] \in Seq(ReportType)
        /\ Len([q EXCEPT ![n] = y]) = Len(q)
        /\ \A i \in 1..Len(q) : [q EXCEPT ![n] = y][i] = IF i = n THEN y ELSE q[i]
    BY <2>3, <2>5
  <2> QED
    BY <2>5, <2>6, <2>7 DEF Same
<1> QED
  BY <1>1, <1>2

LEMMA AppendedGroup ==
    ASSUME NEW q \in Seq(ReportType)
    PROVE  /\ Appended(q) \in Seq(ReportType) /\ Len(Appended(q)) = Len(q)
           /\ \A i \in 1..Len(q) : Same(q[i], Appended(q)[i]) /\ Appended(q)[i].appended
<1>1. \A i \in 1..Len(q) : q[i] \in ReportType
  OBVIOUS
<1>2. ASSUME NEW x \in ReportType
      PROVE  /\ [x EXCEPT !.appended = TRUE] \in ReportType
             /\ Same(x, [x EXCEPT !.appended = TRUE])
             /\ [x EXCEPT !.appended = TRUE].appended
  BY DEF ReportType, Same
<1>3. Appended(q) = [i \in 1..Len(q) |-> [q[i] EXCEPT !.appended = TRUE]]
  BY DEF Appended
<1>4. \A i \in 1..Len(q) : /\ [q[i] EXCEPT !.appended = TRUE] \in ReportType
                           /\ Same(q[i], [q[i] EXCEPT !.appended = TRUE])
                           /\ [q[i] EXCEPT !.appended = TRUE].appended
  BY <1>1, <1>2
<1>5. Appended(q) \in [1..Len(q) -> ReportType] /\ Len(q) \in Nat
  BY <1>3, <1>4
<1>6. Appended(q) \in Seq(ReportType) /\ Len(Appended(q)) = Len(q)
  BY <1>5
<1> QED
  BY <1>3, <1>4, <1>6

\* The reports' traffic is stored, or not yet.
LEMMA TrafficGroup ==
    ASSUME NEW q \in Seq(ReportType), NEW p, p = [i \in 1..Len(q) |-> p[i]],
           \A i \in 1..Len(q) : \E b \in BOOLEAN : p[i] = [q[i] EXCEPT !.traffic = b]
    PROVE  /\ p \in Seq(ReportType) /\ Len(p) = Len(q)
           /\ \A i \in 1..Len(q) : Same(q[i], p[i]) /\ p[i].appended = q[i].appended
<1>1. ASSUME NEW i \in 1..Len(q)
      PROVE  /\ p[i] \in ReportType
             /\ Same(q[i], p[i]) /\ p[i].appended = q[i].appended
  <2>1. PICK b \in BOOLEAN : p[i] = [q[i] EXCEPT !.traffic = b]
    OBVIOUS
  <2>2. q[i] \in ReportType
    OBVIOUS
  <2> QED
    BY <2>1, <2>2 DEF ReportType, Same
<1>2. p \in [1..Len(q) -> ReportType] /\ Len(q) \in Nat
  BY <1>1
<1>3. p \in Seq(ReportType) /\ Len(p) = Len(q)
  BY <1>2
<1> QED
  BY <1>1, <1>3

\* The state that is persisted is the state of a report.
LEMMA PersistedState ==
    ASSUME NEW q \in Seq(ReportType), PersistLatest(q),
           throttled \in BOOLEAN, stLatest \in 0..MaxClock
    PROVE  throttled' \in BOOLEAN /\ stLatest' \in 0..MaxClock
<1>1. ASSUME MustPersist(q)
      PROVE  q[NewestIdx(q)].upd \in 0..MaxClock
  <2>1. NewestIdx(q) \in Stated(q)
    BY <1>1, NewestIsStated DEF MustPersist
  <2>2. q[NewestIdx(q)] \in ReportType
    BY <2>1 DEF Stated
  <2> QED
    BY <2>2 DEF ReportType
<1> QED
  BY <1>1 DEF PersistLatest

\* A group appended to storage is there.
LEMMA GroupAppended ==
    ASSUME NEW q \in Seq(ReportType), rows' = AppendGroup(q)
    PROVE  /\ rows \subseteq rows' /\ rows' \subseteq rows \cup Ids(q)
           /\ \A x \in ReportsIn(q) : x.id \in rows' \/ (x.appended /\ rows' = rows)
  BY DEF AppendGroup, Ids, ReportsIn

-----------------------------------------------------------------------------
(* The inductive invariant.                                                  *)

Held == ReportsIn(mem) \cup ReportsIn(drain.group)

\* What memReportsBytes counts: a message that was received is being processed,
\* or it was counted; the count is never below the reports that are held.
Sized ==
    /\ IsFiniteSet(handlers)
    /\ Cardinality(handlers) + memBytes <= received
    /\ Len(mem) + Len(drain.group) <= memBytes

Lifecycles ==
    /\ purging => deleted
    /\ deleted => acked \subseteq ended
    /\ \A x \in Held : x.epoch \in 1..epoch /\ x.id \in acked

GroupThere == drain.at = "idle" <=> drain.group = <<>>

\* A report that is marked as appended is in storage; the effects of a group
\* are written after all of it was appended.
Stored ==
    /\ \A x \in Held : x.appended => stale \/ x.id \in rows \cup ended
    /\ drain.at = "effects" => \A x \in ReportsIn(drain.group) : x.appended

\* Until reports of a deleted lifecycle are queued again the memory holds
\* reports of the lifecycle that lasts, and the drain those of one lifecycle.
OneLifecycle ==
    \/ stale
    \/ /\ \A x \in ReportsIn(mem) : IsCurrent(x.epoch)
       /\ \A x, y \in ReportsIn(drain.group) : x.epoch = y.epoch
       /\ \A x \in ReportsIn(drain.group) : IsCurrent(x.epoch) \/ x.id \in ended

\* What the properties of the reports read.
reports == <<epoch, deleted, purging, mem, drain, rows, acked, ended, memLost, stale>>
ReportsInv == Lifecycles /\ GroupThere /\ Stored /\ OneLifecycle /\ AckedReportKept

LEMMA ReportsUnchanged ==
    ASSUME ReportsInv, UNCHANGED reports
    PROVE  ReportsInv'
<1>1. Lifecycles'
  BY DEF reports, ReportsInv, Lifecycles, Held
<1>2. GroupThere'
  BY DEF reports, ReportsInv, GroupThere
<1>3. Stored'
  BY DEF reports, ReportsInv, Stored, Held
<1>4. OneLifecycle'
  BY DEF reports, ReportsInv, OneLifecycle, IsCurrent
<1>5. AckedReportKept'
  BY DEF reports, ReportsInv, AckedReportKept
<1> QED
  BY <1>1, <1>2, <1>3, <1>4, <1>5 DEF ReportsInv

HandlerType == [id : 1..MaxMessages, epoch : 1..epoch, prev : 0..MaxClock, upd : 0..MaxClock]
Quiet ==
    \/ \E e \in sockets : Receive(e) \/ CloseStaleSocket(e)
    \/ \E h \in handlers : StampState(h) \/ RejectMessage(h) \/ AbandonMessage(h)
    \/ Tick \/ ThrottleEnds

LEMMA QuietKeepsReports ==
    ASSUME Quiet
    PROVE  UNCHANGED reports
<1>1. ASSUME NEW e \in sockets, Receive(e)
      PROVE  UNCHANGED reports
  BY <1>1 DEF Receive, reports, storage
<1>2. ASSUME NEW e \in sockets, CloseStaleSocket(e)
      PROVE  UNCHANGED reports
  BY <1>2 DEF CloseStaleSocket, reports, storage, memory, history
<1>3. ASSUME NEW h \in handlers, StampState(h)
      PROVE  UNCHANGED reports
  BY <1>3 DEF StampState, reports, storage, history
<1>4. ASSUME NEW h \in handlers, RejectMessage(h)
      PROVE  UNCHANGED reports
  BY <1>4 DEF RejectMessage, reports, storage, history
<1>5. ASSUME NEW h \in handlers, AbandonMessage(h)
      PROVE  UNCHANGED reports
  BY <1>5 DEF AbandonMessage, reports, storage, history
<1>6. ASSUME Tick
      PROVE  UNCHANGED reports
  BY <1>6 DEF Tick, reports, storage, memory, history
<1>7. ASSUME ThrottleEnds
      PROVE  UNCHANGED reports
  BY <1>7 DEF ThrottleEnds, reports, storage, history
<1> QED
  BY <1>1, <1>2, <1>3, <1>4, <1>5, <1>6, <1>7 DEF Quiet

-----------------------------------------------------------------------------
(* Types and sizes.                                                          *)

TypesAndSizes == TypeOK /\ Sized

\* The bounds of the model as numbers.
LEMMA Bounds ==
    /\ MaxMessages \in Nat /\ MaxClock \in Nat \ {0} /\ MaxReports \in Nat \ {0}
    /\ MaxBytes \in Nat \ {0}
  BY IngestAssumption

\* A call that awaits D1 leaves the set, and a changed one takes its place.
LEMMA HandlerLeaves ==
    ASSUME IsFiniteSet(handlers), NEW h \in handlers
    PROVE  /\ IsFiniteSet(handlers \ {h})
           /\ Cardinality(handlers \ {h}) = Cardinality(handlers) - 1
           /\ Cardinality(handlers) \in Nat /\ Cardinality(handlers \ {h}) \in Nat
  BY FS_RemoveElement, FS_CardinalityType

LEMMA HandlerJoins ==
    ASSUME NEW T, IsFiniteSet(T), NEW h
    PROVE  /\ IsFiniteSet(T \cup {h}) /\ Cardinality(T) \in Nat
           /\ Cardinality(T \cup {h}) \in Nat
           /\ Cardinality(T \cup {h}) <= Cardinality(T) + 1
  BY FS_AddElement, FS_CardinalityType

LEMMA ReceiveTyped ==
    ASSUME TypesAndSizes, NEW e \in sockets, Receive(e)
    PROVE  TypesAndSizes'
<1> DEFINE g == [id |-> received + 1, epoch |-> e, prev |-> Latest(stLatest, memLatest), upd |-> 0]
<1>1. /\ handlers' = handlers \cup {g} /\ received < MaxMessages /\ received' = received + 1
      /\ UNCHANGED <<memLatest, throttled, mem, memBytes, drain, epoch, deleted, stLatest, rows, alarm,
                     purging, sockets, clock, acked, ended, memLost, stale>>
  BY DEF Receive, storage
<1>2. received + 1 \in 1..MaxMessages
  BY <1>1, Bounds DEF TypesAndSizes, TypeOK
<1>3. Latest(stLatest, memLatest) \in 0..MaxClock
  BY DEF TypesAndSizes, TypeOK, Latest
<1>4. g \in HandlerType
  <2>1. e \in 1..epoch /\ 0 \in 0..MaxClock
    BY Bounds DEF TypesAndSizes, TypeOK
  <2> QED
    BY <1>2, <1>3, <2>1 DEF HandlerType
<1> HIDE DEF g
<1>5. handlers' \subseteq HandlerType
  BY <1>1, <1>4 DEF TypesAndSizes, TypeOK, HandlerType
<1>6. IsFiniteSet(handlers') /\ Cardinality(handlers') + memBytes <= received'
  <2>1. /\ IsFiniteSet(handlers \cup {g})
        /\ Cardinality(handlers) \in Nat /\ Cardinality(handlers \cup {g}) \in Nat
        /\ Cardinality(handlers \cup {g}) <= Cardinality(handlers) + 1
    BY HandlerJoins DEF TypesAndSizes, Sized
  <2>2. Cardinality(handlers) + memBytes <= received /\ memBytes \in Nat /\ received \in Nat
    BY Bounds DEF TypesAndSizes, TypeOK, Sized
  <2> QED
    BY <1>1, <2>1, <2>2
<1>7. received' \in 0..MaxMessages
  BY <1>1, <1>2
<1>8. Sized'
  BY <1>1, <1>6 DEF TypesAndSizes, Sized
<1>9. TypeOK'
  BY <1>1, <1>5, <1>7 DEF TypesAndSizes, TypeOK, HandlerType
<1> QED
  BY <1>8, <1>9 DEF TypesAndSizes

\* A call ends, or is stamped with the time.
LEMMA HandlerTyped ==
    ASSUME TypesAndSizes, NEW h \in handlers,
           \/ StampState(h) \/ RejectMessage(h) \/ AbandonMessage(h)
    PROVE  TypesAndSizes'
<1>1. /\ UNCHANGED <<memLatest, throttled, mem, memBytes, drain, epoch, deleted, stLatest, rows, alarm,
                     purging, clock, received, acked, ended, memLost, stale>>
      /\ sockets' \subseteq sockets
  BY DEF StampState, RejectMessage, AbandonMessage, storage, history
<1>2. PICK G : /\ handlers' = (handlers \ {h}) \cup G
               /\ G = {} \/ \E g \in HandlerType : G = {g}
  <2>1. CASE StampState(h)
    <3>1. h \in HandlerType /\ clock \in 0..MaxClock
      BY Bounds DEF TypesAndSizes, TypeOK, HandlerType
    <3>2. [h EXCEPT !.upd = clock] \in HandlerType
      BY <3>1 DEF HandlerType
    <3> QED
      BY <2>1, <3>2 DEF StampState
  <2>2. CASE RejectMessage(h)
    BY <2>2 DEF RejectMessage
  <2>3. CASE AbandonMessage(h)
    BY <2>3 DEF AbandonMessage
  <2> QED
    BY <2>1, <2>2, <2>3
<1>3. handlers' \subseteq HandlerType
  BY <1>2 DEF TypesAndSizes, TypeOK, HandlerType
<1>4. IsFiniteSet(handlers') /\ Cardinality(handlers') + memBytes <= received
  <2>1. /\ IsFiniteSet(handlers \ {h})
        /\ Cardinality(handlers \ {h}) = Cardinality(handlers) - 1
        /\ Cardinality(handlers) \in Nat /\ Cardinality(handlers \ {h}) \in Nat
    BY HandlerLeaves DEF TypesAndSizes, Sized
  <2>2. Cardinality(handlers) + memBytes <= received /\ memBytes \in Nat /\ received \in Nat
    BY Bounds DEF TypesAndSizes, TypeOK, Sized
  <2>3. CASE G = {}
    <3>1. handlers' = handlers \ {h}
      BY <1>2, <2>3
    <3> QED
      BY <2>1, <2>2, <3>1
  <2>4. ASSUME NEW g \in HandlerType, G = {g}
        PROVE  IsFiniteSet(handlers') /\ Cardinality(handlers') + memBytes <= received
    <3>1. /\ IsFiniteSet(handlers') /\ Cardinality(handlers') \in Nat
          /\ Cardinality(handlers') <= Cardinality(handlers \ {h}) + 1
      BY <1>2, <2>1, <2>4, HandlerJoins
    <3> QED
      BY <2>1, <2>2, <3>1
  <2> QED
    BY <1>2, <2>3, <2>4
<1>5. Sized'
  BY <1>1, <1>4 DEF TypesAndSizes, Sized
<1>6. TypeOK'
  BY <1>1, <1>3 DEF TypesAndSizes, TypeOK, HandlerType
<1> QED
  BY <1>5, <1>6 DEF TypesAndSizes

\* Steps of the sockets, the clock and the purge.
LEMMA OthersTyped ==
    ASSUME TypesAndSizes,
           \/ OpenSocket \/ \E e \in sockets : CloseStaleSocket(e)
           \/ Tick \/ ThrottleEnds \/ DeleteBuffer
    PROVE  TypesAndSizes'
<1>1. CASE OpenSocket
  <2>0. PICK e : /\ e = epoch + 1 \/ (e = epoch /\ epoch # 0)
                 /\ epoch' = e /\ sockets' = sockets \cup {e} /\ deleted' = FALSE
    <3>1. PICK e : e = IF deleted \/ epoch = 0 THEN epoch + 1 ELSE epoch
      OBVIOUS
    <3>2. epoch' = e /\ sockets' = sockets \cup {e} /\ deleted' = FALSE
      BY <1>1, <3>1, Zenon DEF OpenSocket
    <3>3. e = epoch + 1 \/ (e = epoch /\ epoch # 0)
      BY <3>1
    <3> QED
      BY <3>2, <3>3
  <2>1. /\ epoch' \in Nat /\ epoch <= epoch' /\ sockets' \subseteq 1..epoch' /\ deleted' \in BOOLEAN
    <3>1. epoch \in Nat /\ sockets \subseteq 1..epoch
      BY DEF TypesAndSizes, TypeOK
    <3>2. e \in Nat /\ epoch <= e /\ e \in 1..e
      BY <2>0, <3>1
    <3>3. sockets \subseteq 1..e
      BY <3>1, <3>2
    <3> QED
      BY <2>0, <3>2, <3>3
  <2>2. UNCHANGED <<handlers, memLatest, throttled, mem, memBytes, drain, stLatest, rows, alarm, purging,
                    clock, received, acked, ended, memLost, stale>>
    BY <1>1 DEF OpenSocket, memory, history
  <2>3. 1..epoch \subseteq 1..epoch'
    BY <2>1 DEF TypesAndSizes, TypeOK
  <2>4. HandlerType \subseteq [id : 1..MaxMessages, epoch : 1..epoch', prev : 0..MaxClock, upd : 0..MaxClock]
    BY <2>3 DEF HandlerType
  <2>5. handlers' \subseteq [id : 1..MaxMessages, epoch : 1..epoch', prev : 0..MaxClock, upd : 0..MaxClock]
    BY <2>2, <2>4 DEF TypesAndSizes, TypeOK, HandlerType
  <2>6. TypeOK'
    BY <2>1, <2>2, <2>5 DEF TypesAndSizes, TypeOK
  <2> QED
    BY <2>2, <2>6 DEF TypesAndSizes, Sized
<1>2. CASE \E e \in sockets : CloseStaleSocket(e)
  <2>1. /\ sockets' \subseteq sockets
        /\ UNCHANGED <<memory, storage, purging, clock, history>>
    BY <1>2 DEF CloseStaleSocket
  <2> QED
    BY <2>1 DEF TypesAndSizes, TypeOK, Sized, memory, storage, history
<1>3. CASE Tick
  BY <1>3, Bounds DEF Tick, TypesAndSizes, TypeOK, Sized, memory, storage, history
<1>4. CASE ThrottleEnds
  BY <1>4 DEF ThrottleEnds, TypesAndSizes, TypeOK, Sized, storage, history
<1>5. CASE DeleteBuffer
  BY <1>5 DEF DeleteBuffer, TypesAndSizes, TypeOK, Sized, memory, history
<1> QED
  BY <1>1, <1>2, <1>3, <1>4, <1>5

-----------------------------------------------------------------------------
(* A message is accepted.                                                    *)

\* What the acceptance does to the queue, the report being new.
Joined(h, x) ==
    /\ x \in ReportType /\ x.id = h.id /\ x.epoch = h.epoch /\ x.appended = FALSE
    /\ ReportsIn(mem') \subseteq ReportsIn(mem) \cup {x}
    /\ Last(mem') = x
LEMMA AcceptedReport ==
    ASSUME TypesAndSizes, NEW h \in handlers, AcceptMessage(h)
    PROVE  /\ \E x : Joined(h, x)
           /\ mem' \in Seq(ReportType) /\ Len(mem') <= MaxReports
           /\ \E n \in Nat : /\ n <= Len(mem) /\ memBytes' = memBytes + 1 - n
                             /\ Len(mem') = Len(mem) + 1 - n
           /\ Ids(mem) \cup {h.id} \subseteq Ids(mem') \cup memLost'
           /\ memLost \subseteq memLost' /\ memLost' \subseteq 1..MaxMessages
<1> DEFINE x == Report(h, IF h.upd >= h.prev THEN h.upd ELSE 0)
<1>1. x \in ReportType /\ x.id = h.id /\ x.epoch = h.epoch /\ x.appended = FALSE
  <2>1. h \in HandlerType /\ epoch \in Nat /\ 0 \in 0..MaxClock
    BY Bounds DEF TypesAndSizes, TypeOK, HandlerType
  <2>2. PICK u \in 0..MaxClock : u = IF h.upd >= h.prev THEN h.upd ELSE 0
    BY <2>1 DEF HandlerType
  <2>3. x = [id |-> h.id, epoch |-> h.epoch, upd |-> u,
             appended |-> FALSE, persisted |-> FALSE, traffic |-> FALSE]
    BY <2>2 DEF Report
  <2>4. h.id \in 1..MaxMessages /\ h.epoch \in Nat
    BY <2>1 DEF HandlerType
  <2> HIDE DEF x
  <2> QED
    BY <2>2, <2>3, <2>4 DEF ReportType
<1>2. PICK q : q = Append(mem, x)
  OBVIOUS
<1>3. PICK s : s = Shed(q, memBytes + 1)
  OBVIOUS
<1>4. /\ mem' = WithoutOldest(q, s)
      /\ memBytes' = memBytes + 1 - s
      /\ memLost' = memLost \cup Oldest(q, s)
  BY <1>2, <1>3 DEF AcceptMessage
<1> HIDE DEF x
<1>5. mem \in Seq(ReportType) /\ memBytes \in Nat /\ memLost \subseteq 1..MaxMessages
  BY Bounds DEF TypesAndSizes, TypeOK
<1>6. /\ q \in Seq(ReportType) /\ Len(q) = Len(mem) + 1 /\ Len(mem) \in Nat
      /\ ReportsIn(q) = ReportsIn(mem) \cup {x}
      /\ Ids(q) = Ids(mem) \cup {h.id} /\ Last(q) = x
  BY <1>1, <1>2, <1>5, Appending
<1>7. s \in 0..(Len(q) - 1) /\ Len(q) - s <= MaxReports
  <2>1. Len(q) > 0 /\ memBytes + 1 \in Int
    BY <1>5, <1>6
  <2> QED
    BY <1>3, <1>6, <2>1, ShedBound
<1>8. s \in 0..Len(q) /\ s < Len(q) /\ s \in Nat /\ s <= Len(mem)
  BY <1>6, <1>7
<1>9. /\ mem' \in Seq(ReportType) /\ Len(mem') = Len(q) - s
      /\ ReportsIn(mem') \subseteq ReportsIn(q)
      /\ Ids(q) = Oldest(q, s) \cup Ids(mem')
      /\ Last(mem') = Last(q)
  BY <1>4, <1>6, <1>8, Dropping
<1>10. Joined(h, x)
  BY <1>1, <1>6, <1>9 DEF Joined
<1>11. /\ Len(mem') <= MaxReports /\ Len(mem') = Len(mem) + 1 - s
  BY <1>6, <1>7, <1>8, <1>9
<1>12. Ids(q) \subseteq 1..MaxMessages
  <2>1. ReportsIn(q) \subseteq ReportType
    BY <1>6 DEF ReportsIn
  <2> QED
    BY <2>1, IdsAreOfReports DEF ReportType
<1> QED
  BY <1>4, <1>5, <1>6, <1>8, <1>9, <1>10, <1>11, <1>12

LEMMA AcceptTyped ==
    ASSUME TypesAndSizes, NEW h \in handlers, AcceptMessage(h)
    PROVE  TypesAndSizes'
<1>1. /\ mem' \in Seq(ReportType) /\ Len(mem') <= MaxReports
      /\ memLost' \subseteq 1..MaxMessages
  BY AcceptedReport
<1>2. PICK n \in Nat : /\ n <= Len(mem) /\ memBytes' = memBytes + 1 - n
                       /\ Len(mem') = Len(mem) + 1 - n
  BY AcceptedReport
<1>3. /\ handlers' = handlers \ {h} /\ acked' = acked \cup {h.id} /\ alarm' = TRUE
      /\ memLatest' = h.upd \/ memLatest' = h.prev
      /\ UNCHANGED <<throttled, drain, epoch, deleted, stLatest, rows, purging, sockets, clock,
                     received, ended, stale>>
  BY DEF AcceptMessage
<1>4. h \in HandlerType
  BY DEF TypesAndSizes, TypeOK, HandlerType
<1>5. /\ IsFiniteSet(handlers')
      /\ Cardinality(handlers') = Cardinality(handlers) - 1
      /\ Cardinality(handlers) \in Nat /\ Cardinality(handlers') \in Nat
  BY <1>3, HandlerLeaves DEF TypesAndSizes, Sized
<1>6. /\ Cardinality(handlers) + memBytes <= received
      /\ Len(mem) + Len(drain.group) <= memBytes
      /\ Len(mem) \in Nat /\ Len(drain.group) \in Nat
      /\ memBytes \in Nat /\ received \in Nat /\ received <= MaxMessages
  <2>1. /\ mem \in Seq(ReportType) /\ drain.group \in Seq(ReportType)
        /\ memBytes \in 0..MaxMessages /\ received \in 0..MaxMessages
    BY DEF TypesAndSizes, TypeOK
  <2>2. /\ Cardinality(handlers) + memBytes <= received
        /\ Len(mem) + Len(drain.group) <= memBytes
    BY DEF TypesAndSizes, Sized
  <2>3. Len(mem) \in Nat /\ Len(drain.group) \in Nat
    BY <2>1
  <2> QED
    BY <2>1, <2>2, <2>3, Bounds
<1>7. memBytes' \in 0..MaxMessages /\ Cardinality(handlers') + memBytes' <= received'
  <2>1. PICK c \in Nat, b \in Nat, r \in Nat, l \in Nat, b1 \in Int :
            /\ c = Cardinality(handlers') /\ Cardinality(handlers) = c + 1
            /\ b = memBytes /\ r = received /\ l = Len(mem) /\ b1 = memBytes'
    <3>1. Cardinality(handlers) = Cardinality(handlers') + 1
      BY <1>5
    <3>2. memBytes' \in Int
      BY <1>2, <1>6
    <3> QED
      BY <1>5, <1>6, <3>1, <3>2
  <2>2. c + 1 + b <= r /\ n <= l /\ b1 = b + 1 - n /\ l <= b /\ r <= MaxMessages
    BY <1>2, <1>6, <2>1
  <2>3. b1 \in 0..MaxMessages /\ c + b1 <= r
    BY <2>2, Bounds
  <2> QED
    BY <1>3, <2>1, <2>3
<1>8. Len(mem') + Len(drain'.group) <= memBytes'
  <2>1. PICK l \in Nat, g \in Nat, b \in Nat, l1 \in Int, b1 \in Int :
            /\ l = Len(mem) /\ g = Len(drain.group) /\ b = memBytes
            /\ l1 = Len(mem') /\ b1 = memBytes'
    <3>1. memBytes' \in Int /\ Len(mem') \in Int
      BY <1>2, <1>6
    <3> QED
      BY <1>6, <3>1
  <2>2. l + g <= b /\ l1 = l + 1 - n /\ b1 = b + 1 - n
    BY <1>2, <1>6, <2>1
  <2>3. l1 + g <= b1
    BY <1>2, <2>2
  <2> QED
    BY <1>3, <2>1, <2>3
<1>9. Sized'
  BY <1>5, <1>7, <1>8 DEF Sized
<1>10. /\ handlers' \subseteq HandlerType /\ memLatest' \in 0..MaxClock
       /\ acked' \subseteq 1..MaxMessages
  BY <1>3, <1>4 DEF TypesAndSizes, TypeOK, HandlerType
<1>11. TypeOK'
  BY <1>1, <1>3, <1>7, <1>10 DEF TypesAndSizes, TypeOK, HandlerType
<1> QED
  BY <1>9, <1>11 DEF TypesAndSizes

-----------------------------------------------------------------------------
(* The steps of the drain.                                                   *)

\* The group of a drain under way, and its first report.
LEMMA FirstOfGroup ==
    ASSUME TypesAndSizes, GroupThere, drain.at # "idle"
    PROVE  /\ drain.group \in Seq(ReportType) /\ Len(drain.group) \in Nat \ {0}
           /\ drain.group[1] \in ReportsIn(drain.group)
<1>1. drain.group \in Seq(ReportType) /\ drain.group # <<>>
  BY DEF TypesAndSizes, TypeOK, GroupThere
<1>2. Len(drain.group) \in Nat \ {0}
  BY <1>1
<1> QED
  BY <1>1, <1>2 DEF ReportsIn

\* The group is marked or appended: its reports stay, and one that is marked
\* as appended was marked before or is in storage now.
GroupStep ==
    /\ drain'.at \in {"mirror", "effects"} /\ drain'.group \in Seq(ReportType)
    /\ Len(drain'.group) = Len(drain.group) /\ Ids(drain'.group) = Ids(drain.group)
    /\ \A y \in ReportsIn(drain'.group) : \E x \in ReportsIn(drain.group) :
          Same(x, y) /\ (y.appended => x.appended \/ y.id \in rows')
    /\ drain'.at = "effects" => \A y \in ReportsIn(drain'.group) : y.appended
    /\ rows \subseteq rows' /\ rows' \subseteq rows \cup Ids(drain.group)

\* The group p that replaces q was q with some marks, appended.
LEMMA AppendedStep ==
    ASSUME NEW q \in Seq(ReportType), NEW m \in Seq(ReportType), Len(m) = Len(q),
           \A i \in 1..Len(q) : Same(q[i], m[i]) /\ m[i].appended = q[i].appended,
           drain.group = q, drain'.at = "effects", drain'.group = Appended(m),
           rows' = AppendGroup(q) \/ rows' = AppendGroup(m)
    PROVE  GroupStep
<1>1. /\ Appended(m) \in Seq(ReportType) /\ Len(Appended(m)) = Len(m)
      /\ \A i \in 1..Len(m) : Same(m[i], Appended(m)[i]) /\ Appended(m)[i].appended
  BY AppendedGroup
<1>2. AppendGroup(m) = AppendGroup(q) /\ Ids(m) = Ids(q)
  <2>1. \A i \in 1..Len(q) : m[i].id = q[i].id /\ m[i].appended = q[i].appended
    BY DEF Same
  <2>2. Ids(m) = Ids(q)
    BY <2>1 DEF Ids
  <2>3. (\A i \in 1..Len(m) : m[i].appended) <=> (\A i \in 1..Len(q) : q[i].appended)
    BY <2>1
  <2> QED
    BY <2>2, <2>3 DEF AppendGroup
<1>3. /\ rows \subseteq rows' /\ rows' \subseteq rows \cup Ids(q)
      /\ \A x \in ReportsIn(q) : x.id \in rows' \/ (x.appended /\ rows' = rows)
  BY <1>2, GroupAppended
<1>4. ASSUME NEW i \in 1..Len(q)
      PROVE  Same(q[i], Appended(m)[i]) /\ Appended(m)[i].appended
  BY <1>1 DEF Same
<1>5. Ids(Appended(m)) = Ids(q)
  <2>1. /\ Len(Appended(m)) = Len(q)
        /\ \A i \in 1..Len(q) : Appended(m)[i].id = q[i].id
    BY <1>1, <1>4 DEF Same
  <2> QED
    BY <2>1 DEF Ids
<1>6. ASSUME NEW y \in ReportsIn(Appended(m))
      PROVE  /\ y.appended
             /\ \E x \in ReportsIn(q) : Same(x, y) /\ (y.appended => x.appended \/ y.id \in rows')
  <2>1. PICK i \in 1..Len(q) : y = Appended(m)[i]
    BY <1>1 DEF ReportsIn
  <2>2. q[i] \in ReportsIn(q)
    BY DEF ReportsIn
  <2>3. Same(q[i], y) /\ y.appended
    BY <1>4, <2>1
  <2>4. q[i].appended \/ y.id \in rows'
    BY <1>3, <2>2, <2>3 DEF Same
  <2> QED
    BY <2>2, <2>3, <2>4
<1> QED
  BY <1>1, <1>3, <1>5, <1>6 DEF GroupStep

drainFrame == <<handlers, memLatest, mem, memBytes, epoch, deleted, alarm, purging, sockets, clock, history>>
LEMMA PersistStep ==
    ASSUME TypesAndSizes, DrainPersist
    PROVE  /\ GroupStep /\ drain.at # "idle" /\ UNCHANGED drainFrame
           /\ throttled' \in BOOLEAN /\ stLatest' \in 0..MaxClock
<1>1. PICK q \in Seq(ReportType) : q = drain.group
  BY DEF TypesAndSizes, TypeOK
<1>2. /\ drain.at = "check" /\ PersistLatest(q) /\ UNCHANGED drainFrame
      /\ \/ drain' = [drain EXCEPT !.at = "mirror"] /\ rows' = rows
         \/ /\ drain' = [drain EXCEPT !.at = "effects", !.group = Appended(Marked(q))]
            /\ rows' = AppendGroup(q)
  BY <1>1 DEF DrainPersist, drainFrame
<1>3. throttled' \in BOOLEAN /\ stLatest' \in 0..MaxClock
  BY <1>2, PersistedState DEF TypesAndSizes, TypeOK
<1>d. drain = [at |-> drain.at, group |-> q, failed |-> drain.failed]
  BY <1>1 DEF TypesAndSizes, TypeOK
<1>4. ASSUME drain' = [drain EXCEPT !.at = "mirror"], rows' = rows
      PROVE  GroupStep
  <2>1. drain'.at = "mirror" /\ drain'.group = q
    BY <1>d, <1>4
  <2> QED
    BY <1>1, <1>4, <2>1 DEF GroupStep, Same
<1>5. ASSUME drain' = [drain EXCEPT !.at = "effects", !.group = Appended(Marked(q))],
             rows' = AppendGroup(q)
      PROVE  GroupStep
  <2>1. drain'.at = "effects" /\ drain'.group = Appended(Marked(q))
    BY <1>d, <1>5
  <2>2. PICK m : m = Marked(q)
    OBVIOUS
  <2>3. /\ m \in Seq(ReportType) /\ Len(m) = Len(q)
        /\ \A i \in 1..Len(q) : Same(q[i], m[i]) /\ m[i].appended = q[i].appended
    BY <2>2, MarkedGroup
  <2> QED
    BY <1>1, <1>5, <2>1, <2>2, <2>3, AppendedStep
<1> QED
  BY <1>2, <1>3, <1>4, <1>5

LEMMA MirrorStep ==
    ASSUME TypesAndSizes, DrainMirror
    PROVE  /\ GroupStep /\ drain.at # "idle" /\ UNCHANGED drainFrame
           /\ UNCHANGED <<throttled, stLatest>> /\ drain'.failed \in BOOLEAN
<1>1. PICK q \in Seq(ReportType) : q = drain.group
  BY DEF TypesAndSizes, TypeOK
<1>2. PICK ok \in BOOLEAN :
          LET m == IF ok THEN Marked(q) ELSE q
          IN  /\ drain.at = "mirror" /\ rows' = AppendGroup(m)
              /\ drain' = [at |-> "effects", group |-> Appended(m), failed |-> ~ok]
              /\ UNCHANGED drainFrame /\ UNCHANGED <<throttled, stLatest>>
  BY <1>1, IngestAssumption DEF DrainMirror, drainFrame
<1>m. PICK m : m = IF ok THEN Marked(q) ELSE q
  OBVIOUS
<1>3. /\ m \in Seq(ReportType) /\ Len(m) = Len(q)
      /\ \A i \in 1..Len(q) : Same(q[i], m[i]) /\ m[i].appended = q[i].appended
  BY <1>m, MarkedGroup DEF Same
<1>4. drain'.at = "effects" /\ drain'.group = Appended(m) /\ drain'.failed \in BOOLEAN
  BY <1>2, <1>m
<1>5. GroupStep
  <2>1. rows' = AppendGroup(m)
    BY <1>2, <1>m
  <2> QED
    BY <1>1, <1>3, <1>4, <2>1, AppendedStep
<1> QED
  BY <1>2, <1>4, <1>5

\* The effects of the group were written, or it is queued again before what
\* came since, its oldest reports dropped when the queue is full.
GroupRequeued ==
    /\ Len(mem') <= MaxReports /\ Len(mem') <= Len(drain.group) + Len(mem)
    /\ mem' \in Seq(ReportType)
    /\ \A y \in ReportsIn(mem') : \/ y \in ReportsIn(mem)
                                  \/ \E x \in ReportsIn(drain.group) :
                                        Same(x, y) /\ (y.appended => x.appended)
    /\ Ids(drain.group) \cup Ids(mem) \subseteq Ids(mem') \cup memLost'
    /\ memLost \subseteq memLost' /\ memLost' \subseteq 1..MaxMessages
    /\ stale' \in BOOLEAN
    /\ ~stale' => ~stale /\ IsCurrent(drain.group[1].epoch)

\* Queues of the same reports drop the same reports.
LEMMA DroppedTheSame ==
    ASSUME NEW q \in Seq(ReportType), NEW p \in Seq(ReportType), Len(p) = Len(q),
           \A i \in 1..Len(q) : p[i].id = q[i].id
    PROVE  /\ Surplus(p) = Surplus(q)
           /\ Oldest(p, Surplus(p)) = Oldest(q, Surplus(q))
<1>1. PICK n \in 0..Len(q) : n = Surplus(q) /\ n = Surplus(p)
  BY SurplusBound DEF Surplus
<1> DEFINE a == SubSeq(q, 1, n)
           b == SubSeq(p, 1, n)
<1>2. /\ Len(a) = n /\ Len(b) = n
      /\ \A i \in 1..n : i \in 1..Len(q) /\ a[i] = q[i] /\ b[i] = p[i]
  <2>1. n \in 0..Len(p)
    OBVIOUS
  <2>2. Len(a) = n /\ \A i \in 1..n : i \in 1..Len(q) /\ a[i] = q[i]
    OBVIOUS
  <2>3. Len(b) = n /\ \A i \in 1..n : b[i] = p[i]
    BY <2>1
  <2> QED
    BY <2>2, <2>3
<1> HIDE DEF a, b
<1>3. Ids(a) = Ids(b)
  BY <1>2 DEF Ids
<1> QED
  BY <1>1, <1>3 DEF Oldest, a, b

LEMMA JoinedTheSame ==
    ASSUME NEW S, NEW q \in Seq(S), NEW m \in Seq(S), NEW p \in Seq(S), Len(m) = Len(q),
           \A i \in 1..Len(q) : m[i].id = q[i].id
    PROVE  /\ Len(m \o p) = Len(q \o p)
           /\ \A i \in 1..Len(q \o p) : (m \o p)[i].id = (q \o p)[i].id
<1>1. /\ Len(q \o p) = Len(q) + Len(p) /\ Len(m \o p) = Len(q) + Len(p)
      /\ Len(q) \in Nat /\ Len(p) \in Nat
  <2>1. Len(q \o p) = Len(q) + Len(p)
    BY ConcatProperties
  <2>2. Len(m \o p) = Len(m) + Len(p)
    BY ConcatProperties
  <2> QED
    BY <2>1, <2>2
<1>2. ASSUME NEW i \in 1..Len(q \o p)
      PROVE  (m \o p)[i].id = (q \o p)[i].id
  <2>1. CASE i <= Len(q)
    <3>1. i \in 1..Len(q)
      BY <1>1, <2>1
    <3>2. (m \o p)[i] = m[i] /\ (q \o p)[i] = q[i]
      BY <3>1, ConcatProperties
    <3> QED
      BY <3>1, <3>2
  <2>2. CASE ~(i <= Len(q))
    <3>0. i - Len(q) \in 1..Len(p) /\ (i - Len(q)) + Len(q) = i
      BY <1>1, <2>2
    <3>1. (m \o p)[i] = p[i - Len(q)] /\ (q \o p)[i] = p[i - Len(q)]
      BY <3>0, ConcatProperties
    <3> QED
      BY <3>1
  <2> QED
    BY <2>1, <2>2
<1> QED
  BY <1>1, <1>2

LEMMA RequeuedGroup ==
    ASSUME TypesAndSizes, NEW q \in Seq(ReportType), Len(q) = Len(drain.group), Len(q) > 0,
           \A i \in 1..Len(q) : /\ Same(drain.group[i], q[i])
                                /\ q[i].appended = drain.group[i].appended,
           mem' = Requeued(Marked(q)),
           memLost' = memLost \cup Oldest(q \o mem, Surplus(q \o mem)),
           stale' = (stale \/ ~IsCurrent(q[1].epoch))
    PROVE  GroupRequeued
<1>1. PICK m : m = Marked(q)
  OBVIOUS
<1>2. /\ m \in Seq(ReportType) /\ Len(m) = Len(q)
      /\ \A i \in 1..Len(q) : Same(q[i], m[i]) /\ m[i].appended = q[i].appended
  BY <1>1, MarkedGroup
<1>3. /\ mem \in Seq(ReportType) /\ drain.group \in Seq(ReportType)
      /\ memLost \subseteq 1..MaxMessages /\ stale \in BOOLEAN
  BY DEF TypesAndSizes, TypeOK
<1>4. \A i \in 1..Len(q) : /\ Same(drain.group[i], m[i])
                           /\ m[i].appended = drain.group[i].appended
  BY <1>2 DEF Same
<1>5. PICK j : j = m \o mem
  OBVIOUS
<1>6. /\ j \in Seq(ReportType) /\ Len(j) = Len(m) + Len(mem)
      /\ ReportsIn(j) \subseteq ReportsIn(m) \cup ReportsIn(mem)
      /\ Ids(m) \cup Ids(mem) \subseteq Ids(j)
  BY <1>2, <1>3, <1>5, Joining
<1>7. PICK n \in 0..Len(j) : n = Surplus(j) /\ Len(j) - n <= MaxReports
  BY <1>6, SurplusBound
<1>8. mem' = WithoutOldest(j, n)
  BY <1>1, <1>5, <1>7 DEF Requeued
<1>9. /\ mem' \in Seq(ReportType) /\ Len(mem') = Len(j) - n
      /\ ReportsIn(mem') \subseteq ReportsIn(j)
      /\ Ids(j) = Oldest(j, n) \cup Ids(mem')
  <2>1. j \in Seq(ReportType) /\ n \in 0..Len(j)
    BY <1>6
  <2> QED
    BY <1>8, <2>1, Dropping
<1>10. memLost' = memLost \cup Oldest(j, n)
  <2>1. q \o mem \in Seq(ReportType)
    BY <1>3
  <2>2. \A i \in 1..Len(q) : m[i].id = q[i].id
    BY <1>2 DEF Same
  <2>3. /\ Len(j) = Len(q \o mem)
        /\ \A i \in 1..Len(q \o mem) : j[i].id = (q \o mem)[i].id
    <3>1. mem \in Seq(ReportType) /\ m \in Seq(ReportType) /\ Len(m) = Len(q)
      BY <1>2, <1>3
    <3>2. /\ Len(m \o mem) = Len(q \o mem)
          /\ \A i \in 1..Len(q \o mem) : (m \o mem)[i].id = (q \o mem)[i].id
      BY <2>2, <3>1, JoinedTheSame
    <3> QED
      BY <1>5, <3>2
  <2>4. Oldest(j, n) = Oldest(q \o mem, Surplus(q \o mem))
    BY <1>6, <1>7, <2>1, <2>3, DroppedTheSame
  <2> QED
    BY <2>4
<1>11. Len(mem') <= MaxReports /\ Len(mem') <= Len(drain.group) + Len(mem)
  <2>1. Len(j) \in Nat /\ Len(j) = Len(drain.group) + Len(mem)
    BY <1>2, <1>6
  <2> QED
    BY <1>7, <1>9, <2>1
<1>12. Ids(drain.group) = Ids(m)
  <2>1. /\ Len(drain.group) = Len(m)
        /\ \A i \in 1..Len(m) : drain.group[i].id = m[i].id
    BY <1>2, <1>4 DEF Same
  <2> QED
    BY <2>1 DEF Ids
<1>13. ASSUME NEW y \in ReportsIn(mem')
       PROVE  \/ y \in ReportsIn(mem)
              \/ \E x \in ReportsIn(drain.group) : Same(x, y) /\ (y.appended => x.appended)
  <2>1. y \in ReportsIn(m) \cup ReportsIn(mem)
    BY <1>6, <1>9
  <2>2. ASSUME NEW i \in 1..Len(q), y = m[i]
        PROVE  \E x \in ReportsIn(drain.group) : Same(x, y) /\ (y.appended => x.appended)
    <3>1. drain.group[i] \in ReportsIn(drain.group)
      BY DEF ReportsIn
    <3> QED
      BY <1>4, <2>2, <3>1
  <2> QED
    BY <1>2, <2>1, <2>2 DEF ReportsIn
<1>14. Ids(j) \subseteq 1..MaxMessages
  <2>1. ReportsIn(j) \subseteq ReportType
    BY <1>6 DEF ReportsIn
  <2> QED
    BY <2>1, IdsAreOfReports DEF ReportType
<1>15. q[1].epoch = drain.group[1].epoch
  BY DEF Same
<1>16. stale' \in BOOLEAN /\ (~stale' => ~stale /\ IsCurrent(drain.group[1].epoch))
  BY <1>3, <1>15, Zenon
<1>17. /\ memLost \subseteq memLost' /\ memLost' \subseteq 1..MaxMessages
       /\ Ids(drain.group) \cup Ids(mem) \subseteq Ids(mem') \cup memLost'
  BY <1>3, <1>6, <1>9, <1>10, <1>12, <1>14
<1> QED
  BY <1>9, <1>11, <1>13, <1>16, <1>17 DEF GroupRequeued

LEMMA EffectsStep ==
    ASSUME TypesAndSizes, GroupThere, DrainEffects
    PROVE  /\ drain.at = "effects" /\ drain' = NoDrain
           /\ throttled' \in BOOLEAN /\ stLatest' \in 0..MaxClock /\ alarm' \in BOOLEAN
           /\ UNCHANGED <<mem, memLost, stale>> \/ GroupRequeued
           /\ UNCHANGED <<handlers, memLatest, memBytes, epoch, deleted, rows, purging, sockets, clock,
                          received, acked, ended>>
<1>1. PICK fails \in [1..Len(drain.group) -> {~ok : ok \in D1Outcomes}] :
          LET q == [i \in 1..Len(drain.group) |->
                       [drain.group[i] EXCEPT !.traffic = @ \/ ~fails[i]]]
              failed == drain.failed \/ \E i \in 1..Len(q) : ~q[i].traffic
          IN  /\ drain.at = "effects"
              /\ \A i \in 1..Len(q) : drain.group[i].traffic => ~fails[i]
              /\ PersistLatest(q)
              /\ drain' = NoDrain
              /\ IF failed
                 THEN /\ mem' = Requeued(Marked(q))
                      /\ alarm' = RetryAlarm
                      /\ memLost' = memLost \cup Oldest(q \o mem, Surplus(q \o mem))
                      /\ stale' = (stale \/ ~IsCurrent(q[1].epoch))
                 ELSE UNCHANGED <<mem, alarm, memLost, stale>>
              /\ UNCHANGED <<handlers, memLatest, memBytes, epoch, deleted, rows, purging, sockets, clock,
                             received, acked, ended, deletes, restarts>>
  BY Zenon DEF DrainEffects
<1>2. fails \in [1..Len(drain.group) -> BOOLEAN] /\ drain.group \in Seq(ReportType)
  <2>1. {~ok : ok \in D1Outcomes} \subseteq BOOLEAN
    BY Zenon
  <2>2. fails \in [1..Len(drain.group) -> {~ok : ok \in D1Outcomes}]
    BY <1>1
  <2> QED
    BY <2>1, <2>2 DEF TypesAndSizes, TypeOK
<1>3. PICK q : q = [i \in 1..Len(drain.group) |->
                       [drain.group[i] EXCEPT !.traffic = @ \/ ~fails[i]]]
  OBVIOUS
<1>4. PICK failed \in BOOLEAN : failed = (drain.failed \/ \E i \in 1..Len(q) : ~q[i].traffic)
  BY Zenon
<1>5. /\ drain.at = "effects" /\ drain' = NoDrain /\ PersistLatest(q)
      /\ IF failed
         THEN /\ mem' = Requeued(Marked(q))
              /\ alarm' = RetryAlarm
              /\ memLost' = memLost \cup Oldest(q \o mem, Surplus(q \o mem))
              /\ stale' = (stale \/ ~IsCurrent(q[1].epoch))
         ELSE UNCHANGED <<mem, alarm, memLost, stale>>
      /\ UNCHANGED <<handlers, memLatest, memBytes, epoch, deleted, rows, purging, sockets, clock,
                     received, acked, ended>>
  BY <1>1, <1>3, <1>4, Zenon
<1>6. /\ q \in Seq(ReportType) /\ Len(q) = Len(drain.group)
      /\ \A i \in 1..Len(drain.group) : /\ Same(drain.group[i], q[i])
                                         /\ q[i].appended = drain.group[i].appended
  <2>1. ASSUME NEW i \in 1..Len(drain.group)
        PROVE  \E b \in BOOLEAN : q[i] = [drain.group[i] EXCEPT !.traffic = b]
    <3>1. PICK b \in BOOLEAN : b = (drain.group[i].traffic \/ ~fails[i])
      BY Zenon
    <3>2. q[i] = [drain.group[i] EXCEPT !.traffic = b]
      BY <1>3, <3>1, Zenon
    <3> QED
      BY <3>2
  <2>2. q = [i \in 1..Len(drain.group) |-> q[i]]
    BY <1>3, Zenon
  <2>3. PICK g \in Seq(ReportType) : g = drain.group
    BY <1>2
  <2>4. /\ q = [i \in 1..Len(g) |-> q[i]]
        /\ \A i \in 1..Len(g) : \E b \in BOOLEAN : q[i] = [g[i] EXCEPT !.traffic = b]
    BY <2>1, <2>2, <2>3, Zenon
  <2>5. /\ q \in Seq(ReportType) /\ Len(q) = Len(g)
        /\ \A i \in 1..Len(g) : Same(g[i], q[i]) /\ q[i].appended = g[i].appended
    BY <2>4, TrafficGroup, Zenon
  <2> QED
    BY <2>3, <2>5, Zenon
<1>7. throttled' \in BOOLEAN /\ stLatest' \in 0..MaxClock
  BY <1>5, <1>6, PersistedState DEF TypesAndSizes, TypeOK
<1>8. Len(q) > 0 /\ \A i \in 1..Len(q) : i \in 1..Len(drain.group)
  <2>1. drain.at # "idle"
    BY <1>5
  <2>2. Len(drain.group) \in Nat \ {0}
    BY <2>1, FirstOfGroup
  <2> QED
    BY <1>6, <2>2
<1>9. failed => GroupRequeued
  BY <1>5, <1>6, <1>8, RequeuedGroup
<1>10. alarm' \in BOOLEAN
  BY <1>5 DEF TypesAndSizes, TypeOK, RetryAlarm
<1> QED
  BY <1>5, <1>7, <1>9, <1>10

LEMMA LoadStep ==
    ASSUME GroupThere, DrainLoad
    PROVE  /\ drain.at = "idle" /\ drain.group = <<>> /\ mem' = <<>> /\ alarm' = FALSE
           /\ drain'.group = mem /\ (drain'.at = "idle" <=> mem = <<>>)
           /\ drain' = [at |-> IF mem = <<>> THEN "idle" ELSE "check", group |-> mem, failed |-> FALSE]
           /\ UNCHANGED <<handlers, memLatest, throttled, memBytes, epoch, deleted, stLatest, rows, purging,
                          sockets, clock, history>>
  BY DEF DrainLoad, GroupThere, NoDrain

LEMMA DrainTyped ==
    ASSUME TypesAndSizes, GroupThere, DrainLoad \/ DrainStep
    PROVE  TypesAndSizes'
<1>0. /\ mem \in Seq(ReportType) /\ drain.group \in Seq(ReportType) /\ memBytes \in Nat
      /\ Len(mem) \in Nat /\ Len(drain.group) \in Nat
      /\ Len(mem) + Len(drain.group) <= memBytes
  <2>1. mem \in Seq(ReportType) /\ drain.group \in Seq(ReportType) /\ memBytes \in Nat
    BY Bounds DEF TypesAndSizes, TypeOK
  <2> QED
    BY <2>1 DEF TypesAndSizes, Sized
<1>1. CASE DrainLoad
  <2>1. drain' \in [at : {"idle", "check", "mirror", "effects"}, group : Seq(ReportType), failed : BOOLEAN]
    <3>1. PICK a \in {"idle", "check"} : a = IF mem = <<>> THEN "idle" ELSE "check"
      OBVIOUS
    <3>2. drain' = [at |-> a, group |-> mem, failed |-> FALSE]
      BY <1>1, <3>1, LoadStep
    <3> QED
      BY <1>0, <3>1, <3>2
  <2>2. mem' \in Seq(ReportType) /\ Len(mem') = 0 /\ Len(drain'.group) = Len(mem)
    BY <1>1, LoadStep, EmptyQueue
  <2>3. Len(mem') + Len(drain'.group) <= memBytes
    BY <1>0, <2>2
  <2>4. Len(mem') <= MaxReports
    BY <2>2, Bounds
  <2>5. /\ alarm' = FALSE
        /\ UNCHANGED <<handlers, memLatest, throttled, memBytes, epoch, deleted, stLatest, rows, purging,
                       sockets, clock, received, acked, ended, memLost, stale>>
    BY <1>1, LoadStep DEF history
  <2>6. TypeOK'
    BY <2>1, <2>2, <2>4, <2>5 DEF TypesAndSizes, TypeOK
  <2>7. Sized'
    BY <2>3, <2>5 DEF TypesAndSizes, Sized
  <2> QED
    BY <2>6, <2>7 DEF TypesAndSizes
<1>2. CASE DrainStaleGroup
  <2>1. /\ drain' = NoDrain
        /\ UNCHANGED <<handlers, memLatest, throttled, mem, memBytes, storage, purging, sockets, clock, history>>
    BY <1>2 DEF DrainStaleGroup
  <2>2. /\ drain' \in [at : {"idle", "check", "mirror", "effects"}, group : Seq(ReportType), failed : BOOLEAN]
        /\ Len(drain'.group) = 0
    BY <2>1, EmptyQueue DEF NoDrain
  <2>3. Len(mem) + Len(drain'.group) <= memBytes
    BY <1>0, <2>2
  <2>4. UNCHANGED <<handlers, memLatest, throttled, mem, memBytes, epoch, deleted, stLatest, rows, alarm,
                    purging, sockets, clock, received, acked, ended, memLost, stale>>
    BY <2>1 DEF storage, history
  <2>5. TypeOK'
    BY <2>2, <2>4 DEF TypesAndSizes, TypeOK
  <2>6. Sized'
    BY <2>3, <2>4 DEF TypesAndSizes, Sized
  <2> QED
    BY <2>5, <2>6 DEF TypesAndSizes
<1>3. CASE DrainPersist \/ DrainMirror
  <2>1. /\ GroupStep /\ UNCHANGED drainFrame
        /\ throttled' \in BOOLEAN /\ stLatest' \in 0..MaxClock
    BY <1>3, PersistStep, MirrorStep DEF TypesAndSizes, TypeOK
  <2>2. drain' \in [at : {"idle", "check", "mirror", "effects"}, group : Seq(ReportType), failed : BOOLEAN]
    <3>1. CASE DrainPersist
      <4>1. drain \in [at : {"idle", "check", "mirror", "effects"}, group : Seq(ReportType), failed : BOOLEAN]
        BY DEF TypesAndSizes, TypeOK
      <4>2. PICK p : \/ drain' = [drain EXCEPT !.at = "mirror"]
                     \/ drain' = [drain EXCEPT !.at = "effects", !.group = p]
        BY <3>1 DEF DrainPersist
      <4>3. drain'.group \in Seq(ReportType)
        BY <2>1 DEF GroupStep
      <4>4. CASE drain' = [drain EXCEPT !.at = "mirror"]
        BY <4>1, <4>4
      <4>5. CASE drain' = [drain EXCEPT !.at = "effects", !.group = p]
        <5>1. p = drain'.group
          BY <4>1, <4>5
        <5> QED
          BY <4>1, <4>3, <4>5, <5>1
      <4> QED
        BY <4>2, <4>4, <4>5
    <3>2. CASE DrainMirror
      <4>1. PICK p, f : drain' = [at |-> "effects", group |-> p, failed |-> f]
        BY <3>2 DEF DrainMirror
      <4>2. p \in Seq(ReportType) /\ f \in BOOLEAN
        <5>1. drain'.group \in Seq(ReportType) /\ drain'.failed \in BOOLEAN
          BY <2>1, <3>2, MirrorStep DEF GroupStep
        <5> QED
          BY <4>1, <5>1
      <4> QED
        BY <4>1, <4>2
    <3> QED
      BY <1>3, <3>1, <3>2
  <2>3. rows' \subseteq 1..MaxMessages
    <3>1. ReportsIn(drain.group) \subseteq ReportType
      BY <1>0 DEF ReportsIn
    <3>2. Ids(drain.group) \subseteq 1..MaxMessages
      BY <3>1, IdsAreOfReports DEF ReportType
    <3>3. rows \subseteq 1..MaxMessages
      BY DEF TypesAndSizes, TypeOK
    <3> QED
      BY <2>1, <3>2, <3>3 DEF GroupStep
  <2>4. Len(mem) + Len(drain'.group) <= memBytes
    BY <1>0, <2>1 DEF GroupStep
  <2>5. UNCHANGED <<handlers, memLatest, mem, memBytes, epoch, deleted, alarm, purging, sockets, clock,
                    received, acked, ended, memLost, stale>>
    BY <2>1 DEF drainFrame, history
  <2>6. TypeOK'
    BY <2>1, <2>2, <2>3, <2>5 DEF TypesAndSizes, TypeOK
  <2>7. Sized'
    BY <2>4, <2>5 DEF TypesAndSizes, Sized
  <2> QED
    BY <2>6, <2>7 DEF TypesAndSizes
<1>4. CASE DrainEffects
  <2>1. drain' = NoDrain
    BY <1>4, EffectsStep
  <2>2. /\ drain' \in [at : {"idle", "check", "mirror", "effects"}, group : Seq(ReportType), failed : BOOLEAN]
        /\ Len(drain'.group) = 0
    BY <2>1, EmptyQueue DEF NoDrain
  <2>3. /\ mem' \in Seq(ReportType) /\ Len(mem') <= MaxReports
        /\ Len(mem') <= Len(drain.group) + Len(mem)
        /\ memLost' \subseteq 1..MaxMessages /\ stale' \in BOOLEAN
    <3>1. CASE UNCHANGED <<mem, memLost, stale>>
      BY <1>0, <3>1 DEF TypesAndSizes, TypeOK
    <3>2. CASE GroupRequeued
      BY <3>2 DEF GroupRequeued
    <3> QED
      BY <1>4, <3>1, <3>2, EffectsStep
  <2>4. Len(mem') \in Nat
    BY <2>3
  <2>5. Len(mem') + Len(drain'.group) <= memBytes
    BY <1>0, <2>2, <2>3, <2>4
  <2>6. /\ throttled' \in BOOLEAN /\ stLatest' \in 0..MaxClock /\ alarm' \in BOOLEAN
        /\ UNCHANGED <<handlers, memLatest, memBytes, epoch, deleted, rows, purging, sockets, clock,
                       received, acked, ended>>
    BY <1>4, EffectsStep
  <2>7. /\ epoch' \in Nat /\ deleted' \in BOOLEAN /\ purging' \in BOOLEAN
        /\ sockets' \subseteq 1..epoch'
        /\ handlers' \subseteq [id : 1..MaxMessages, epoch : 1..epoch', prev : 0..MaxClock,
                                upd : 0..MaxClock]
        /\ clock' \in 1..MaxClock /\ memLatest' \in 0..MaxClock
        /\ memBytes' \in 0..MaxMessages /\ received' \in 0..MaxMessages
        /\ rows' \subseteq 1..MaxMessages /\ acked' \subseteq 1..MaxMessages
        /\ ended' \subseteq 1..MaxMessages
    BY <2>6 DEF TypesAndSizes, TypeOK
  <2>9. \A S \in {rows', acked', ended', memLost'} : S \subseteq 1..MaxMessages
    BY <2>3, <2>7
  <2>10. /\ throttled' \in BOOLEAN /\ stLatest' \in 0..MaxClock /\ alarm' \in BOOLEAN
         /\ mem' \in Seq(ReportType) /\ Len(mem') <= MaxReports /\ stale' \in BOOLEAN
    BY <2>3, <2>6
  <2>t. TypeOK'
    BY <2>2, <2>7, <2>9, <2>10, Zenon DEF TypeOK
  <2>8. Sized'
    BY <2>5, <2>6 DEF TypesAndSizes, Sized
  <2> QED
    BY <2>t, <2>8 DEF TypesAndSizes
<1> QED
  BY <1>1, <1>2, <1>3, <1>4 DEF DrainStep

LEMMA EndsTyped ==
    ASSUME TypesAndSizes, DeleteLatest \/ Restart
    PROVE  TypesAndSizes'
<1>0. /\ mem \in Seq(ReportType) /\ drain.group \in Seq(ReportType) /\ memBytes \in 0..MaxMessages
      /\ received \in 0..MaxMessages /\ Cardinality(handlers) \in Nat
      /\ epoch \in Nat /\ memLost \subseteq 1..MaxMessages
  BY FS_CardinalityType DEF TypesAndSizes, TypeOK, Sized
<1>1. CASE DeleteLatest
  <2>1. /\ epoch' = epoch + 1 /\ deleted' = TRUE /\ purging' = TRUE
        /\ memLatest' = 0 /\ stLatest' = 0 /\ throttled' = FALSE
        /\ mem' = <<>> /\ sockets' = {} /\ ended' = ended \cup acked
        /\ UNCHANGED <<handlers, memBytes, drain, rows, alarm, clock, received, acked, memLost, stale>>
    BY <1>1 DEF DeleteLatest
  <2>2. 1..epoch \subseteq 1..epoch' /\ epoch' \in Nat /\ 0 \in 0..MaxClock
    BY <1>0, <2>1, Bounds
  <2>3. /\ handlers' \subseteq [id : 1..MaxMessages, epoch : 1..epoch', prev : 0..MaxClock, upd : 0..MaxClock]
        /\ sockets' \subseteq 1..epoch'
    <3>1. HandlerType \subseteq
              [id : 1..MaxMessages, epoch : 1..epoch', prev : 0..MaxClock, upd : 0..MaxClock]
      BY <2>2 DEF HandlerType
    <3>2. handlers \subseteq HandlerType
      BY DEF TypesAndSizes, TypeOK, HandlerType
    <3> QED
      BY <2>1, <3>1, <3>2
  <2>4. mem' \in Seq(ReportType) /\ Len(mem') = 0 /\ Len(mem') <= MaxReports
    BY <2>1, EmptyQueue, Bounds
  <2>5. Len(mem') + Len(drain'.group) <= memBytes'
    <3>1. Len(mem) \in Nat /\ Len(drain.group) \in Nat /\ Len(mem) + Len(drain.group) <= memBytes
      BY <1>0 DEF TypesAndSizes, Sized
    <3>2. memBytes \in Nat
      BY <1>0, Bounds
    <3>3. Len(drain.group) <= memBytes
      BY <3>1, <3>2
    <3> QED
      BY <2>1, <2>4, <3>1, <3>3
  <2>6. TypeOK'
    <3>1. /\ deleted' \in BOOLEAN /\ purging' \in BOOLEAN /\ throttled' \in BOOLEAN
          /\ memLatest' \in 0..MaxClock /\ stLatest' \in 0..MaxClock
          /\ ended' \subseteq 1..MaxMessages
      BY <2>1, <2>2 DEF TypesAndSizes, TypeOK
    <3>2. /\ clock' \in 1..MaxClock /\ alarm' \in BOOLEAN /\ stale' \in BOOLEAN
          /\ memBytes' \in 0..MaxMessages /\ received' \in 0..MaxMessages
          /\ \A S \in {rows, acked, memLost} : S \subseteq 1..MaxMessages
      BY <2>1 DEF TypesAndSizes, TypeOK
    <3>3. drain' \in [at : {"idle", "check", "mirror", "effects"}, group : Seq(ReportType), failed : BOOLEAN]
      BY <2>1 DEF TypesAndSizes, TypeOK
    <3>4. \A S \in {rows', acked', ended', memLost'} : S \subseteq 1..MaxMessages
      BY <2>1, <3>1, <3>2
    <3> QED
      BY <2>2, <2>3, <2>4, <3>1, <3>2, <3>3, <3>4, Zenon DEF TypeOK
  <2>7. Sized'
    BY <2>1, <2>5 DEF TypesAndSizes, Sized
  <2> QED
    BY <2>6, <2>7 DEF TypesAndSizes
<1>2. CASE Restart
  <2>1. /\ handlers' = {} /\ memLatest' = 0 /\ throttled' = FALSE
        /\ mem' = <<>> /\ memBytes' = 0 /\ drain' = NoDrain
        /\ alarm' = (alarm \/ drain.at # "idle")
        /\ memLost' = memLost \cup Ids(mem) \cup Ids(drain.group)
        /\ UNCHANGED <<epoch, deleted, stLatest, rows, purging, sockets, clock, received, acked,
                       ended, stale>>
    BY <1>2 DEF Restart
  <2>2. Ids(mem) \subseteq 1..MaxMessages /\ Ids(drain.group) \subseteq 1..MaxMessages
    <3>1. ReportsIn(mem) \subseteq ReportType /\ ReportsIn(drain.group) \subseteq ReportType
      BY <1>0 DEF ReportsIn
    <3> QED
      BY <3>1, IdsAreOfReports DEF ReportType
  <2>3. memLost' \subseteq 1..MaxMessages /\ alarm' \in BOOLEAN
    BY <1>0, <2>1, <2>2
  <2>4. mem' \in Seq(ReportType) /\ Len(mem') = 0 /\ Len(mem') <= MaxReports
    BY <2>1, EmptyQueue, Bounds
  <2>5. /\ drain' \in [at : {"idle", "check", "mirror", "effects"}, group : Seq(ReportType), failed : BOOLEAN]
        /\ Len(drain'.group) = 0
    BY <2>1, EmptyQueue DEF NoDrain
  <2>6. TypeOK'
    <3>1. handlers' \subseteq [id : 1..MaxMessages, epoch : 1..epoch', prev : 0..MaxClock, upd : 0..MaxClock]
      BY <2>1, Zenon
    <3>2. memLatest' \in 0..MaxClock /\ memBytes' \in 0..MaxMessages /\ throttled' \in BOOLEAN
      <4>1. memLatest' = 0 /\ memBytes' = 0
        BY <2>1
      <4>2. throttled' \in BOOLEAN
        BY <2>1, Zenon
      <4> QED
        BY <4>1, <4>2, Bounds
    <3>3. /\ epoch' \in Nat /\ deleted' \in BOOLEAN /\ purging' \in BOOLEAN
          /\ sockets' \subseteq 1..epoch' /\ clock' \in 1..MaxClock /\ stLatest' \in 0..MaxClock
          /\ stale' \in BOOLEAN /\ received' \in 0..MaxMessages
          /\ \A S \in {rows, acked, ended} : S \subseteq 1..MaxMessages
      BY <2>1 DEF TypesAndSizes, TypeOK
    <3>4. \A S \in {rows', acked', ended', memLost'} : S \subseteq 1..MaxMessages
      BY <2>1, <2>3, <3>3
    <3> QED
      BY <2>3, <2>4, <2>5, <3>1, <3>2, <3>3, <3>4, Zenon DEF TypeOK
  <2>7. Sized'
    <3>1. IsFiniteSet(handlers') /\ Cardinality(handlers') = 0
      BY <2>1, FS_EmptySet
    <3>2. Cardinality(handlers') + memBytes' <= received' /\ Len(mem') + Len(drain'.group) <= memBytes'
      BY <1>0, <2>1, <2>4, <2>5, <3>1
    <3> QED
      BY <3>1, <3>2 DEF Sized
  <2> QED
    BY <2>6, <2>7 DEF TypesAndSizes
<1> QED
  BY <1>1, <1>2

LEMMA TypedInitially ==
    ASSUME Init
    PROVE  TypesAndSizes
<1>1. /\ epoch = 0 /\ deleted = FALSE /\ purging = FALSE
      /\ sockets = {} /\ handlers = {} /\ clock = 1
      /\ memLatest = 0 /\ stLatest = 0 /\ throttled = FALSE
      /\ mem = <<>> /\ memBytes = 0 /\ drain = NoDrain /\ rows = {} /\ alarm = FALSE
      /\ received = 0 /\ acked = {} /\ ended = {} /\ memLost = {} /\ stale = FALSE
  BY DEF Init
<1>2. /\ drain \in [at : {"idle", "check", "mirror", "effects"}, group : Seq(ReportType), failed : BOOLEAN]
      /\ mem \in Seq(ReportType) /\ Len(drain.group) = 0 /\ Len(mem) = 0 /\ Len(mem) <= MaxReports
  BY <1>1, EmptyQueue, Bounds DEF NoDrain
<1>3. TypeOK
  <2>1. 1 \in 1..MaxClock /\ 0 \in 0..MaxClock /\ 0 \in 0..MaxMessages /\ epoch \in Nat
    BY <1>1, Bounds
  <2> QED
    BY <1>1, <1>2, <2>1 DEF TypeOK
<1>4. Sized
  BY <1>1, <1>2, FS_EmptySet DEF Sized
<1> QED
  BY <1>3, <1>4 DEF TypesAndSizes

-----------------------------------------------------------------------------
(* The invariant about the reports, step by step.                            *)

LEMMA OpenKeepsReports ==
    ASSUME TypesAndSizes, ReportsInv, OpenSocket
    PROVE  ReportsInv'
<1>1. /\ ~purging /\ ~deleted'
      /\ \/ epoch' = epoch + 1 /\ (deleted \/ epoch = 0)
         \/ epoch' = epoch /\ ~deleted
      /\ UNCHANGED <<purging, mem, drain, rows, acked, ended, memLost, stale>>
  <2>1. UNCHANGED <<purging, mem, drain, rows, acked, ended, memLost, stale>>
    BY DEF OpenSocket, memory, history
  <2> QED
    BY <2>1 DEF OpenSocket
<1>2. epoch \in Nat /\ epoch' \in Nat /\ 1..epoch \subseteq 1..epoch'
  BY <1>1 DEF TypesAndSizes, TypeOK
<1>3. Held' = Held
  BY <1>1 DEF Held
<1>4. Lifecycles'
  <2>1. \A x \in Held : x.epoch \in 1..epoch' /\ x.id \in acked
    BY <1>2 DEF ReportsInv, Lifecycles
  <2> QED
    BY <1>1, <1>3, <2>1 DEF Lifecycles
<1>5. GroupThere' /\ Stored' /\ AckedReportKept'
  BY <1>1, <1>3 DEF ReportsInv, GroupThere, Stored, AckedReportKept
<1>6. OneLifecycle'
  <2>1. CASE stale
    BY <1>1, <2>1 DEF OneLifecycle
  <2>2. CASE ~stale
    <3>1. /\ \A x \in ReportsIn(mem) : ~deleted /\ epoch = x.epoch
          /\ \A x, y \in ReportsIn(drain.group) : x.epoch = y.epoch
          /\ \A x \in ReportsIn(drain.group) : (~deleted /\ epoch = x.epoch) \/ x.id \in ended
      BY <2>2 DEF ReportsInv, OneLifecycle, IsCurrent
    <3>2. \A x \in Held : x.epoch # 0
      BY <1>2 DEF ReportsInv, Lifecycles
    <3>3. /\ \A x \in ReportsIn(mem) : ~deleted /\ epoch # 0
          /\ \A x \in ReportsIn(drain.group) : (~deleted /\ epoch # 0) \/ x.id \in ended
      BY <3>1, <3>2 DEF Held
    <3>4. /\ \A x \in ReportsIn(mem) : ~deleted' /\ epoch' = x.epoch
          /\ \A x \in ReportsIn(drain.group) : (~deleted' /\ epoch' = x.epoch) \/ x.id \in ended
      BY <1>1, <3>1, <3>3
    <3> QED
      BY <1>1, <3>1, <3>4 DEF OneLifecycle, IsCurrent
  <2> QED
    BY <2>1, <2>2
<1> QED
  BY <1>4, <1>5, <1>6 DEF ReportsInv

LEMMA AcceptKeepsReports ==
    ASSUME TypesAndSizes, ReportsInv, NEW h \in handlers, AcceptMessage(h)
    PROVE  ReportsInv'
<1>1. PICK x : Joined(h, x)
  BY AcceptedReport
<1>2. /\ IsCurrent(h.epoch) /\ acked' = acked \cup {h.id}
      /\ UNCHANGED <<epoch, deleted, purging, drain, rows, ended, stale>>
  BY DEF AcceptMessage
<1>3. /\ Ids(mem) \cup {h.id} \subseteq Ids(mem') \cup memLost' /\ memLost \subseteq memLost'
  BY AcceptedReport
<1>4. x.id = h.id /\ x.epoch = h.epoch /\ ~x.appended /\ ReportsIn(mem') \subseteq ReportsIn(mem) \cup {x}
  BY <1>1 DEF Joined
<1>5. Held' \subseteq Held \cup {x}
  BY <1>2, <1>4 DEF Held
<1>6. Lifecycles'
  <2>1. h.epoch \in 1..epoch
    BY DEF TypesAndSizes, TypeOK
  <2>2. ~deleted
    BY <1>2 DEF IsCurrent
  <2>3. \A y \in Held' : y.epoch \in 1..epoch /\ y.id \in acked'
    BY <1>2, <1>4, <1>5, <2>1 DEF ReportsInv, Lifecycles
  <2> QED
    BY <1>2, <2>2, <2>3 DEF ReportsInv, Lifecycles
<1>7. GroupThere'
  BY <1>2 DEF ReportsInv, GroupThere
<1>8. Stored'
  <2>1. \A y \in Held' : y.appended => stale \/ y.id \in rows \cup ended
    BY <1>4, <1>5 DEF ReportsInv, Stored
  <2> QED
    BY <1>2, <2>1 DEF ReportsInv, Stored
<1>9. OneLifecycle'
  <2>1. CASE stale
    BY <1>2, <2>1 DEF OneLifecycle
  <2>2. CASE ~stale
    <3>1. \A y \in ReportsIn(mem') : IsCurrent(y.epoch)
      BY <1>2, <1>4, <2>2 DEF ReportsInv, OneLifecycle
    <3> QED
      BY <1>2, <2>2, <3>1 DEF ReportsInv, OneLifecycle, IsCurrent
  <2> QED
    BY <2>1, <2>2
<1>10. AckedReportKept'
  BY <1>2, <1>3 DEF ReportsInv, AckedReportKept
<1> QED
  BY <1>6, <1>7, <1>8, <1>9, <1>10 DEF ReportsInv

LEMMA LoadKeepsReports ==
    ASSUME TypesAndSizes, ReportsInv, DrainLoad
    PROVE  ReportsInv'
<1>1. /\ drain.at = "idle" /\ drain.group = <<>> /\ mem' = <<>>
      /\ drain'.group = mem /\ (drain'.at = "idle" <=> mem = <<>>) /\ drain'.at # "effects"
      /\ UNCHANGED <<epoch, deleted, purging, rows, acked, ended, memLost, stale>>
  BY LoadStep DEF ReportsInv, history
<1>2. /\ ReportsIn(mem') = {} /\ ReportsIn(drain.group) = {} /\ ReportsIn(drain'.group) = ReportsIn(mem)
      /\ Ids(mem') = {} /\ Ids(drain.group) = {} /\ Ids(drain'.group) = Ids(mem)
  BY <1>1, EmptyQueue
<1>3. Held' = Held
  BY <1>2 DEF Held
<1>4. Lifecycles' /\ GroupThere' /\ Stored'
  BY <1>1, <1>3 DEF ReportsInv, Lifecycles, GroupThere, Stored
<1>5. OneLifecycle'
  BY <1>1, <1>2 DEF ReportsInv, OneLifecycle, IsCurrent
<1>6. AckedReportKept'
  BY <1>1, <1>2 DEF ReportsInv, AckedReportKept
<1> QED
  BY <1>4, <1>5, <1>6 DEF ReportsInv

LEMMA StaleGroupKeepsReports ==
    ASSUME TypesAndSizes, ReportsInv, DrainStaleGroup
    PROVE  ReportsInv'
<1>1. /\ drain.at = "check" /\ ~IsCurrent(drain.group[1].epoch) /\ drain' = NoDrain
      /\ UNCHANGED <<epoch, deleted, purging, mem, rows, acked, ended, memLost, stale>>
  BY DEF DrainStaleGroup, storage, history
<1>2. drain'.at = "idle" /\ drain'.group = <<>>
  BY <1>1 DEF NoDrain
<1>3. ReportsIn(drain'.group) = {} /\ Ids(drain'.group) = {}
  BY <1>2, EmptyQueue
<1>4. Held' \subseteq Held
  BY <1>1, <1>3 DEF Held
<1>5. Lifecycles' /\ GroupThere' /\ Stored'
  BY <1>1, <1>2, <1>4 DEF ReportsInv, Lifecycles, GroupThere, Stored
<1>6. OneLifecycle'
  BY <1>1, <1>3 DEF ReportsInv, OneLifecycle, IsCurrent
<1>7. stale \/ Ids(drain.group) \subseteq ended
  <2>1. drain.group[1] \in ReportsIn(drain.group)
    BY <1>1, FirstOfGroup DEF ReportsInv
  <2>2. ASSUME ~stale
        PROVE  \A x \in ReportsIn(drain.group) : x.id \in ended
    BY <1>1, <2>1, <2>2 DEF ReportsInv, OneLifecycle
  <2> QED
    BY <2>2, IdsAreOfReports
<1>8. AckedReportKept'
  BY <1>1, <1>3, <1>7 DEF ReportsInv, AckedReportKept
<1> QED
  BY <1>5, <1>6, <1>8 DEF ReportsInv

LEMMA GroupStepKeepsReports ==
    ASSUME TypesAndSizes, ReportsInv, GroupStep, drain.at # "idle", UNCHANGED drainFrame
    PROVE  ReportsInv'
<1>1. UNCHANGED <<epoch, deleted, purging, mem, acked, ended, memLost, stale>>
  BY DEF drainFrame, history
<1>2. ASSUME NEW y \in ReportsIn(drain'.group)
      PROVE  \E x \in ReportsIn(drain.group) :
                y.id = x.id /\ y.epoch = x.epoch /\ (y.appended => x.appended \/ y.id \in rows')
  BY DEF GroupStep, Same
<1>3. rows \subseteq rows'
  BY DEF GroupStep
<1>4. Lifecycles'
  <2>1. \A x \in Held : x.epoch \in 1..epoch /\ x.id \in acked
    BY DEF ReportsInv, Lifecycles
  <2>2. \A y \in Held' : y.epoch \in 1..epoch /\ y.id \in acked
    BY <1>1, <1>2, <2>1 DEF Held
  <2> QED
    BY <1>1, <2>2 DEF ReportsInv, Lifecycles
<1>5. GroupThere'
  <2>1. Len(drain'.group) = Len(drain.group) /\ Len(drain.group) \in Nat \ {0}
    BY FirstOfGroup DEF GroupStep, ReportsInv
  <2>2. drain'.group # <<>> /\ drain'.at # "idle"
    BY <2>1, EmptyQueue DEF GroupStep
  <2> QED
    BY <2>2 DEF GroupThere
<1>6. Stored'
  <2>1. \A x \in Held : x.appended => stale \/ x.id \in rows \cup ended
    BY DEF ReportsInv, Stored
  <2>2. \A y \in Held' : y.appended => stale \/ y.id \in rows' \cup ended
    BY <1>1, <1>2, <1>3, <2>1 DEF Held
  <2>3. drain'.at = "effects" => \A y \in ReportsIn(drain'.group) : y.appended
    BY DEF GroupStep
  <2> QED
    BY <1>1, <2>2, <2>3 DEF Stored
<1>7. OneLifecycle'
  <2>1. CASE stale
    BY <1>1, <2>1 DEF OneLifecycle
  <2>2. CASE ~stale
    <3>1. /\ \A x \in ReportsIn(mem) : IsCurrent(x.epoch)
          /\ \A x, y \in ReportsIn(drain.group) : x.epoch = y.epoch
          /\ \A x \in ReportsIn(drain.group) : IsCurrent(x.epoch) \/ x.id \in ended
      BY <2>2 DEF ReportsInv, OneLifecycle
    <3>2. \A y \in ReportsIn(drain'.group) : IsCurrent(y.epoch) \/ y.id \in ended
      BY <1>2, <3>1
    <3>3. \A x, y \in ReportsIn(drain'.group) : x.epoch = y.epoch
      BY <1>2, <3>1
    <3> QED
      BY <1>1, <3>1, <3>2, <3>3 DEF OneLifecycle, IsCurrent
  <2> QED
    BY <2>1, <2>2
<1>8. AckedReportKept'
  BY <1>1, <1>3 DEF ReportsInv, AckedReportKept, GroupStep
<1> QED
  BY <1>4, <1>5, <1>6, <1>7, <1>8 DEF ReportsInv

LEMMA EffectsKeepReports ==
    ASSUME TypesAndSizes, ReportsInv, DrainEffects
    PROVE  ReportsInv'
<1>1. /\ drain.at = "effects" /\ drain' = NoDrain
      /\ UNCHANGED <<mem, memLost, stale>> \/ GroupRequeued
      /\ UNCHANGED <<epoch, deleted, rows, purging, acked, ended>>
  BY EffectsStep DEF ReportsInv
<1>2. drain'.at = "idle" /\ drain'.group = <<>>
  BY <1>1 DEF NoDrain
<1>3. ReportsIn(drain'.group) = {} /\ Ids(drain'.group) = {}
  BY <1>2, EmptyQueue
<1>4. ASSUME NEW y \in ReportsIn(mem')
      PROVE  \/ y \in ReportsIn(mem)
             \/ \E x \in ReportsIn(drain.group) :
                   y.id = x.id /\ y.epoch = x.epoch /\ (y.appended => x.appended)
  BY <1>1 DEF GroupRequeued, Same
<1>5. ~stale' => ~stale
  BY <1>1 DEF GroupRequeued
<1>6. Lifecycles'
  <2>1. \A x \in Held : x.epoch \in 1..epoch /\ x.id \in acked
    BY DEF ReportsInv, Lifecycles
  <2>2. \A y \in ReportsIn(mem') : y.epoch \in 1..epoch /\ y.id \in acked
    BY <1>4, <2>1 DEF Held
  <2>3. \A y \in Held' : y.epoch \in 1..epoch /\ y.id \in acked
    BY <1>3, <2>2 DEF Held
  <2> QED
    BY <1>1, <2>3 DEF ReportsInv, Lifecycles
<1>7. GroupThere'
  BY <1>2 DEF GroupThere
<1>8. \A x \in ReportsIn(drain.group) : stale \/ x.id \in rows \cup ended
  BY <1>1 DEF ReportsInv, Stored, Held
<1>9. Stored'
  <2>1. \A x \in Held : x.appended => stale \/ x.id \in rows \cup ended
    BY DEF ReportsInv, Stored
  <2>2. \A y \in ReportsIn(mem') : y.appended => stale \/ y.id \in rows \cup ended
    BY <1>4, <2>1 DEF Held
  <2>3. \A y \in Held' : y.appended => stale' \/ y.id \in rows \cup ended
    BY <1>3, <1>5, <2>2 DEF Held
  <2> QED
    BY <1>1, <1>2, <2>3 DEF Stored
<1>10. OneLifecycle'
  <2>1. CASE stale'
    BY <2>1 DEF OneLifecycle
  <2>2. CASE ~stale'
    <3>1. /\ \A x \in ReportsIn(mem) : IsCurrent(x.epoch)
          /\ \A x, y \in ReportsIn(drain.group) : x.epoch = y.epoch
      BY <1>5, <2>2 DEF ReportsInv, OneLifecycle
    <3>2. \A y \in ReportsIn(mem') : IsCurrent(y.epoch)
      <4>1. CASE UNCHANGED <<mem, memLost, stale>>
        BY <3>1, <4>1
      <4>2. CASE GroupRequeued
        <5>1. IsCurrent(drain.group[1].epoch)
          BY <2>2, <4>2 DEF GroupRequeued
        <5>2. drain.group[1] \in ReportsIn(drain.group)
          BY <1>1, FirstOfGroup DEF ReportsInv
        <5>3. \A x \in ReportsIn(drain.group) : IsCurrent(x.epoch)
          BY <3>1, <5>1, <5>2
        <5> QED
          BY <1>4, <3>1, <5>3
      <4> QED
        BY <1>1, <4>1, <4>2
    <3> QED
      BY <1>1, <1>3, <3>2 DEF OneLifecycle, IsCurrent
  <2> QED
    BY <2>1, <2>2
<1>11. AckedReportKept'
  <2>1. CASE stale'
    BY <2>1 DEF AckedReportKept
  <2>2. CASE ~stale'
    <3>1. Ids(drain.group) \subseteq rows \cup ended
      BY <1>5, <1>8, <2>2, IdsAreOfReports
    <3>2. acked \ (ended \cup memLost) \subseteq rows \cup Ids(mem) \cup Ids(drain.group)
      BY <1>5, <2>2 DEF ReportsInv, AckedReportKept
    <3>3. memLost \subseteq memLost' /\ Ids(mem) \subseteq Ids(mem') \cup memLost'
      BY <1>1 DEF GroupRequeued
    <3>4. acked \ (ended \cup memLost') \subseteq rows \cup Ids(mem')
      BY <3>1, <3>2, <3>3
    <3> QED
      BY <1>1, <3>4 DEF AckedReportKept
  <2> QED
    BY <2>1, <2>2
<1> QED
  BY <1>6, <1>7, <1>9, <1>10, <1>11 DEF ReportsInv

LEMMA DeleteKeepsReports ==
    ASSUME TypesAndSizes, ReportsInv, DeleteLatest
    PROVE  ReportsInv'
<1>1. /\ epoch' = epoch + 1 /\ deleted' /\ purging' /\ mem' = <<>> /\ ended' = ended \cup acked
      /\ UNCHANGED <<drain, rows, acked, memLost, stale>>
  BY DEF DeleteLatest
<1>2. ReportsIn(mem') = {} /\ Ids(mem') = {}
  BY <1>1, EmptyQueue
<1>3. Held' = ReportsIn(drain.group) /\ Held' \subseteq Held
  BY <1>1, <1>2 DEF Held
<1>4. 1..epoch \subseteq 1..epoch'
  BY <1>1 DEF TypesAndSizes, TypeOK
<1>5. \A x \in Held' : x.id \in acked
  BY <1>3 DEF ReportsInv, Lifecycles
<1>6. Lifecycles'
  BY <1>1, <1>3, <1>4, <1>5 DEF ReportsInv, Lifecycles
<1>7. GroupThere'
  BY <1>1 DEF ReportsInv, GroupThere
<1>8. Stored'
  BY <1>1, <1>3, <1>5 DEF ReportsInv, Stored
<1>9. OneLifecycle'
  BY <1>1, <1>2, <1>3, <1>5 DEF ReportsInv, OneLifecycle
<1>10. AckedReportKept'
  BY <1>1 DEF AckedReportKept
<1> QED
  BY <1>6, <1>7, <1>8, <1>9, <1>10 DEF ReportsInv

LEMMA PurgeKeepsReports ==
    ASSUME ReportsInv, DeleteBuffer
    PROVE  ReportsInv'
<1>1. /\ purging /\ ~purging' /\ UNCHANGED <<epoch, deleted, mem, drain, acked, ended, memLost, stale>>
  BY DEF DeleteBuffer, memory, history
<1>2. deleted /\ acked \subseteq ended
  BY <1>1 DEF ReportsInv, Lifecycles
<1>3. Held' = Held
  BY <1>1 DEF Held
<1>4. Lifecycles' /\ GroupThere'
  BY <1>1, <1>3 DEF ReportsInv, Lifecycles, GroupThere
<1>5. \A x \in Held : x.id \in ended
  BY <1>2 DEF ReportsInv, Lifecycles
<1>6. Stored'
  BY <1>1, <1>3, <1>5 DEF ReportsInv, Stored
<1>7. OneLifecycle'
  BY <1>1 DEF ReportsInv, OneLifecycle, IsCurrent
<1>8. AckedReportKept'
  BY <1>1, <1>2 DEF AckedReportKept
<1> QED
  BY <1>4, <1>6, <1>7, <1>8 DEF ReportsInv

LEMMA RestartKeepsReports ==
    ASSUME ReportsInv, Restart
    PROVE  ReportsInv'
<1>1. /\ mem' = <<>> /\ drain' = NoDrain
      /\ memLost' = memLost \cup Ids(mem) \cup Ids(drain.group)
      /\ UNCHANGED <<epoch, deleted, rows, purging, acked, ended, stale>>
  BY DEF Restart
<1>2. drain'.at = "idle" /\ drain'.group = <<>>
  BY <1>1 DEF NoDrain
<1>3. /\ ReportsIn(mem') = {} /\ Ids(mem') = {}
      /\ ReportsIn(drain'.group) = {} /\ Ids(drain'.group) = {}
  BY <1>1, <1>2, EmptyQueue
<1>4. Held' = {}
  BY <1>3 DEF Held
<1>5. Lifecycles' /\ GroupThere' /\ Stored'
  BY <1>1, <1>2, <1>4 DEF ReportsInv, Lifecycles, GroupThere, Stored
<1>6. OneLifecycle'
  BY <1>3 DEF OneLifecycle
<1>7. AckedReportKept'
  BY <1>1 DEF ReportsInv, AckedReportKept
<1> QED
  BY <1>5, <1>6, <1>7 DEF ReportsInv

-----------------------------------------------------------------------------
(* The theorems.                                                             *)

Inv == TypesAndSizes /\ ReportsInv

LEMMA InvInitially ==
    ASSUME Init
    PROVE  Inv
<1>1. /\ epoch = 0 /\ ~deleted /\ ~purging /\ mem = <<>> /\ drain = NoDrain
      /\ acked = {} /\ ended = {} /\ memLost = {} /\ ~stale
  BY DEF Init
<1>2. drain.at = "idle" /\ drain.group = <<>>
  BY <1>1 DEF NoDrain
<1>3. Held = {} /\ ReportsIn(mem) = {} /\ ReportsIn(drain.group) = {}
  BY <1>1, <1>2, EmptyQueue DEF Held
<1>4. Lifecycles /\ GroupThere /\ Stored /\ OneLifecycle /\ AckedReportKept
  BY <1>1, <1>2, <1>3 DEF Lifecycles, GroupThere, Stored, OneLifecycle, AckedReportKept
<1> QED
  BY <1>4, TypedInitially DEF Inv, ReportsInv

LEMMA InvStep ==
    ASSUME Inv, [Next]_vars
    PROVE  Inv'
<1>0. TypesAndSizes /\ ReportsInv /\ GroupThere
  BY DEF Inv, ReportsInv
<1>1. CASE OpenSocket
  BY <1>0, <1>1, OthersTyped, OpenKeepsReports DEF Inv
<1>2. ASSUME NEW e \in sockets, Receive(e) \/ CloseStaleSocket(e)
      PROVE  Inv'
  <2>1. Quiet
    BY <1>2 DEF Quiet
  <2> QED
    BY <1>0, <1>2, <2>1, ReceiveTyped, OthersTyped, QuietKeepsReports, ReportsUnchanged DEF Inv
<1>3. ASSUME NEW h \in handlers, StampState(h) \/ RejectMessage(h) \/ AbandonMessage(h)
      PROVE  Inv'
  <2>1. Quiet
    BY <1>3 DEF Quiet
  <2> QED
    BY <1>0, <1>3, <2>1, HandlerTyped, QuietKeepsReports, ReportsUnchanged DEF Inv
<1>4. ASSUME NEW h \in handlers, AcceptMessage(h)
      PROVE  Inv'
  BY <1>0, <1>4, AcceptTyped, AcceptKeepsReports DEF Inv
<1>5. CASE DrainLoad
  BY <1>0, <1>5, DrainTyped, LoadKeepsReports DEF Inv
<1>6. CASE DrainStaleGroup
  BY <1>0, <1>6, DrainTyped, StaleGroupKeepsReports DEF Inv, DrainStep
<1>7. CASE DrainPersist
  BY <1>0, <1>7, DrainTyped, PersistStep, GroupStepKeepsReports DEF Inv, DrainStep
<1>8. CASE DrainMirror
  BY <1>0, <1>8, DrainTyped, MirrorStep, GroupStepKeepsReports DEF Inv, DrainStep
<1>9. CASE DrainEffects
  BY <1>0, <1>9, DrainTyped, EffectsKeepReports DEF Inv, DrainStep
<1>10. CASE DeleteLatest
  BY <1>0, <1>10, EndsTyped, DeleteKeepsReports DEF Inv
<1>11. CASE DeleteBuffer
  BY <1>0, <1>11, OthersTyped, PurgeKeepsReports DEF Inv
<1>12. CASE Restart
  BY <1>0, <1>12, EndsTyped, RestartKeepsReports DEF Inv
<1>13. CASE Tick \/ ThrottleEnds
  <2>1. Quiet
    BY <1>13 DEF Quiet
  <2> QED
    BY <1>0, <1>13, <2>1, OthersTyped, QuietKeepsReports, ReportsUnchanged DEF Inv
<1>14. CASE UNCHANGED vars
  <2>1. UNCHANGED reports
    BY <1>14 DEF vars, memory, storage, history, reports
  <2>2. TypesAndSizes'
    BY <1>0, <1>14 DEF vars, memory, storage, history, TypesAndSizes, TypeOK, Sized
  <2> QED
    BY <1>0, <2>1, <2>2, ReportsUnchanged DEF Inv
<1> QED
  BY <1>1, <1>2, <1>3, <1>4, <1>5, <1>6, <1>7, <1>8, <1>9, <1>10, <1>11, <1>12, <1>13, <1>14
  DEF Next, DrainStep

LEMMA InvAlways == Spec => []Inv
  BY InvInitially, InvStep, PTL DEF Spec

\* TypeOK holds: memReports never holds more than MAX_MEM_REPORTS reports, also
\* when drainPendingReports queues a group again, and memReportsBytes counts no
\* report twice.
THEOREM TypeCorrect == Spec => []TypeOK
<1>1. Inv => TypeOK
  BY DEF Inv, TypesAndSizes
<1> QED
  BY <1>1, InvAlways, PTL

\* An acknowledged report is in memReports, in the group of the drain or in
\* storage while its lifecycle lasts, unless the memory was lost or full, or
\* reports of a deleted lifecycle were queued again.
THEOREM AckedReportsStay == Spec => []AckedReportKept
<1>1. Inv => AckedReportKept
  BY DEF Inv, ReportsInv
<1> QED
  BY <1>1, InvAlways, PTL

\* Only the acceptance of a message changes what was acknowledged.
LEMMA OnlyAcceptanceAcknowledges ==
    ASSUME [Next]_vars, acked' # acked
    PROVE  \E h \in handlers : AcceptMessage(h)
<1>1. ASSUME OpenSocket \/ DeleteBuffer \/ Tick \/ ThrottleEnds \/ DrainLoad
      PROVE  acked' = acked
  BY <1>1 DEF OpenSocket, DeleteBuffer, Tick, ThrottleEnds, DrainLoad, history
<1>2. ASSUME NEW e \in sockets, Receive(e) \/ CloseStaleSocket(e)
      PROVE  acked' = acked
  BY <1>2 DEF Receive, CloseStaleSocket, history
<1>3. ASSUME NEW h \in handlers, StampState(h) \/ RejectMessage(h) \/ AbandonMessage(h)
      PROVE  acked' = acked
  BY <1>3 DEF StampState, RejectMessage, AbandonMessage, history
<1>4. ASSUME DrainStaleGroup \/ DrainPersist \/ DrainMirror
      PROVE  acked' = acked
  BY <1>4 DEF DrainStaleGroup, DrainPersist, DrainMirror, history
<1>5. ASSUME DrainEffects
      PROVE  acked' = acked
  BY <1>5, Zenon DEF DrainEffects
<1>6. ASSUME DeleteLatest \/ Restart
      PROVE  acked' = acked
  BY <1>6 DEF DeleteLatest, Restart
<1>7. ASSUME UNCHANGED vars
      PROVE  acked' = acked
  BY <1>7 DEF vars, history
<1> QED
  BY <1>1, <1>2, <1>3, <1>4, <1>5, <1>6, <1>7 DEF Next, DrainStep

\* A message that awaited D1 is acknowledged only for the lifecycle that lasts,
\* and the newest report in memReports is then its report, never one that was
\* shed: the second read of the lifecycle is enough.
THEOREM OldSocketsAreSilent == Spec => OldSocketNeverEnqueues
<1>1. ASSUME Inv, [Next]_vars
      PROVE  [acked' # acked => ~deleted /\ Last(mem').epoch = epoch]_vars
  <2>1. ASSUME NEW h \in handlers, AcceptMessage(h)
        PROVE  ~deleted /\ Last(mem').epoch = epoch
    <3>1. PICK x : Joined(h, x)
      BY <1>1, <2>1, AcceptedReport DEF Inv
    <3>2. ~deleted /\ epoch = h.epoch
      BY <2>1 DEF AcceptMessage, IsCurrent
    <3> QED
      BY <3>1, <3>2 DEF Joined
  <2> QED
    BY <1>1, <2>1, OnlyAcceptanceAcknowledges
<1> QED
  BY <1>1, InvAlways, PTL DEF Spec, OldSocketNeverEnqueues

-----------------------------------------------------------------------------
(* A deletion while the latest state is not mirrored to D1.                  *)

\* Which report has the newest state depends on the states alone.
LEMMA SameNewest ==
    ASSUME NEW q \in Seq(ReportType), NEW p \in Seq(ReportType), Len(p) = Len(q),
           \A i \in 1..Len(q) : p[i].upd = q[i].upd
    PROVE  Stated(p) = Stated(q) /\ NewestIdx(p) = NewestIdx(q)
<1>1. Stated(p) = Stated(q)
  BY DEF Stated
<1>2. \A i \in Stated(q) : p[i].upd = q[i].upd
  BY DEF Stated
<1> DEFINE Newest(r, i) == /\ \A j \in Stated(r) : r[j].upd <= r[i].upd
                           /\ \A j \in Stated(r) : r[j].upd = r[i].upd => i <= j
<1>3. \A i \in Stated(q) : Newest(p, i) <=> Newest(q, i)
  BY <1>1, <1>2
<1>4. NewestIdx(p) = CHOOSE i \in Stated(q) : Newest(p, i)
  BY <1>1, Zenon DEF NewestIdx
<1>5. NewestIdx(q) = CHOOSE i \in Stated(q) : Newest(q, i)
  BY Zenon DEF NewestIdx
<1> HIDE DEF Newest
<1>6. (CHOOSE i \in Stated(q) : Newest(p, i)) = (CHOOSE i \in Stated(q) : Newest(q, i))
  BY <1>3, Zenon
<1> QED
  BY <1>1, <1>4, <1>5, <1>6

\* A marked and appended group has no newest state left to persist.
LEMMA NothingToPersist ==
    ASSUME NEW q \in Seq(ReportType)
    PROVE  ~MustPersist(Appended(Marked(q)))
<1>1. PICK m : m = Marked(q)
  OBVIOUS
<1>2. PICK a : a = Appended(m)
  OBVIOUS
<1>3. /\ m \in Seq(ReportType) /\ Len(m) = Len(q)
      /\ a \in Seq(ReportType) /\ Len(a) = Len(q)
  BY <1>1, <1>2, MarkedGroup, AppendedGroup
<1>4. \A i \in 1..Len(q) : a[i] = [m[i] EXCEPT !.appended = TRUE]
  BY <1>2, <1>3 DEF Appended
<1>5. ASSUME NEW i \in 1..Len(q)
      PROVE  a[i].upd = m[i].upd /\ a[i].persisted = m[i].persisted
  <2>1. m[i] \in ReportType
    BY <1>3
  <2> QED
    BY <1>4, <2>1 DEF ReportType
<1>6. CASE Stated(q) = {}
  <2>1. m = q
    BY <1>1, <1>6 DEF Marked
  <2>2. \A i \in 1..Len(q) : a[i].upd = q[i].upd
    BY <1>5, <2>1
  <2>3. Stated(a) = {}
    BY <1>3, <1>6, <2>2, SameNewest
  <2> QED
    BY <1>1, <1>2, <2>3 DEF MustPersist
<1>7. CASE Stated(q) # {}
  <2>1. PICK n \in 1..Len(q) : n = NewestIdx(q)
    BY <1>7, NewestIsStated DEF Stated
  <2>2. m = [q EXCEPT ![n].persisted = TRUE]
    BY <1>1, <1>7, <2>1 DEF Marked
  <2>3. q[n] \in ReportType
    OBVIOUS
  <2>4. PICK y : y = [q[n] EXCEPT !.persisted = TRUE]
    OBVIOUS
  <2>5. y.upd = q[n].upd /\ y.persisted
    BY <2>3, <2>4 DEF ReportType
  <2>6. m = [q EXCEPT ![n] = y]
    BY <2>2, <2>4
  <2>7. m[n] = y /\ \A i \in 1..Len(q) : i # n => m[i] = q[i]
    BY <2>6
  <2>8. \A i \in 1..Len(q) : a[i].upd = q[i].upd
    BY <1>5, <2>5, <2>7
  <2>9. NewestIdx(a) = n
    BY <1>3, <2>1, <2>8, SameNewest
  <2>10. a[n].persisted
    BY <1>5, <2>5, <2>7
  <2> QED
    BY <1>1, <1>2, <2>9, <2>10 DEF MustPersist
<1> QED
  BY <1>6, <1>7

NeverMirrored ==
    /\ drain.at # "mirror"
    /\ drain.at = "effects" => ~MustPersist(drain.group)
    /\ deleted => stLatest = 0 /\ (purging \/ rows = {})

\* The steps that neither drain nor open a lifecycle.
LEMMA NotDraining ==
    ASSUME NeverMirrored, [Next]_vars, ~DrainPersist, ~DrainMirror, ~DrainEffects
    PROVE  NeverMirrored'
<1>1. ASSUME OpenSocket
      PROVE  NeverMirrored'
  <2>1. ~deleted' /\ drain' = drain
    BY <1>1 DEF OpenSocket, memory
  <2> QED
    BY <2>1 DEF NeverMirrored, MustPersist
<1>2. ASSUME NEW e \in sockets, Receive(e) \/ CloseStaleSocket(e)
      PROVE  NeverMirrored'
  <2>1. UNCHANGED <<deleted, purging, rows, stLatest, drain>>
    BY <1>2 DEF Receive, CloseStaleSocket, storage, memory
  <2> QED
    BY <2>1, Zenon DEF NeverMirrored
<1>3. ASSUME NEW h \in handlers, StampState(h) \/ RejectMessage(h) \/ AbandonMessage(h)
      PROVE  NeverMirrored'
  <2>1. UNCHANGED <<deleted, purging, rows, stLatest, drain>>
    BY <1>3 DEF StampState, RejectMessage, AbandonMessage, storage
  <2> QED
    BY <2>1, Zenon DEF NeverMirrored
<1>4. ASSUME NEW h \in handlers, AcceptMessage(h)
      PROVE  NeverMirrored'
  BY <1>4 DEF AcceptMessage, NeverMirrored
<1>5. ASSUME DrainLoad
      PROVE  NeverMirrored'
  <2>1. UNCHANGED <<deleted, purging, rows, stLatest>>
    BY <1>5 DEF DrainLoad
  <2>2. drain'.at \in {"idle", "check"}
    BY <1>5 DEF DrainLoad, NoDrain
  <2> QED
    BY <2>1, <2>2 DEF NeverMirrored
<1>6. ASSUME DrainStaleGroup
      PROVE  NeverMirrored'
  BY <1>6 DEF DrainStaleGroup, NoDrain, NeverMirrored, storage
<1>7. ASSUME DeleteLatest \/ DeleteBuffer
      PROVE  NeverMirrored'
  BY <1>7 DEF DeleteLatest, DeleteBuffer, NeverMirrored, memory
<1>8. ASSUME Tick \/ ThrottleEnds
      PROVE  NeverMirrored'
  BY <1>8 DEF Tick, ThrottleEnds, NeverMirrored, memory, storage
<1>9. ASSUME Restart
      PROVE  NeverMirrored'
  BY <1>9 DEF Restart, NoDrain, NeverMirrored
<1>10. ASSUME UNCHANGED vars
       PROVE  NeverMirrored'
  BY <1>10 DEF vars, memory, storage, NeverMirrored
<1> QED
  BY <1>1, <1>2, <1>3, <1>4, <1>5, <1>6, <1>7, <1>8, <1>9, <1>10 DEF Next, DrainStep

LEMMA PersistsWithoutMirror ==
    ASSUME MirrorToD1 = FALSE, Inv, NeverMirrored, DrainPersist
    PROVE  NeverMirrored'
<1>1. PICK q \in Seq(ReportType) : q = drain.group
  BY DEF Inv, TypesAndSizes, TypeOK
<1>2. /\ drain' = [drain EXCEPT !.at = "effects", !.group = Appended(Marked(q))]
      /\ ~deleted /\ UNCHANGED <<deleted, purging>>
  BY <1>1, Zenon DEF DrainPersist, IsCurrent
<1>3. drain \in [at : {"idle", "check", "mirror", "effects"}, group : Seq(ReportType), failed : BOOLEAN]
  BY DEF Inv, TypesAndSizes, TypeOK
<1>4. drain'.at = "effects" /\ drain'.group = Appended(Marked(q))
  BY <1>2, <1>3
<1> QED
  BY <1>2, <1>4, NothingToPersist DEF NeverMirrored

LEMMA EffectsWithoutMirror ==
    ASSUME Inv, NeverMirrored, DrainEffects
    PROVE  NeverMirrored'
<1>1. PICK fails \in [1..Len(drain.group) -> {~ok : ok \in D1Outcomes}] :
          LET q == [i \in 1..Len(drain.group) |->
                       [drain.group[i] EXCEPT !.traffic = @ \/ ~fails[i]]]
          IN  /\ drain.at = "effects" /\ PersistLatest(q) /\ drain' = NoDrain
              /\ UNCHANGED <<deleted, rows, purging>>
  BY Zenon DEF DrainEffects
<1>2. PICK q : q = [i \in 1..Len(drain.group) |->
                       [drain.group[i] EXCEPT !.traffic = @ \/ ~fails[i]]]
  OBVIOUS
<1>3. /\ drain.at = "effects" /\ PersistLatest(q) /\ drain' = NoDrain
      /\ UNCHANGED <<deleted, rows, purging>>
  BY <1>1, <1>2, Zenon
<1>4. PICK g \in Seq(ReportType) : g = drain.group
  BY DEF Inv, TypesAndSizes, TypeOK
<1>5. ASSUME NEW i \in 1..Len(g)
      PROVE  \E b \in BOOLEAN : q[i] = [g[i] EXCEPT !.traffic = b]
  <2>1. PICK b \in BOOLEAN : b = (g[i].traffic \/ ~fails[i])
    BY Zenon
  <2>2. q[i] = [g[i] EXCEPT !.traffic = b]
    BY <1>2, <1>4, <2>1, Zenon
  <2> QED
    BY <2>2
<1>6. q = [i \in 1..Len(g) |-> q[i]]
  BY <1>2, <1>4, Zenon
<1>7. q \in Seq(ReportType) /\ Len(q) = Len(g)
  BY <1>5, <1>6, TrafficGroup, Zenon
<1>8. ASSUME NEW i \in 1..Len(g)
      PROVE  q[i].upd = g[i].upd /\ q[i].persisted = g[i].persisted
  <2>1. PICK b \in BOOLEAN : q[i] = [g[i] EXCEPT !.traffic = b]
    BY <1>5
  <2>2. g[i] \in ReportType
    BY <1>4
  <2> QED
    BY <2>1, <2>2 DEF ReportType
<1>9. Stated(q) = Stated(g) /\ NewestIdx(q) = NewestIdx(g)
  BY <1>4, <1>7, <1>8, SameNewest
<1>10. ~MustPersist(q)
  <2>1. ~MustPersist(g)
    BY <1>3, <1>4 DEF NeverMirrored
  <2>2. CASE Stated(g) = {}
    BY <1>9, <2>2 DEF MustPersist
  <2>3. CASE Stated(g) # {}
    <3>1. NewestIdx(g) \in 1..Len(g) /\ g[NewestIdx(g)].persisted
      BY <1>4, <2>1, <2>3, NewestIsStated DEF MustPersist, Stated
    <3>2. q[NewestIdx(q)].persisted
      BY <1>8, <1>9, <3>1
    <3> QED
      BY <3>2 DEF MustPersist
  <2> QED
    BY <2>2, <2>3
<1>11. stLatest' = stLatest
  BY <1>3, <1>10 DEF PersistLatest
<1>12. drain'.at = "idle"
  BY <1>3 DEF NoDrain
<1> QED
  BY <1>3, <1>11, <1>12 DEF NeverMirrored

\* Where the latest state is not mirrored to D1 (bufferedAgentStateEnabled) no
\* await lies between the lifecycle that drainPendingReports reads and the
\* append, and deleting the agent leaves no row and no latest state of it,
\* whatever was being received or drained: the mirror's await alone is what
\* makes the difference.
THEOREM DeletionLeavesNothing ==
    ASSUME MirrorToD1 = FALSE
    PROVE  Spec => []DeletedLeavesNothing
<1>1. Init => NeverMirrored
  BY DEF Init, NoDrain, NeverMirrored
<1>2. ASSUME Inv, NeverMirrored, [Next]_vars
      PROVE  NeverMirrored'
  <2>1. ~DrainMirror
    BY <1>2 DEF DrainMirror, NeverMirrored
  <2>2. CASE DrainPersist
    BY <1>2, <2>2, PersistsWithoutMirror
  <2>3. CASE DrainEffects
    BY <1>2, <2>3, EffectsWithoutMirror
  <2>4. CASE ~DrainPersist /\ ~DrainEffects
    BY <1>2, <2>1, <2>4, NotDraining
  <2> QED
    BY <2>2, <2>3, <2>4
<1>3. NeverMirrored => DeletedLeavesNothing
  BY DEF NeverMirrored, DeletedLeavesNothing
<1> QED
  BY <1>1, <1>2, <1>3, InvAlways, PTL DEF Spec

=============================================================================
