----------------------- MODULE TelemetryFlush_proofs -----------------------
(***************************************************************************)
(* Proofs about TelemetryFlush, for any points, chunks, hours, handlers,   *)
(* attempt limit and number of restarts: type correctness, the two         *)
(* invariants NothingLostUnlessRaced and ExportNotForgotten, and that the  *)
(* buffer with its archive implements TelemetryStore.                      *)
(***************************************************************************)
EXTENDS TelemetryFlush, WellFoundedInduction, TLAPS

ChunkPoints(c) == {x \in Points : ChunkOf[x] = c}
\* Which fields a process uses at which place of flushCompletedHours.
InGroups(f) == f.at \in {"get", "put", "head", "readback"}
PhaseOK(f) ==
    /\ InGroups(f) => f.todo # {}
    /\ ~InGroups(f) => f.todo = {}
    /\ f.at \in {"export", "send"} => DOMAIN f.listed # {}

\* Rows, objects and what processes read of them hold stored points only, each
\* in its own place.
RowsOK     == \A c \in Chunks : buffer[c] \subseteq ChunkPoints(c) \cap stored
ObjectsOK  == \A h \in Hours : archive[h] \subseteq PointsOf(h) \cap stored
ReadOK(f)  ==
    /\ \A c \in Chunks : f.rows[c] \subseteq ChunkPoints(c) \cap stored
    /\ f.at = "put" => f.object \subseteq PointsOf(Least(f.todo)) \cap stored

\* What the rows of an hour tell a process that has still to flush it, if no
\* other step changed them under a flush.
SeesRows(f) ==
    \A c \in Chunks :
        HourOf[c] \in f.todo \ raced /\ f.rows[c] # {} => buffer[c] \subseteq f.rows[c]
SameRows(f, g) == \A h \in (f.todo \cap g.todo) \ raced : RowsOf(f, h) = RowsOf(g, h)

\* The object about to be written is R2's merged with the rows; once written it
\* holds the rows.
ObjectOf(f) ==
    /\ f.at = "put" /\ Least(f.todo) \notin raced =>
           f.object = archive[Least(f.todo)] \cup Snapshot(f, Least(f.todo))
    /\ f.at \in {"head", "readback"} /\ Least(f.todo) \notin raced =>
           Snapshot(f, Least(f.todo)) \subseteq archive[Least(f.todo)]

\* A point of the object of an hour that is being exported is sent, is being
\* sent, or is still buffered.
SendingOK(f) ==
    f.at = "send" /\ Least(DOMAIN f.listed) \notin raced \cup exportRaced =>
        \A x \in archive[Least(DOMAIN f.listed)] :
            x \in exported \cup buffer[ChunkOf[x]] \cup f.sending

ProcOK(f) == PhaseOK(f) /\ ReadOK(f) /\ SeesRows(f) /\ ObjectOf(f) /\ SendingOK(f)

Inv ==
    /\ TypeOK
    /\ RowsOK
    /\ ObjectsOK
    /\ \A p \in Procs : ProcOK(flusher[p])
    /\ \A p, q \in Procs : SameRows(flusher[p], flusher[q])
    /\ NothingLostUnlessRaced
    /\ ExportNotForgotten

-----------------------------------------------------------------------------
(* Helpers.                                                                *)

Before == {ss \in Nat \X Nat : ss[1] < ss[2]}

LEMMA BeforeWellFounded == IsWellFoundedOn(Before, Nat)
  BY NatLessThanWellFounded DEF OpToRel, Before

\* The oldest hour of a nonempty set of hours is one of them.
LEMMA LeastIn == ASSUME NEW S \in SUBSET Hours, S # {} PROVE Least(S) \in S
<1>0. S \subseteq Nat
  BY PointsAssumption
<1>1. PICK x \in S : \A y \in S : ~ (<<y, x>> \in Before)
  BY <1>0, BeforeWellFounded, WFMin, Zenon
<1>2. \A a, b \in Nat : a < b => <<a, b>> \in Before
  BY Zenon DEF Before
<1>3. \A y \in S : ~ (y < x)
  BY <1>0, <1>1, <1>2
<1>4. \A y \in S : x <= y
  BY <1>0, <1>3
<1> QED BY <1>4 DEF Least

\* Every point and every chunk has its hour.
LEMMA PlacesTyped == /\ \A c \in Chunks : HourOf[c] \in Hours
                     /\ \A x \in Points : ChunkOf[x] \in Chunks
                     /\ \A x \in Points : PHour(x) \in Hours
  BY PointsAssumption DEF PHour

LEMMA EntriesEmpty == NoEntries \in Entries
<1>1. NoEntries \in [{} -> 0..(MaxAttempts - 1)]
  BY DEF NoEntries
<1> QED BY <1>1 DEF Entries

LEMMA EntriesAre ==
  ASSUME NEW H \in SUBSET Hours, NEW e \in [H -> 0..(MaxAttempts - 1)]
  PROVE  e \in Entries
  BY DEF Entries

LEMMA EntriesMap ==
  ASSUME NEW e \in Entries
  PROVE  /\ DOMAIN e \in SUBSET Hours
         /\ \A h \in DOMAIN e : e[h] \in 0..(MaxAttempts - 1)
  BY DEF Entries

\* Dropping, adding, changing and selecting export entries.
LEMMA EntriesDrop ==
  ASSUME NEW e \in Entries, NEW h
  PROVE  Drop(e, h) \in Entries /\ DOMAIN Drop(e, h) = DOMAIN e \ {h}
<1>1. Drop(e, h) \in [DOMAIN e \ {h} -> 0..(MaxAttempts - 1)]
  BY EntriesMap DEF Drop
<1>2. DOMAIN e \ {h} \in SUBSET Hours
  BY EntriesMap
<1> QED BY <1>1, <1>2, EntriesAre DEF Drop

LEMMA EntriesPut ==
  ASSUME NEW e \in Entries, NEW h \in Hours, NEW n \in 0..(MaxAttempts - 1)
  PROVE  PutEntry(e, h, n) \in Entries /\ DOMAIN PutEntry(e, h, n) = DOMAIN e \cup {h}
<1>1. PutEntry(e, h, n) \in [DOMAIN e \cup {h} -> 0..(MaxAttempts - 1)]
  BY EntriesMap DEF PutEntry
<1>2. DOMAIN e \cup {h} \in SUBSET Hours
  BY EntriesMap
<1> QED BY <1>1, <1>2, EntriesAre DEF PutEntry

LEMMA EntriesSome ==
  ASSUME NEW e \in Entries, NEW due \in SUBSET DOMAIN e
  PROVE  [h \in due |-> e[h]] \in Entries
<1>1. [h \in due |-> e[h]] \in [due -> 0..(MaxAttempts - 1)]
  BY EntriesMap
<1>2. due \in SUBSET Hours
  BY EntriesMap
<1> QED BY <1>1, <1>2, EntriesAre

LEMMA EntriesQueue ==
  ASSUME exports \in Entries, NEW h \in Hours
  PROVE  /\ QueueExport(h) \in Entries
         /\ DOMAIN exports \subseteq DOMAIN QueueExport(h)
         /\ ExportEnabled => h \in DOMAIN QueueExport(h)
<1>1. CASE ExportEnabled /\ h \notin DOMAIN exports
  <2>1. QueueExport(h) = PutEntry(exports, h, 0)
    BY <1>1 DEF QueueExport, PutEntry
  <2>2. 0 \in 0..(MaxAttempts - 1)
    BY ExportAssumption
  <2>3. /\ PutEntry(exports, h, 0) \in Entries
        /\ DOMAIN PutEntry(exports, h, 0) = DOMAIN exports \cup {h}
    BY <2>2, EntriesPut
  <2> QED BY <2>1, <2>3
<1>2. CASE ~(ExportEnabled /\ h \notin DOMAIN exports)
  BY <1>2 DEF QueueExport
<1> QED BY <1>1, <1>2

LEMMA IdleTyped == Idle \in FlusherType /\ Idle.todo = {} /\ Idle.at = "idle"
                   /\ Idle.rows = [c \in Chunks |-> {}]
  BY EntriesEmpty DEF Idle, FlusherType

-----------------------------------------------------------------------------
(* Where the continuations leave a process.                                *)

\* g is f at its next group, at its exports, or idle.
GoesOn(g, f) ==
    /\ g \in FlusherType /\ PhaseOK(g)
    /\ g.at \in {"get", "export", "idle"}
    /\ g.todo = f.todo
    /\ g.todo # {} => g.rows = f.rows
    /\ \A c \in Chunks : g.rows[c] \subseteq f.rows[c]

MovesOn(p, f) == \E g : flusher' = [flusher EXCEPT ![p] = g] /\ GoesOn(g, f)

LEMMA FinishMoves ==
  ASSUME NEW p \in Procs, NEW f \in FlusherType, f.todo = {}, NEW b, NEW a \in BOOLEAN,
         Finish(p, f, b, a)
  PROVE  MovesOn(p, f) /\ alarm' \in BOOLEAN
<1>1. GoesOn(Idle, f)
  BY IdleTyped DEF GoesOn, PhaseOK, InGroups
<1>2. flusher' = [flusher EXCEPT ![p] = Idle]
  BY DEF Finish
<1>3. alarm' = (a \/ NeedsAlarm(f, b))
  BY DEF Finish
<1>4. alarm' \in BOOLEAN
  BY <1>3, Zenon
<1> QED BY <1>1, <1>2, <1>4 DEF MovesOn

LEMMA ListExportsMoves ==
  ASSUME NEW p \in Procs, NEW f \in FlusherType, f.todo = {}, NEW b, NEW e \in Entries,
         NEW a \in BOOLEAN, ListExports(p, f, b, e, a)
  PROVE  MovesOn(p, f) /\ alarm' \in BOOLEAN
<1>1. PICK due \in SUBSET DOMAIN e :
         LET g == [f EXCEPT !.retry = f.retry \/ due # DOMAIN e, !.rows = Idle.rows]
         IN  IF due # {}
             THEN /\ flusher' = [flusher EXCEPT ![p] =
                         [g EXCEPT !.at = "export", !.listed = [h \in due |-> e[h]]]]
                  /\ alarm' = a
             ELSE Finish(p, g, b, a)
  BY DEF ListExports
<1> DEFINE r == f.retry \/ due # DOMAIN e
           g == [f EXCEPT !.retry = r, !.rows = Idle.rows]
           k == [g EXCEPT !.at = "export", !.listed = [h \in due |-> e[h]]]
<1>2. r \in BOOLEAN
  BY Zenon
<1> HIDE DEF r
<1>3. g \in FlusherType /\ g.todo = {} /\ g.rows = [c \in Chunks |-> {}]
  BY <1>2, IdleTyped DEF FlusherType
<1>4. CASE due # {}
  <2>1. [h \in due |-> e[h]] \in Entries
    BY EntriesSome
  <2> HIDE DEF g
  <2>2. /\ k \in FlusherType /\ k.at = "export" /\ k.todo = {}
        /\ k.rows = [c \in Chunks |-> {}] /\ DOMAIN k.listed = due
    BY <1>3, <2>1 DEF FlusherType
  <2> HIDE DEF k
  <2>3. GoesOn(k, f)
    BY <1>4, <2>2 DEF GoesOn, PhaseOK, InGroups
  <2>4. flusher' = [flusher EXCEPT ![p] = k] /\ alarm' = a
    BY <1>1, <1>4, Zenon DEF k, g, r
  <2> QED BY <2>3, <2>4 DEF MovesOn
<1>5. CASE due = {}
  <2>1. Finish(p, g, b, a)
    BY <1>1, <1>5, Zenon DEF g, r
  <2> HIDE DEF g
  <2>2. MovesOn(p, g) /\ alarm' \in BOOLEAN
    BY <1>3, <2>1, FinishMoves
  <2>3. \A k1 : GoesOn(k1, g) => GoesOn(k1, f)
    BY <1>3 DEF GoesOn
  <2> QED BY <2>2, <2>3 DEF MovesOn
<1> QED BY <1>4, <1>5

LEMMA NextGroupMoves ==
  ASSUME NEW p \in Procs, NEW f \in FlusherType, NEW b, NEW e \in Entries,
         NEW a \in BOOLEAN, NextGroup(p, f, b, e, a)
  PROVE  MovesOn(p, f) /\ alarm' \in BOOLEAN
<1>1. CASE f.todo # {}
  <2> DEFINE g == [f EXCEPT !.at = "get"]
  <2>1. g \in FlusherType /\ g.at = "get" /\ g.todo = f.todo /\ g.rows = f.rows
    BY DEF FlusherType
  <2>2. flusher' = [flusher EXCEPT ![p] = g] /\ alarm' = a
    BY <1>1 DEF NextGroup
  <2> HIDE DEF g
  <2>3. GoesOn(g, f)
    BY <1>1, <2>1 DEF GoesOn, PhaseOK, InGroups
  <2> QED BY <2>2, <2>3 DEF MovesOn
<1>2. CASE f.todo = {}
  BY <1>2, ListExportsMoves DEF NextGroup
<1> QED BY <1>1, <1>2

LEMMA NextExportMoves ==
  ASSUME NEW p \in Procs, NEW f \in FlusherType, f.todo = {}, DOMAIN f.listed # {},
         NEW e \in Entries, alarm \in BOOLEAN, NextExport(p, f, e)
  PROVE  MovesOn(p, f) /\ alarm' \in BOOLEAN
<1> DEFINE d == Drop(f.listed, Least(DOMAIN f.listed))
           g == [f EXCEPT !.at = "export", !.listed = d, !.sending = {}]
<1>1. d \in Entries
  BY EntriesDrop DEF FlusherType
<1> HIDE DEF d
<1>2. /\ g \in FlusherType /\ g.at = "export" /\ g.todo = {} /\ g.rows = f.rows
      /\ g.listed = d
  BY <1>1 DEF FlusherType
<1>3. IF DOMAIN g.listed # {}
      THEN flusher' = [flusher EXCEPT ![p] = g] /\ alarm' = alarm
      ELSE Finish(p, g, buffer, alarm)
  BY Zenon DEF NextExport, d
<1> HIDE DEF g
<1>4. CASE DOMAIN g.listed # {}
  <2>1. GoesOn(g, f)
    BY <1>2, <1>4 DEF GoesOn, PhaseOK, InGroups
  <2> QED BY <1>3, <1>4, <2>1 DEF MovesOn
<1>5. CASE DOMAIN g.listed = {}
  <2>1. MovesOn(p, g) /\ alarm' \in BOOLEAN
    BY <1>2, <1>3, <1>5, FinishMoves
  <2>2. \A k : GoesOn(k, g) => GoesOn(k, f)
    BY <1>2 DEF GoesOn
  <2> QED BY <2>1, <2>2 DEF MovesOn
<1> QED BY <1>4, <1>5

-----------------------------------------------------------------------------
(* What a step has to show of each process.                                *)

LEMMA SnapshotPoints ==
  ASSUME NEW f \in FlusherType, ReadOK(f), NEW h \in Hours, NEW x \in Snapshot(f, h)
  PROVE  /\ x \in Points /\ x \in stored /\ PHour(x) = h
         /\ ChunkOf[x] \in ChunksOf(h) /\ x \in f.rows[ChunkOf[x]]
<1>1. PICK c \in ChunksOf(h) : x \in f.rows[c]
  BY DEF Snapshot
<1>2. c \in Chunks /\ HourOf[c] = h
  BY DEF ChunksOf
<1>3. x \in ChunkPoints(c) /\ x \in stored
  BY <1>1, <1>2 DEF ReadOK
<1> QED BY <1>1, <1>2, <1>3 DEF ChunkPoints, PHour

LEMMA SnapshotSame ==
  ASSUME NEW f, NEW g, NEW h \in Hours, RowsOf(f, h) = RowsOf(g, h)
  PROVE  Snapshot(f, h) = Snapshot(g, h)
<1>1. \A c \in ChunksOf(h) : f.rows[c] = g.rows[c]
  BY Zenon DEF RowsOf
<1> QED BY <1>1 DEF Snapshot

\* A process that stands still while the store changes under it.
LEMMA KeepProc ==
  ASSUME NEW f \in FlusherType, ProcOK(f),
         raced \subseteq raced', exportRaced \subseteq exportRaced', stored \subseteq stored',
         SeesRows(f)', SendingOK(f)',
         ASSUME f.at \in {"put", "head", "readback"}, Least(f.todo) \notin raced'
         PROVE  /\ archive[Least(f.todo)] \subseteq archive'[Least(f.todo)]
                /\ archive'[Least(f.todo)] \subseteq
                       archive[Least(f.todo)] \cup Snapshot(f, Least(f.todo))
  PROVE  ProcOK(f)'
<1>1. PhaseOK(f)'
  BY DEF ProcOK, PhaseOK, InGroups
<1>2. ReadOK(f)'
  BY DEF ProcOK, ReadOK
<1>3. ObjectOf(f)'
  <2>1. CASE f.at = "put" /\ Least(f.todo) \notin raced'
    BY <2>1 DEF ProcOK, ObjectOf
  <2>2. CASE f.at \in {"head", "readback"} /\ Least(f.todo) \notin raced'
    BY <2>2 DEF ProcOK, ObjectOf
  <2> QED BY <2>1, <2>2 DEF ObjectOf
<1> QED BY <1>1, <1>2, <1>3 DEF ProcOK

\* A process that goes on from f, whose rows were read before.
LEMMA MovedProc ==
  ASSUME NEW f \in FlusherType, NEW g, GoesOn(g, f), SeesRows(f)',
         \A c \in Chunks : f.rows[c] \subseteq ChunkPoints(c) \cap stored'
  PROVE  ProcOK(g)'
<1>1. PhaseOK(g)'
  BY DEF GoesOn, PhaseOK, InGroups
<1>2. ReadOK(g)'
  BY DEF GoesOn, ReadOK
<1>3. SeesRows(g)'
  BY DEF GoesOn, SeesRows
<1>4. ObjectOf(g)' /\ SendingOK(g)'
  BY DEF GoesOn, ObjectOf, SendingOK
<1> QED BY <1>1, <1>2, <1>3, <1>4 DEF ProcOK

LEMMA SameRowsSym == ASSUME NEW f, NEW g, SameRows(f, g)' PROVE SameRows(g, f)'
  BY DEF SameRows

LEMMA MovedSame ==
  ASSUME NEW f, NEW g, NEW k, GoesOn(g, f), SameRows(f, k)'
  PROVE  SameRows(g, k)' /\ SameRows(k, g)'
<1>1. CASE g.todo = {}
  BY <1>1 DEF SameRows
<1>2. CASE g.todo # {}
  <2>1. g.rows = f.rows /\ g.todo = f.todo
    BY <1>2 DEF GoesOn
  <2>2. \A h : RowsOf(g, h) = RowsOf(f, h)
    BY <2>1 DEF RowsOf
  <2> QED BY <2>1, <2>2 DEF SameRows
<1> QED BY <1>1, <1>2

\* The processes after a step of p.
LEMMA Together ==
  ASSUME flusher \in [Procs -> FlusherType], NEW p \in Procs, NEW g \in FlusherType,
         flusher' = [flusher EXCEPT ![p] = g], raced \subseteq raced', ProcOK(g)',
         \A q, r \in Procs : SameRows(flusher[q], flusher[r]),
         ASSUME NEW q \in Procs \ {p}, NEW k \in FlusherType, k = flusher[q]
         PROVE  ProcOK(k)' /\ SameRows(g, k)'
  PROVE  /\ flusher' \in [Procs -> FlusherType]
         /\ (\A q \in Procs : ProcOK(flusher[q]))'
         /\ (\A q, r \in Procs : SameRows(flusher[q], flusher[r]))'
<1>1. flusher' \in [Procs -> FlusherType]
  OBVIOUS
<1>2. flusher'[p] = g /\ \A q \in Procs \ {p} : flusher'[q] = flusher[q]
  OBVIOUS
<1>3. ASSUME NEW q \in Procs PROVE ProcOK(flusher[q])'
  <2>1. CASE q = p
    BY <1>2, <2>1 DEF ProcOK, PhaseOK, InGroups, ReadOK, SeesRows, ObjectOf, SendingOK
  <2>2. CASE q # p
    <3> DEFINE k == flusher[q]
    <3>1. k \in FlusherType
      OBVIOUS
    <3>2. flusher'[q] = k
      BY <1>2, <2>2
    <3> QED BY <2>2, <3>1, <3>2
  <2> QED BY <2>1, <2>2
<1>4. ASSUME NEW q \in Procs, NEW r \in Procs PROVE SameRows(flusher[q], flusher[r])'
  <2>1. CASE q = p /\ r = p
    BY <1>2, <2>1 DEF SameRows
  <2>2. CASE q = p /\ r # p
    <3>1. SameRows(g, flusher[r])'
      <4> DEFINE k == flusher[r]
      <4>1. k \in FlusherType /\ flusher'[r] = k
        BY <1>2, <2>2
      <4>2. SameRows(g, k)'
        BY <2>2, <4>1
      <4> QED BY <4>1, <4>2
    <3> QED BY <1>2, <2>2, <3>1 DEF SameRows
  <2>3. CASE q # p /\ r = p
    <3>1. SameRows(g, flusher[q])'
      <4> DEFINE k == flusher[q]
      <4>1. k \in FlusherType /\ flusher'[q] = k
        BY <1>2, <2>3
      <4>2. SameRows(g, k)'
        BY <2>3, <4>1
      <4> QED BY <4>1, <4>2
    <3> QED BY <1>2, <2>3, <3>1 DEF SameRows
  <2>4. CASE q # p /\ r # p
    BY <1>2, <2>4 DEF SameRows
  <2> QED BY <2>1, <2>2, <2>3, <2>4
<1> QED BY <1>1, <1>3, <1>4

-----------------------------------------------------------------------------
(* Appending a batch.                                                      *)

Appends(batch) ==
    /\ buffer' = AppendLocal(buffer, batch)
    /\ stored' = stored \cup batch
    /\ Overlaps(batch) \cup raced \subseteq raced'
    /\ UNCHANGED <<archive, exports, exported, exportRaced>>

LEMMA AppendStore ==
  ASSUME Inv, NEW batch \in SUBSET Points, Appends(batch)
  PROVE  /\ buffer' \in [Chunks -> SUBSET Points] /\ stored' \subseteq Points
         /\ \A c \in Chunks : buffer[c] \subseteq buffer'[c]
         /\ RowsOK' /\ ObjectsOK' /\ NothingLostUnlessRaced' /\ ExportNotForgotten'
<1>1. /\ buffer \in [Chunks -> SUBSET Points] /\ stored \subseteq Points
      /\ RowsOK /\ ObjectsOK
  BY DEF Inv, TypeOK
<1>2. /\ buffer' \in [Chunks -> SUBSET Points] /\ stored' \subseteq Points
      /\ \A c \in Chunks : buffer'[c] = buffer[c] \cup {x \in batch : ChunkOf[x] = c}
  BY <1>1 DEF Appends, AppendLocal
<1>3. RowsOK'
  BY <1>1, <1>2 DEF RowsOK, ChunkPoints, Appends
<1>4. ObjectsOK'
  BY <1>1 DEF ObjectsOK, Appends
<1>5. NothingLostUnlessRaced'
  <2> SUFFICES ASSUME NEW x \in stored', PHour(x) \notin raced' PROVE Kept(x)'
    BY DEF NothingLostUnlessRaced
  <2>1. x \in Points /\ ChunkOf[x] \in Chunks
    BY <1>2, PlacesTyped
  <2>2. CASE x \in batch
    BY <1>2, <2>1, <2>2 DEF Kept
  <2>3. CASE x \in stored
    <3>1. Kept(x)
      BY <2>3 DEF Inv, NothingLostUnlessRaced, Appends
    <3> QED BY <1>2, <2>1, <3>1 DEF Kept, Appends
  <2> QED BY <2>2, <2>3 DEF Appends
<1>6. ExportNotForgotten'
  <2> SUFFICES ASSUME ExportEnabled, NEW h \in Hours, h \notin raced' \cup exportRaced',
                      NEW x \in archive'[h]
               PROVE  x \in exported' \cup buffer'[ChunkOf[x]] \/ h \in DOMAIN exports'
    BY DEF ExportNotForgotten
  <2>1. x \in Points /\ ChunkOf[x] \in Chunks
    BY <1>1, PlacesTyped DEF ObjectsOK, Appends, PointsOf
  <2>2. x \in exported \cup buffer[ChunkOf[x]] \/ h \in DOMAIN exports
    BY DEF Inv, ExportNotForgotten, Appends
  <2> QED BY <1>2, <2>1, <2>2 DEF Appends
<1> QED BY <1>2, <1>3, <1>4, <1>5, <1>6

\* A process in the middle of a flush: a new point in its rows is a race.
LEMMA AppendOther ==
  ASSUME Inv, NEW batch \in SUBSET Points, Appends(batch),
         NEW q \in Procs, NEW k \in FlusherType, k = flusher[q]
  PROVE  ProcOK(k)'
<1>1. ProcOK(k)
  BY DEF Inv
<1>2. SeesRows(k)'
  <2> SUFFICES ASSUME NEW c \in Chunks, HourOf[c] \in k.todo \ raced', k.rows[c] # {},
                      NEW x \in buffer'[c]
               PROVE  x \in k.rows[c]
    BY DEF SeesRows
  <2>1. CASE x \in buffer[c]
    BY <1>1, <2>1 DEF ProcOK, SeesRows, Appends
  <2>2. CASE x \in batch /\ ChunkOf[x] = c
    <3>1. PHour(x) = HourOf[c] /\ HourOf[c] \in Hours
      BY <2>2, PlacesTyped DEF PHour
    <3>2. Holds(flusher[q], ChunkOf[x])
      BY <2>2 DEF Holds
    <3>3. HourOf[c] \notin Overlaps(batch)
      BY DEF Appends
    <3> QED BY <2>2, <3>1, <3>2, <3>3 DEF Overlaps
  <2> QED BY <2>1, <2>2 DEF Inv, TypeOK, Appends, AppendLocal
<1>3. SendingOK(k)'
  <2> SUFFICES ASSUME k.at = "send", NEW h, h = Least(DOMAIN k.listed),
                      h \notin raced' \cup exportRaced', NEW x \in archive'[h]
               PROVE  x \in exported' \cup buffer'[ChunkOf[x]] \cup k.sending
    BY DEF SendingOK
  <2>1. x \in exported \cup buffer[ChunkOf[x]] \cup k.sending
    BY <1>1 DEF ProcOK, SendingOK, Appends
  <2>2. h \in Hours
    <3>1. DOMAIN k.listed \in SUBSET Hours /\ DOMAIN k.listed # {}
      BY <1>1, EntriesMap DEF ProcOK, PhaseOK, FlusherType
    <3> QED BY <3>1, LeastIn
  <2>3. ChunkOf[x] \in Chunks
    BY <2>2, PlacesTyped DEF Inv, ObjectsOK, PointsOf, Appends
  <2> QED BY <2>1, <2>3, AppendStore DEF Appends
<1>4. raced \subseteq raced' /\ exportRaced' = exportRaced /\ stored \subseteq stored'
  BY DEF Appends
<1>5. archive' = archive
  BY DEF Appends
<1> QED BY <1>1, <1>2, <1>3, <1>4, <1>5, KeepProc

\* A new flush from the rows b that the step leaves.
LEMMA NewFlushTyped ==
  ASSUME completed \subseteq Hours, NEW b \in [Chunks -> SUBSET Points]
  PROVE  /\ NewFlush(b) \in FlusherType
         /\ \A c \in Chunks : NewFlush(b).rows[c] \subseteq b[c]
         /\ \A c \in Chunks : NewFlush(b).rows[c] # {} => NewFlush(b).rows[c] = b[c]
<1>1. /\ Completed(b) \in [Chunks -> SUBSET Points]
      /\ \A c \in Chunks : Completed(b)[c] \in {{}, b[c]}
  BY DEF Completed
<1> DEFINE T == {HourOf[c] : c \in Rows(Completed(b))}
<1>2. T \subseteq Hours
  BY PlacesTyped DEF Rows
<1> HIDE DEF T
<1>3. NewFlush(b) = [Idle EXCEPT !.rows = Completed(b), !.todo = T]
  BY Zenon DEF NewFlush, T
<1>4. NewFlush(b) \in FlusherType /\ NewFlush(b).rows = Completed(b)
  BY <1>1, <1>2, <1>3, IdleTyped DEF FlusherType
<1> QED BY <1>1, <1>4

LEMMA NewFlushProc ==
  ASSUME NEW b \in [Chunks -> SUBSET Points], buffer' = b, RowsOK',
         completed \subseteq Hours, NEW f, f = NewFlush(b), NEW g, GoesOn(g, f)
  PROVE  ProcOK(g)'
<1>1. /\ f \in FlusherType /\ \A c \in Chunks : f.rows[c] \subseteq b[c]
      /\ \A c \in Chunks : f.rows[c] # {} => f.rows[c] = b[c]
  BY NewFlushTyped
<1>2. SeesRows(f)'
  BY <1>1 DEF SeesRows
<1>3. \A c \in Chunks : f.rows[c] \subseteq ChunkPoints(c) \cap stored'
  BY <1>1 DEF RowsOK
<1> QED BY <1>1, <1>2, <1>3, MovedProc

LEMMA NewFlushSame ==
  ASSUME NEW p \in Procs, NEW f, NEW g, GoesOn(g, f), Conflicts(p, f) \subseteq raced',
         f.todo \subseteq Hours,
         NEW q \in Procs \ {p}, NEW k \in FlusherType, k = flusher[q]
  PROVE  SameRows(g, k)'
<1>1. SameRows(f, k)'
  <2> SUFFICES ASSUME NEW h \in (f.todo \cap k.todo) \ raced'
               PROVE  RowsOf(f, h) = RowsOf(k, h)
    BY DEF SameRows
  <2>1. h \notin Conflicts(p, f) /\ h \in f.todo /\ h \in flusher[q].todo
    OBVIOUS
  <2>2. RowsOf(flusher[q], h) = RowsOf(f, h)
    BY <2>1, Zenon DEF Conflicts
  <2> QED BY <2>2
<1> QED BY <1>1, MovedSame

-----------------------------------------------------------------------------
(* The actions.                                                            *)

LEMMA InvFacts ==
  ASSUME Inv
  PROVE  /\ buffer \in [Chunks -> SUBSET Points] /\ archive \in [Hours -> SUBSET Points]
         /\ exports \in Entries /\ alarm \in BOOLEAN
         /\ flusher \in [Procs -> FlusherType] /\ Alarm \in Procs
         /\ completed \subseteq Hours /\ raced \subseteq Hours /\ exportRaced \subseteq Hours
         /\ stored \subseteq Points /\ exported \subseteq Points
         /\ restarts \in 0..MaxRestarts
         /\ \A p \in Procs : ProcOK(flusher[p])
         /\ \A p, q \in Procs : SameRows(flusher[p], flusher[q])
  BY DEF Inv, TypeOK, Procs

LEMMA ConflictsTyped ==
  ASSUME NEW p, NEW f, f.todo \subseteq Hours
  PROVE  Conflicts(p, f) \subseteq Hours
  BY DEF Conflicts

\* A step that leaves everything but one process and the store as they are.
LEMMA StoreTyped ==
  ASSUME RowsOK', ObjectsOK'
  PROVE  /\ (\A c \in Chunks : buffer[c] \subseteq {x \in Points : ChunkOf[x] = c})'
         /\ (\A h \in Hours : archive[h] \subseteq PointsOf(h))'
  BY DEF RowsOK, ObjectsOK, ChunkPoints

LEMMA HttpAppendKeeps ==
  ASSUME Inv, NEW p \in Handlers, NEW batch \in SUBSET Points, HttpAppend(p, batch)
  PROVE  Inv'
<1> DEFINE b == AppendLocal(buffer, batch)
<1>0. p \in Procs
  BY DEF Procs
<1>1. PICK f : f = NewFlush(b)
  OBVIOUS
<1>2. /\ buffer' = b /\ NextGroup(p, f, b, exports, TRUE)
      /\ raced' = raced \cup Overlaps(batch) \cup Conflicts(p, f)
      /\ stored' = stored \cup batch
      /\ UNCHANGED <<exports, archive, completed, exported, exportRaced, restarts>>
  BY <1>1, Zenon DEF HttpAppend
<1>3. Appends(batch)
  BY <1>2 DEF Appends
<1>4. /\ b \in [Chunks -> SUBSET Points] /\ stored' \subseteq Points
      /\ RowsOK' /\ ObjectsOK' /\ NothingLostUnlessRaced' /\ ExportNotForgotten'
  BY <1>2, <1>3, AppendStore
<1> HIDE DEF b
<1>5. f \in FlusherType
  BY <1>1, <1>4, InvFacts, NewFlushTyped
<1>6. MovesOn(p, f) /\ alarm' \in BOOLEAN
  BY <1>0, <1>2, <1>5, InvFacts, NextGroupMoves
<1>7. PICK g : flusher' = [flusher EXCEPT ![p] = g] /\ GoesOn(g, f)
  BY <1>6 DEF MovesOn
<1>8. ProcOK(g)'
  BY <1>1, <1>2, <1>4, <1>7, InvFacts, NewFlushProc
<1>9. ASSUME NEW q \in Procs \ {p}, NEW k \in FlusherType, k = flusher[q]
      PROVE  ProcOK(k)' /\ SameRows(g, k)'
  <2>1. f.todo \subseteq Hours
    BY <1>5 DEF FlusherType
  <2>2. Conflicts(p, f) \subseteq raced'
    BY <1>2
  <2>3. SameRows(g, k)'
    BY <1>0, <1>7, <1>9, <2>1, <2>2, NewFlushSame
  <2>4. ProcOK(k)'
    BY <1>3, <1>9, AppendOther
  <2> QED BY <2>3, <2>4
<1>10. /\ flusher' \in [Procs -> FlusherType]
       /\ (\A q \in Procs : ProcOK(flusher[q]))'
       /\ (\A q, r \in Procs : SameRows(flusher[q], flusher[r]))'
  BY <1>0, <1>2, <1>7, <1>8, <1>9, InvFacts, Together DEF GoesOn
<1>11. raced' \subseteq Hours
  <2>1. Overlaps(batch) \subseteq Hours
    BY DEF Overlaps
  <2>2. Conflicts(p, f) \subseteq Hours
    BY <1>5, ConflictsTyped DEF FlusherType
  <2> QED BY <1>2, <2>1, <2>2, InvFacts
<1>12. TypeOK'
  BY <1>2, <1>4, <1>6, <1>10, <1>11, InvFacts, StoreTyped DEF TypeOK
<1> QED BY <1>4, <1>10, <1>12 DEF Inv

LEMMA AlarmDrainKeeps ==
  ASSUME Inv, NEW batch \in SUBSET Points, AlarmDrain(batch)
  PROVE  Inv'
<1> DEFINE g == [flusher[Alarm] EXCEPT !.at = "drained"]
<1>1. /\ flusher[Alarm].at = "idle" /\ alarm' = FALSE
      /\ flusher' = [flusher EXCEPT ![Alarm].at = "drained"]
      /\ raced' = raced \cup Overlaps(batch)
      /\ UNCHANGED <<exports, archive, completed, exported, exportRaced, restarts>>
  BY DEF AlarmDrain
<1>2. Appends(batch)
  BY DEF AlarmDrain, Appends
<1>3. /\ buffer' \in [Chunks -> SUBSET Points] /\ stored' \subseteq Points
      /\ RowsOK' /\ ObjectsOK' /\ NothingLostUnlessRaced' /\ ExportNotForgotten'
  BY <1>2, AppendStore
<1>4. /\ flusher[Alarm] \in FlusherType /\ ProcOK(flusher[Alarm])
  BY InvFacts
<1>5. PICK k : k = g
  OBVIOUS
<1>6. /\ k \in FlusherType /\ k.at = "drained" /\ k.todo = {}
      /\ \A c \in Chunks : k.rows[c] \subseteq ChunkPoints(c) \cap stored
  BY <1>1, <1>4, <1>5 DEF FlusherType, ProcOK, PhaseOK, ReadOK, InGroups
<1>7. flusher' = [flusher EXCEPT ![Alarm] = k]
  BY <1>1, <1>5, InvFacts
<1>8. ProcOK(k)'
  BY <1>2, <1>6 DEF Appends, ProcOK, PhaseOK, InGroups, ReadOK, SeesRows, ObjectOf, SendingOK
<1>9. ASSUME NEW q \in Procs \ {Alarm}, NEW j \in FlusherType, j = flusher[q]
      PROVE  ProcOK(j)' /\ SameRows(k, j)'
  <2>1. SameRows(k, j)'
    BY <1>6 DEF SameRows
  <2>2. ProcOK(j)'
    BY <1>2, <1>9, AppendOther
  <2> QED BY <2>1, <2>2
<1>10. /\ flusher' \in [Procs -> FlusherType]
       /\ (\A q \in Procs : ProcOK(flusher[q]))'
       /\ (\A q, r \in Procs : SameRows(flusher[q], flusher[r]))'
  BY <1>1, <1>6, <1>7, <1>8, <1>9, InvFacts, Together
<1>11. raced' \subseteq Hours
  BY <1>1, InvFacts DEF Overlaps
<1>12. TypeOK'
  BY <1>1, <1>3, <1>10, <1>11, InvFacts, StoreTyped DEF TypeOK
<1> QED BY <1>3, <1>10, <1>12 DEF Inv

\* alarm() after its drain: a new flush of the rows as they are.
LEMMA AlarmFlushKeeps == ASSUME Inv, AlarmFlush PROVE Inv'
<1>1. PICK f : f = NewFlush(buffer)
  OBVIOUS
<1>2. /\ NextGroup(Alarm, f, buffer, exports, alarm)
      /\ raced' = raced \cup Conflicts(Alarm, f)
      /\ UNCHANGED <<buffer, exports, archive, completed, stored, exported, exportRaced, restarts>>
  BY <1>1, Zenon DEF AlarmFlush, storage
<1>3. Appends({})
  <2>1. Overlaps({}) = {}
    BY DEF Overlaps
  <2>2. AppendLocal(buffer, {}) = buffer
    BY InvFacts DEF AppendLocal
  <2> QED BY <1>2, <2>1, <2>2 DEF Appends
<1>4. /\ buffer' \in [Chunks -> SUBSET Points] /\ stored' \subseteq Points
      /\ RowsOK' /\ ObjectsOK' /\ NothingLostUnlessRaced' /\ ExportNotForgotten'
  BY <1>3, AppendStore
<1>5. f \in FlusherType
  BY <1>1, InvFacts, NewFlushTyped
<1>6. MovesOn(Alarm, f) /\ alarm' \in BOOLEAN
  BY <1>2, <1>5, InvFacts, NextGroupMoves
<1>7. PICK g : flusher' = [flusher EXCEPT ![Alarm] = g] /\ GoesOn(g, f)
  BY <1>6 DEF MovesOn
<1>8. ProcOK(g)'
  BY <1>1, <1>2, <1>4, <1>7, InvFacts, NewFlushProc
<1>9. ASSUME NEW q \in Procs \ {Alarm}, NEW k \in FlusherType, k = flusher[q]
      PROVE  ProcOK(k)' /\ SameRows(g, k)'
  <2>1. f.todo \subseteq Hours
    BY <1>5 DEF FlusherType
  <2>2. Conflicts(Alarm, f) \subseteq raced'
    BY <1>2
  <2>3. SameRows(g, k)'
    BY <1>7, <1>9, <2>1, <2>2, InvFacts, NewFlushSame
  <2>4. ProcOK(k)'
    BY <1>3, <1>9, AppendOther
  <2> QED BY <2>3, <2>4
<1>10. /\ flusher' \in [Procs -> FlusherType]
       /\ (\A q \in Procs : ProcOK(flusher[q]))'
       /\ (\A q, r \in Procs : SameRows(flusher[q], flusher[r]))'
  BY <1>2, <1>7, <1>8, <1>9, InvFacts, Together DEF GoesOn
<1>11. raced' \subseteq Hours
  <2>1. Conflicts(Alarm, f) \subseteq Hours
    BY <1>5, ConflictsTyped DEF FlusherType
  <2> QED BY <1>2, <2>1, InvFacts
<1>12. TypeOK'
  BY <1>2, <1>4, <1>6, <1>10, <1>11, InvFacts, StoreTyped DEF TypeOK
<1> QED BY <1>4, <1>10, <1>12 DEF Inv

\* What a step of p that flushes or exports has to show: the rows only shrink,
\* the archive of an hour without a race only grows, by the rows of that hour.
LEMMA StepKeeps ==
  ASSUME Inv, NEW p \in Procs, NEW g \in FlusherType,
         flusher' = [flusher EXCEPT ![p] = g], alarm' \in BOOLEAN,
         UNCHANGED <<completed, stored, raced, restarts>>,
         buffer' \in [Chunks -> SUBSET Points], archive' \in [Hours -> SUBSET Points],
         exports' \in Entries, exported' \subseteq Points,
         exportRaced \subseteq exportRaced', exportRaced' \subseteq Hours,
         \A c \in Chunks : buffer'[c] \subseteq buffer[c],
         ObjectsOK', NothingLostUnlessRaced', ExportNotForgotten', ProcOK(g)',
         g.todo \subseteq flusher[p].todo, g.todo # {} => g.rows = flusher[p].rows,
         ASSUME NEW q \in Procs \ {p}, NEW k \in FlusherType, k = flusher[q], ProcOK(k)
         PROVE  /\ SendingOK(k)'
                /\ k.at \in {"put", "head", "readback"} /\ Least(k.todo) \notin raced =>
                      /\ archive[Least(k.todo)] \subseteq archive'[Least(k.todo)]
                      /\ archive'[Least(k.todo)] \subseteq
                             archive[Least(k.todo)] \cup Snapshot(k, Least(k.todo))
  PROVE  Inv'
<1>1. RowsOK'
  BY DEF Inv, RowsOK
<1>2. ASSUME NEW q \in Procs \ {p}, NEW k \in FlusherType, k = flusher[q]
      PROVE  ProcOK(k)' /\ SameRows(g, k)'
  <2>1. ProcOK(k)
    BY <1>2, InvFacts
  <2>2. SeesRows(k)'
    BY <2>1 DEF ProcOK, SeesRows
  <2>3. /\ SendingOK(k)'
        /\ k.at \in {"put", "head", "readback"} /\ Least(k.todo) \notin raced =>
              /\ archive[Least(k.todo)] \subseteq archive'[Least(k.todo)]
              /\ archive'[Least(k.todo)] \subseteq
                     archive[Least(k.todo)] \cup Snapshot(k, Least(k.todo))
    BY <1>2, <2>1
  <2>4. ProcOK(k)'
    BY <2>1, <2>2, <2>3, KeepProc
  <2>5. SameRows(flusher[p], k)
    BY <1>2, InvFacts
  <2>6. SameRows(g, k)'
    <3>1. CASE g.todo = {}
      BY <3>1 DEF SameRows
    <3>2. CASE g.todo # {}
      BY <2>5, <3>2 DEF SameRows, RowsOf
    <3> QED BY <3>1, <3>2
  <2> QED BY <2>4, <2>6
<1>3. /\ flusher' \in [Procs -> FlusherType]
      /\ (\A q \in Procs : ProcOK(flusher[q]))'
      /\ (\A q, r \in Procs : SameRows(flusher[q], flusher[r]))'
  BY <1>2, InvFacts, Together
<1>4. TypeOK'
  BY <1>1, <1>3, InvFacts, StoreTyped DEF TypeOK
<1> QED BY <1>1, <1>3, <1>4 DEF Inv

\* How p goes on from f, its own record without some groups.
LEMMA MovesOnProc ==
  ASSUME Inv, NEW p \in Procs, NEW f \in FlusherType,
         f.rows = flusher[p].rows, f.todo \subseteq flusher[p].todo,
         UNCHANGED <<stored, raced>>, \A c \in Chunks : buffer'[c] \subseteq buffer[c],
         NEW g, GoesOn(g, f)
  PROVE  /\ g \in FlusherType /\ ProcOK(g)' /\ g.todo \subseteq flusher[p].todo
         /\ g.todo # {} => g.rows = flusher[p].rows
<1>1. ProcOK(flusher[p])
  BY InvFacts
<1>2. SeesRows(f)'
  BY <1>1 DEF ProcOK, SeesRows
<1>3. \A c \in Chunks : f.rows[c] \subseteq ChunkPoints(c) \cap stored'
  BY <1>1 DEF ProcOK, ReadOK
<1>4. ProcOK(g)'
  BY <1>2, <1>3, MovedProc
<1> QED BY <1>4 DEF GoesOn

\* `catch` of the loop over the groups.
LEMMA GroupFailedMoves ==
  ASSUME Inv, NEW p \in Procs, InGroups(flusher[p]), GroupFailed(p),
         UNCHANGED <<stored, raced, buffer>>
  PROVE  /\ alarm' \in BOOLEAN
         /\ \E g \in FlusherType :
                /\ flusher' = [flusher EXCEPT ![p] = g] /\ ProcOK(g)'
                /\ g.todo \subseteq flusher[p].todo
                /\ g.todo # {} => g.rows = flusher[p].rows
<1> DEFINE f == [WithoutGroup(flusher[p]) EXCEPT !.retry = TRUE]
<1>1. /\ f \in FlusherType /\ f.rows = flusher[p].rows
      /\ f.todo \subseteq flusher[p].todo
  <2> DEFINE old == flusher[p]
             rest == old.todo \ {Least(old.todo)}
             g == [old EXCEPT !.todo = rest, !.object = {}]
  <2>1. old \in FlusherType
    BY InvFacts
  <2>2. rest \subseteq old.todo
    OBVIOUS
  <2> HIDE DEF old, rest
  <2>3. g \in FlusherType /\ g.rows = old.rows /\ g.todo = rest
    BY <2>1, <2>2 DEF FlusherType
  <2> HIDE DEF g
  <2>4. [g EXCEPT !.retry = TRUE] \in FlusherType
    BY <2>3 DEF FlusherType
  <2>5. [g EXCEPT !.retry = TRUE].rows = g.rows /\ [g EXCEPT !.retry = TRUE].todo = g.todo
    BY <2>3 DEF FlusherType
  <2>6. f = [g EXCEPT !.retry = TRUE]
    BY DEF g, rest, old, WithoutGroup
  <2> QED
    BY <2>2, <2>3, <2>4, <2>5, <2>6 DEF old
<1>2. NextGroup(p, f, buffer, exports, alarm)
  BY Zenon DEF GroupFailed
<1> HIDE DEF f
<1>3. MovesOn(p, f) /\ alarm' \in BOOLEAN
  BY <1>1, <1>2, InvFacts, NextGroupMoves
<1>4. PICK g : flusher' = [flusher EXCEPT ![p] = g] /\ GoesOn(g, f)
  BY <1>3 DEF MovesOn
<1>5. /\ g \in FlusherType /\ ProcOK(g)' /\ g.todo \subseteq flusher[p].todo
      /\ g.todo # {} => g.rows = flusher[p].rows
  BY <1>1, <1>4, MovesOnProc
<1> QED BY <1>3, <1>4, <1>5

\* The oldest hour a process still flushes, or exports, is an hour.
LEMMA HeadHour ==
  ASSUME NEW k \in FlusherType, PhaseOK(k)
  PROVE  /\ InGroups(k) => Least(k.todo) \in k.todo /\ Least(k.todo) \in Hours
         /\ k.at \in {"export", "send"} =>
                Least(DOMAIN k.listed) \in DOMAIN k.listed /\ Least(DOMAIN k.listed) \in Hours
<1>1. k.todo \in SUBSET Hours /\ DOMAIN k.listed \in SUBSET Hours
  BY EntriesMap DEF FlusherType
<1> QED BY <1>1, LeastIn DEF PhaseOK

\* A step of p alone, which changes no row, object or entry.
LEMMA LocalStepKeeps ==
  ASSUME Inv, NEW p \in Procs, NEW g \in FlusherType,
         flusher' = [flusher EXCEPT ![p] = g], alarm' \in BOOLEAN,
         UNCHANGED <<storage, archive, completed, history>>, ProcOK(g)',
         g.todo \subseteq flusher[p].todo, g.todo # {} => g.rows = flusher[p].rows
  PROVE  Inv'
<1>1. UNCHANGED <<buffer, exports, archive, completed, stored, raced, exported, exportRaced,
                  restarts>>
  BY DEF storage, history
<1>2. /\ buffer' \in [Chunks -> SUBSET Points] /\ archive' \in [Hours -> SUBSET Points]
      /\ exports' \in Entries /\ exported' \subseteq Points /\ exportRaced' \subseteq Hours
      /\ \A c \in Chunks : buffer'[c] \subseteq buffer[c]
  BY <1>1, InvFacts
<1>3. ObjectsOK' /\ NothingLostUnlessRaced' /\ ExportNotForgotten'
  BY <1>1 DEF Inv, ObjectsOK, NothingLostUnlessRaced, ExportNotForgotten, Kept
<1>4. ASSUME NEW k, ProcOK(k) PROVE SendingOK(k)'
  BY <1>1, <1>4 DEF ProcOK, SendingOK
<1>5. exportRaced \subseteq exportRaced' /\ UNCHANGED <<completed, stored, raced, restarts>>
  BY <1>1
<1>6. ASSUME NEW q \in Procs \ {p}, NEW k \in FlusherType, k = flusher[q], ProcOK(k)
      PROVE  /\ SendingOK(k)'
             /\ k.at \in {"put", "head", "readback"} /\ Least(k.todo) \notin raced =>
                   /\ archive[Least(k.todo)] \subseteq archive'[Least(k.todo)]
                   /\ archive'[Least(k.todo)] \subseteq
                          archive[Least(k.todo)] \cup Snapshot(k, Least(k.todo))
  BY <1>1, <1>4, <1>6
<1> QED BY <1>2, <1>3, <1>5, <1>6, StepKeeps

LEMMA FlushGetKeeps == ASSUME Inv, NEW p \in Procs, FlushGet(p) PROVE Inv'
<1>1. /\ flusher[p].at = "get" /\ UNCHANGED <<storage, archive, completed, history>>
      /\ UNCHANGED <<stored, raced, buffer>>
  BY DEF FlushGet, storage, history
<1>2. /\ flusher[p] \in FlusherType /\ ProcOK(flusher[p]) /\ InGroups(flusher[p])
      /\ Least(flusher[p].todo) \in Hours
  BY <1>1, InvFacts, HeadHour DEF InGroups, ProcOK
<1>3. CASE GroupFailed(p)
  BY <1>1, <1>2, <1>3, GroupFailedMoves, LocalStepKeeps
<1>4. CASE /\ flusher' = [flusher EXCEPT ![p] = [flusher[p] EXCEPT
                  !.at = "put", !.object = MergedObject(flusher[p], Least(flusher[p].todo))]]
           /\ alarm' = alarm
  <2> DEFINE h == Least(flusher[p].todo)
             m == MergedObject(flusher[p], h)
  <2>1. PICK g : g = [flusher[p] EXCEPT !.at = "put", !.object = m]
    OBVIOUS
  <2>2. m \subseteq PointsOf(h) \cap stored
    <3>1. Snapshot(flusher[p], h) \subseteq PointsOf(h) \cap stored
      BY <1>2, SnapshotPoints DEF ProcOK, PointsOf
    <3> QED BY <1>2, <3>1 DEF MergedObject, Inv, ObjectsOK
  <2>3. /\ g \in FlusherType /\ g.at = "put" /\ g.todo = flusher[p].todo
        /\ g.rows = flusher[p].rows /\ g.object = m
    <3>1. m \subseteq Points
      BY <2>2 DEF PointsOf
    <3> HIDE DEF m
    <3> QED BY <1>2, <2>1, <3>1 DEF FlusherType
  <2>4. m = archive[h] \cup Snapshot(g, h)
    BY <2>3 DEF MergedObject, Snapshot
  <2>5. PhaseOK(g)' /\ ReadOK(g)' /\ SeesRows(g)' /\ SendingOK(g)'
    BY <1>1, <1>2, <2>2, <2>3 DEF ProcOK, PhaseOK, InGroups, ReadOK, SeesRows, SendingOK
  <2>6. g.object = archive'[Least(g.todo)] \cup Snapshot(g, Least(g.todo))
    BY <1>1, <2>3, <2>4
  <2>7. ObjectOf(g)'
    BY <2>3, <2>6 DEF ObjectOf, Snapshot
  <2>8. flusher' = [flusher EXCEPT ![p] = g] /\ alarm' \in BOOLEAN
    BY <1>4, <2>1, InvFacts
  <2> QED BY <1>1, <2>3, <2>5, <2>7, <2>8, LocalStepKeeps DEF ProcOK
<1> QED BY <1>3, <1>4 DEF FlushGet

LEMMA FlushHeadKeeps == ASSUME Inv, NEW p \in Procs, FlushHead(p) PROVE Inv'
<1>1. /\ flusher[p].at = "head" /\ UNCHANGED <<storage, archive, completed, history>>
      /\ UNCHANGED <<stored, raced, buffer>>
  BY DEF FlushHead, storage, history
<1>2. flusher[p] \in FlusherType /\ ProcOK(flusher[p]) /\ InGroups(flusher[p])
  BY <1>1, InvFacts DEF InGroups
<1>3. CASE GroupFailed(p)
  BY <1>1, <1>2, <1>3, GroupFailedMoves, LocalStepKeeps
<1>4. CASE flusher' = [flusher EXCEPT ![p].at = "readback"] /\ alarm' = alarm
  <2>1. PICK g : g = [flusher[p] EXCEPT !.at = "readback"]
    OBVIOUS
  <2>2. /\ g \in FlusherType /\ g.at = "readback" /\ g.todo = flusher[p].todo
        /\ g.rows = flusher[p].rows
    BY <1>2, <2>1 DEF FlusherType
  <2>3. \A h : Snapshot(g, h) = Snapshot(flusher[p], h)
    BY <2>2 DEF Snapshot
  <2>4. archive' = archive /\ raced' = raced
    BY <1>1
  <2>5. Least(g.todo) \notin raced => Snapshot(g, Least(g.todo)) \subseteq archive[Least(g.todo)]
    BY <1>1, <1>2, <2>2, <2>3 DEF ProcOK, ObjectOf
  <2>6. ObjectOf(g)'
    BY <2>2, <2>4, <2>5 DEF ObjectOf, Snapshot
  <2>7. PhaseOK(g)' /\ ReadOK(g)' /\ SeesRows(g)' /\ SendingOK(g)'
    BY <1>1, <1>2, <2>2 DEF ProcOK, PhaseOK, InGroups, ReadOK, SeesRows, SendingOK
  <2>8. flusher' = [flusher EXCEPT ![p] = g] /\ alarm' \in BOOLEAN
    BY <1>4, <2>1, InvFacts
  <2> QED BY <1>1, <2>2, <2>6, <2>7, <2>8, LocalStepKeeps DEF ProcOK
<1> QED BY <1>3, <1>4 DEF FlushHead

\* What a PUT, with or without its answer, does to the store.
LEMMA PutStore ==
  ASSUME Inv, NEW p \in Procs, flusher[p].at = "put",
         archive' \in {archive, [archive EXCEPT ![Least(flusher[p].todo)] = flusher[p].object]},
         UNCHANGED <<buffer, exports, stored, raced, exported, exportRaced>>
  PROVE  /\ archive' \in [Hours -> SUBSET Points]
         /\ ObjectsOK' /\ NothingLostUnlessRaced' /\ ExportNotForgotten'
         /\ \A j \in Hours : j \notin raced => archive[j] \subseteq archive'[j]
         /\ \A q \in Procs, k \in FlusherType : k = flusher[q] /\ q # p =>
                /\ SendingOK(k)'
                /\ k.at \in {"put", "head", "readback"} /\ Least(k.todo) \notin raced =>
                      /\ archive[Least(k.todo)] \subseteq archive'[Least(k.todo)]
                      /\ archive'[Least(k.todo)] \subseteq
                             archive[Least(k.todo)] \cup Snapshot(k, Least(k.todo))
<1>1. PICK f : f = flusher[p]
  OBVIOUS
<1>2. PICK h : h = Least(f.todo)
  OBVIOUS
<1>3. /\ f \in FlusherType /\ ProcOK(f) /\ f.at = "put" /\ h \in Hours /\ h \in f.todo
      /\ f.object \subseteq PointsOf(h) \cap stored
  BY <1>1, <1>2, InvFacts, HeadHour DEF ProcOK, ReadOK, InGroups
<1>4. archive' \in {archive, [archive EXCEPT ![h] = f.object]}
  BY <1>1, <1>2
<1>5. h \notin raced => f.object = archive[h] \cup Snapshot(f, h)
  BY <1>2, <1>3 DEF ProcOK, ObjectOf
<1>6. /\ archive \in [Hours -> SUBSET Points] /\ stored \subseteq Points
      /\ NothingLostUnlessRaced
  BY InvFacts DEF Inv
<1>7. archive' \in [Hours -> SUBSET Points] /\ ObjectsOK'
  BY <1>3, <1>4, <1>6 DEF Inv, ObjectsOK, PointsOf
\* What hour h gains is in its rows or was in its object.
<1>8. ASSUME h \notin raced, NEW x \in archive'[h]
      PROVE  x \in archive[h] \/ x \in buffer[ChunkOf[x]]
  <2>1. CASE x \in Snapshot(f, h)
    <3>1. x \in stored /\ PHour(x) = h
      BY <1>3, <2>1, SnapshotPoints DEF ProcOK
    <3> QED BY <1>6, <1>8, <3>1 DEF NothingLostUnlessRaced, Kept
  <2> QED BY <1>4, <1>5, <1>6, <1>8, <2>1, <1>3
<1>9. \A j \in Hours : j # h => archive'[j] = archive[j]
  BY <1>3, <1>4, <1>6
<1>10. \A j \in Hours : j \notin raced => archive[j] \subseteq archive'[j]
  BY <1>3, <1>4, <1>5, <1>6
<1>11. NothingLostUnlessRaced'
  <2> SUFFICES ASSUME NEW x \in stored, PHour(x) \notin raced PROVE Kept(x)'
    BY DEF NothingLostUnlessRaced
  <2>1. Kept(x) /\ PHour(x) \in Hours
    BY <1>6, PlacesTyped DEF NothingLostUnlessRaced
  <2> QED BY <1>10, <2>1 DEF Kept
<1>12. ExportNotForgotten'
  <2> SUFFICES ASSUME ExportEnabled, NEW j \in Hours, j \notin raced \cup exportRaced,
                      NEW x \in archive'[j]
               PROVE  x \in exported \cup buffer[ChunkOf[x]] \/ j \in DOMAIN exports
    BY DEF ExportNotForgotten
  <2>1. x \in archive[j] \/ x \in buffer[ChunkOf[x]]
    BY <1>8, <1>9
  <2> QED BY <2>1 DEF Inv, ExportNotForgotten
<1>13. ASSUME NEW q \in Procs, NEW k \in FlusherType, k = flusher[q], q # p
       PROVE  /\ SendingOK(k)'
              /\ k.at \in {"put", "head", "readback"} /\ Least(k.todo) \notin raced =>
                    /\ archive[Least(k.todo)] \subseteq archive'[Least(k.todo)]
                    /\ archive'[Least(k.todo)] \subseteq
                           archive[Least(k.todo)] \cup Snapshot(k, Least(k.todo))
  <2>1. ProcOK(k) /\ PhaseOK(k)
    BY <1>13, InvFacts DEF ProcOK
  <2>2. SendingOK(k)'
    <3> SUFFICES ASSUME k.at = "send", Least(DOMAIN k.listed) \notin raced \cup exportRaced,
                        NEW x \in archive'[Least(DOMAIN k.listed)]
                 PROVE  x \in exported \cup buffer[ChunkOf[x]] \cup k.sending
      BY DEF SendingOK
    <3>1. Least(DOMAIN k.listed) \in Hours
      BY <2>1, HeadHour
    <3>2. x \in archive[Least(DOMAIN k.listed)] \/ x \in buffer[ChunkOf[x]]
      BY <1>8, <1>9, <3>1
    <3> QED BY <2>1, <3>2 DEF ProcOK, SendingOK
  <2>3. ASSUME k.at \in {"put", "head", "readback"}, Least(k.todo) \notin raced
        PROVE  /\ archive[Least(k.todo)] \subseteq archive'[Least(k.todo)]
               /\ archive'[Least(k.todo)] \subseteq
                      archive[Least(k.todo)] \cup Snapshot(k, Least(k.todo))
    <3>1. Least(k.todo) \in Hours /\ Least(k.todo) \in k.todo
      BY <2>1, <2>3, HeadHour DEF InGroups
    <3>2. CASE Least(k.todo) # h
      BY <1>9, <3>1, <3>2
    <3>3. CASE Least(k.todo) = h
      <4>1. RowsOf(f, h) = RowsOf(k, h)
        <5>1. SameRows(f, k)
          BY <1>1, <1>13, InvFacts
        <5> QED BY <1>3, <2>3, <3>1, <3>3, <5>1 DEF SameRows
      <4>2. Snapshot(f, h) = Snapshot(k, h)
        BY <1>3, <4>1, SnapshotSame
      <4> QED BY <1>3, <1>4, <1>5, <1>6, <2>3, <3>3, <4>2
    <3> QED BY <3>2, <3>3
  <2> QED BY <2>2, <2>3
<1> QED BY <1>7, <1>10, <1>11, <1>12, <1>13

LEMMA FlushPutKeeps == ASSUME Inv, NEW p \in Procs, FlushPut(p) PROVE Inv'
<1>1. /\ flusher[p].at = "put"
      /\ archive' \in {archive, [archive EXCEPT ![Least(flusher[p].todo)] = flusher[p].object]}
      /\ UNCHANGED <<buffer, exports, stored, raced, exported, exportRaced, completed, restarts>>
  BY Zenon DEF FlushPut, storage, history
<1>2. flusher[p] \in FlusherType /\ ProcOK(flusher[p]) /\ InGroups(flusher[p])
  BY <1>1, InvFacts DEF InGroups
<1>3. /\ alarm' \in BOOLEAN
      /\ \E g \in FlusherType :
             /\ flusher' = [flusher EXCEPT ![p] = g] /\ ProcOK(g)'
             /\ g.todo \subseteq flusher[p].todo
             /\ g.todo # {} => g.rows = flusher[p].rows
  <2>1. CASE GroupFailed(p)
    BY <1>1, <1>2, <2>1, GroupFailedMoves
  <2>2. CASE /\ archive' = [archive EXCEPT ![Least(flusher[p].todo)] = flusher[p].object]
             /\ flusher' = [flusher EXCEPT ![p].at = "head", ![p].object = {}]
             /\ alarm' = alarm
    <3>1. PICK g : g = [flusher[p] EXCEPT !.at = "head", !.object = {}]
      OBVIOUS
    <3>2. /\ g \in FlusherType /\ g.at = "head" /\ g.todo = flusher[p].todo
          /\ g.rows = flusher[p].rows
      BY <1>2, <3>1 DEF FlusherType
    <3>3. PhaseOK(g)' /\ ReadOK(g)' /\ SeesRows(g)' /\ SendingOK(g)'
      BY <1>1, <1>2, <3>2 DEF ProcOK, PhaseOK, InGroups, ReadOK, SeesRows, SendingOK
    <3>4. Least(g.todo) \notin raced => Snapshot(g, Least(g.todo)) \subseteq archive'[Least(g.todo)]
      <4>1. Least(g.todo) \in Hours
        BY <1>2, <3>2, HeadHour DEF ProcOK
      <4>2. archive'[Least(g.todo)] = flusher[p].object
        BY <2>2, <3>2, <4>1, InvFacts
      <4>3. Snapshot(g, Least(g.todo)) = Snapshot(flusher[p], Least(g.todo))
        BY <3>2 DEF Snapshot
      <4> QED BY <1>1, <1>2, <3>2, <4>2, <4>3 DEF ProcOK, ObjectOf
    <3>5. ObjectOf(g)'
      BY <1>1, <3>2, <3>4 DEF ObjectOf, Snapshot
    <3>6. flusher' = [flusher EXCEPT ![p] = g] /\ alarm' \in BOOLEAN
      BY <2>2, <3>1, InvFacts
    <3> QED BY <3>2, <3>3, <3>5, <3>6 DEF ProcOK
  <2> QED BY <2>1, <2>2 DEF FlushPut
<1>4. PICK g \in FlusherType :
         /\ flusher' = [flusher EXCEPT ![p] = g] /\ ProcOK(g)'
         /\ g.todo \subseteq flusher[p].todo
         /\ g.todo # {} => g.rows = flusher[p].rows
  BY <1>3
<1>5. /\ archive' \in [Hours -> SUBSET Points]
      /\ ObjectsOK' /\ NothingLostUnlessRaced' /\ ExportNotForgotten'
      /\ \A q \in Procs, k \in FlusherType : k = flusher[q] /\ q # p =>
             /\ SendingOK(k)'
             /\ k.at \in {"put", "head", "readback"} /\ Least(k.todo) \notin raced =>
                   /\ archive[Least(k.todo)] \subseteq archive'[Least(k.todo)]
                   /\ archive'[Least(k.todo)] \subseteq
                          archive[Least(k.todo)] \cup Snapshot(k, Least(k.todo))
  BY <1>1, PutStore
<1>6. /\ buffer' \in [Chunks -> SUBSET Points] /\ exports' \in Entries
      /\ exported' \subseteq Points /\ exportRaced \subseteq exportRaced' /\ exportRaced' \subseteq Hours
      /\ \A c \in Chunks : buffer'[c] \subseteq buffer[c]
      /\ UNCHANGED <<completed, stored, raced, restarts>>
  BY <1>1, InvFacts
<1> QED BY <1>3, <1>4, <1>5, <1>6, StepKeeps

\* What the deletion of a flushed group does to the store.
LEMMA DeleteStore ==
  ASSUME Inv, NEW p \in Procs, NEW f, f = flusher[p], f.at = "readback",
         NEW h, h = Least(f.todo),
         exports' = QueueExport(h), buffer' = DeleteRows(f, h),
         exportRaced' = exportRaced \cup
             {j \in {h} : \E q \in Procs \ {p} : j \in DOMAIN flusher[q].listed},
         UNCHANGED <<archive, stored, raced, exported>>
  PROVE  /\ buffer' \in [Chunks -> SUBSET Points] /\ exports' \in Entries
         /\ exportRaced' \subseteq Hours
         /\ \A c \in Chunks : buffer'[c] \subseteq buffer[c]
         /\ ObjectsOK' /\ NothingLostUnlessRaced' /\ ExportNotForgotten'
         /\ \A q \in Procs, k \in FlusherType :
                k = flusher[q] /\ q # p /\ ProcOK(k) => SendingOK(k)'
<1>1. f \in FlusherType /\ ProcOK(f) /\ h \in Hours /\ h \in f.todo
  BY InvFacts, HeadHour DEF ProcOK, InGroups
<1>2. /\ buffer \in [Chunks -> SUBSET Points] /\ RowsOK /\ ObjectsOK
      /\ NothingLostUnlessRaced /\ stored \subseteq Points /\ exportRaced \subseteq Hours
  BY InvFacts DEF Inv
<1>3. /\ buffer' \in [Chunks -> SUBSET Points]
      /\ \A c \in Chunks : buffer'[c] \subseteq buffer[c]
      /\ \A c \in Chunks : HourOf[c] # h \/ f.rows[c] = {} => buffer'[c] = buffer[c]
  BY <1>2 DEF DeleteRows
<1>4. /\ exports' \in Entries /\ DOMAIN exports \subseteq DOMAIN exports'
      /\ ExportEnabled => h \in DOMAIN exports'
  BY <1>1, InvFacts, EntriesQueue
<1>5. ObjectsOK'
  BY <1>2 DEF ObjectsOK
<1>6. NothingLostUnlessRaced'
  <2> SUFFICES ASSUME NEW x \in stored, PHour(x) \notin raced PROVE Kept(x)'
    BY DEF NothingLostUnlessRaced
  <2>1. Kept(x) /\ x \in Points /\ ChunkOf[x] \in Chunks
    BY <1>2, PlacesTyped DEF NothingLostUnlessRaced
  <2>2. CASE HourOf[ChunkOf[x]] = h /\ f.rows[ChunkOf[x]] # {} /\ x \in buffer[ChunkOf[x]]
    <3>1. x \in f.rows[ChunkOf[x]]
      BY <1>1, <2>1, <2>2 DEF ProcOK, SeesRows, PHour
    <3>2. x \in Snapshot(f, h)
      BY <2>1, <2>2, <3>1 DEF Snapshot, ChunksOf
    <3>3. x \in archive[h]
      BY <1>1, <2>2, <3>2 DEF ProcOK, ObjectOf, PHour
    <3> QED BY <2>2, <3>3 DEF Kept, PHour
  <2>3. CASE ~(HourOf[ChunkOf[x]] = h /\ f.rows[ChunkOf[x]] # {} /\ x \in buffer[ChunkOf[x]])
    BY <1>3, <2>1, <2>3 DEF Kept
  <2> QED BY <2>2, <2>3
<1>7. ASSUME NEW j \in Hours, j # h, NEW x \in archive[j]
      PROVE  buffer'[ChunkOf[x]] = buffer[ChunkOf[x]]
  <2>1. x \in Points /\ HourOf[ChunkOf[x]] = j /\ ChunkOf[x] \in Chunks
    BY <1>2, PlacesTyped DEF ObjectsOK, PointsOf, PHour
  <2> QED BY <1>3, <1>7, <2>1
<1>8. ExportNotForgotten'
  <2> SUFFICES ASSUME ExportEnabled, NEW j \in Hours, j \notin raced \cup exportRaced',
                      NEW x \in archive[j]
               PROVE  x \in exported \cup buffer'[ChunkOf[x]] \/ j \in DOMAIN exports'
    BY DEF ExportNotForgotten
  <2>1. CASE j = h
    BY <1>4, <2>1
  <2>2. CASE j # h
    BY <1>4, <1>7, <2>2 DEF Inv, ExportNotForgotten
  <2> QED BY <2>1, <2>2
<1>9. ASSUME NEW q \in Procs, NEW k \in FlusherType, k = flusher[q], q # p, ProcOK(k)
      PROVE  SendingOK(k)'
  <2> SUFFICES ASSUME k.at = "send", Least(DOMAIN k.listed) \notin raced \cup exportRaced',
                      NEW x \in archive[Least(DOMAIN k.listed)]
               PROVE  x \in exported \cup buffer'[ChunkOf[x]] \cup k.sending
    BY DEF SendingOK
  <2>1. Least(DOMAIN k.listed) \in Hours /\ Least(DOMAIN k.listed) \in DOMAIN k.listed
    BY <1>9, HeadHour DEF ProcOK
  <2>2. Least(DOMAIN k.listed) # h
    BY <1>9, <2>1
  <2> QED BY <1>7, <1>9, <2>1, <2>2 DEF ProcOK, SendingOK
<1>10. exportRaced' \subseteq Hours
  BY <1>1, <1>2
<1> QED BY <1>3, <1>4, <1>5, <1>6, <1>8, <1>9, <1>10

LEMMA FlushReadbackKeeps == ASSUME Inv, NEW p \in Procs, FlushReadback(p) PROVE Inv'
<1>1. PICK f : f = flusher[p]
  OBVIOUS
<1>2. PICK h : h = Least(f.todo)
  OBVIOUS
<1>3. f.at = "readback" /\ UNCHANGED <<archive, completed, stored, raced, exported, restarts>>
  BY <1>1 DEF FlushReadback
<1>4. /\ f \in FlusherType /\ ProcOK(f) /\ InGroups(flusher[p]) /\ h \in Hours
  BY <1>1, <1>2, <1>3, InvFacts, HeadHour DEF InGroups, ProcOK
<1>5. CASE GroupFailed(p) /\ UNCHANGED <<storage, exportRaced>>
  <2>1. UNCHANGED <<storage, archive, completed, history>> /\ UNCHANGED <<stored, raced, buffer>>
    BY <1>3, <1>5 DEF storage, history
  <2> QED BY <1>4, <1>5, <2>1, GroupFailedMoves, LocalStepKeeps
<1>6. CASE /\ exports' = QueueExport(h)
           /\ buffer' = DeleteRows(f, h)
           /\ NextGroup(p, WithoutGroup(f), DeleteRows(f, h), QueueExport(h), alarm)
           /\ exportRaced' = exportRaced \cup
                  {j \in {h} : \E q \in Procs \ {p} : j \in DOMAIN flusher[q].listed}
  <2>1. /\ buffer' \in [Chunks -> SUBSET Points] /\ exports' \in Entries
        /\ exportRaced' \subseteq Hours
        /\ \A c \in Chunks : buffer'[c] \subseteq buffer[c]
        /\ ObjectsOK' /\ NothingLostUnlessRaced' /\ ExportNotForgotten'
        /\ \A q \in Procs, k \in FlusherType :
               k = flusher[q] /\ q # p /\ ProcOK(k) => SendingOK(k)'
    BY <1>1, <1>2, <1>3, <1>6, DeleteStore
  <2>2. PICK w : w = WithoutGroup(f)
    OBVIOUS
  <2>3. w \in FlusherType /\ w.rows = f.rows /\ w.todo \subseteq f.todo
    BY <1>4, <2>2 DEF WithoutGroup, FlusherType
  <2>4. QueueExport(h) \in Entries
    BY <1>6, <2>1
  <2>5. MovesOn(p, w) /\ alarm' \in BOOLEAN
    BY <1>6, <2>2, <2>3, <2>4, InvFacts, NextGroupMoves
  <2>6. PICK g : flusher' = [flusher EXCEPT ![p] = g] /\ GoesOn(g, w)
    BY <2>5 DEF MovesOn
  <2>7. /\ g \in FlusherType /\ ProcOK(g)' /\ g.todo \subseteq flusher[p].todo
        /\ g.todo # {} => g.rows = flusher[p].rows
    BY <1>1, <1>3, <2>1, <2>3, <2>6, MovesOnProc
  <2>8. /\ archive' \in [Hours -> SUBSET Points] /\ exported' \subseteq Points
        /\ exportRaced \subseteq exportRaced' /\ UNCHANGED <<completed, stored, raced, restarts>>
    BY <1>3, <1>6, InvFacts
  <2>9. ASSUME NEW q \in Procs \ {p}, NEW k \in FlusherType, k = flusher[q], ProcOK(k)
        PROVE  /\ SendingOK(k)'
               /\ k.at \in {"put", "head", "readback"} /\ Least(k.todo) \notin raced =>
                     /\ archive[Least(k.todo)] \subseteq archive'[Least(k.todo)]
                     /\ archive'[Least(k.todo)] \subseteq
                            archive[Least(k.todo)] \cup Snapshot(k, Least(k.todo))
    BY <1>3, <2>1, <2>9
  <2> QED BY <2>1, <2>5, <2>6, <2>7, <2>8, <2>9, StepKeeps
<1>7. \/ GroupFailed(p) /\ UNCHANGED <<storage, exportRaced>>
      \/ /\ exports' = QueueExport(h)
         /\ buffer' = DeleteRows(f, h)
         /\ NextGroup(p, WithoutGroup(f), DeleteRows(f, h), QueueExport(h), alarm)
         /\ exportRaced' = exportRaced \cup
                {j \in {h} : \E q \in Procs \ {p} : j \in DOMAIN flusher[q].listed}
  BY <1>1, <1>2, Zenon DEF FlushReadback
<1> QED BY <1>5, <1>6, <1>7

\* An export step of p: an entry leaves the queue only when every point of its
\* object was sent, given up, or is still buffered.
LEMMA ExportStepKeeps ==
  ASSUME Inv, NEW p \in Procs, flusher[p].at \in {"export", "send"},
         NEW f \in FlusherType, f.rows = flusher[p].rows, f.todo = {},
         DOMAIN f.listed # {}, NEW e \in Entries, NextExport(p, f, e),
         exported \subseteq exported', exported' \subseteq Points,
         UNCHANGED <<buffer, archive, completed, stored, raced, exportRaced, restarts>>,
         \A h \in DOMAIN exports \ DOMAIN e : h \notin raced \cup exportRaced =>
             \A x \in archive[h] : x \in exported' \cup buffer[ChunkOf[x]]
  PROVE  Inv'
<1>1. MovesOn(p, f) /\ alarm' \in BOOLEAN
  BY InvFacts, NextExportMoves
<1>2. PICK g : flusher' = [flusher EXCEPT ![p] = g] /\ GoesOn(g, f)
  BY <1>1 DEF MovesOn
<1>3. \A c \in Chunks : buffer'[c] \subseteq buffer[c]
  OBVIOUS
<1>4. /\ g \in FlusherType /\ ProcOK(g)' /\ g.todo \subseteq flusher[p].todo
      /\ g.todo # {} => g.rows = flusher[p].rows
  BY <1>2, <1>3, MovesOnProc
<1>5. exports' = e
  BY DEF NextExport
<1>6. ObjectsOK' /\ NothingLostUnlessRaced'
  BY DEF Inv, ObjectsOK, NothingLostUnlessRaced, Kept
<1>7. ExportNotForgotten'
  BY <1>5 DEF Inv, ExportNotForgotten
<1>8. ASSUME NEW q \in Procs \ {p}, NEW k \in FlusherType, k = flusher[q], ProcOK(k)
      PROVE  /\ SendingOK(k)'
             /\ k.at \in {"put", "head", "readback"} /\ Least(k.todo) \notin raced =>
                   /\ archive[Least(k.todo)] \subseteq archive'[Least(k.todo)]
                   /\ archive'[Least(k.todo)] \subseteq
                          archive[Least(k.todo)] \cup Snapshot(k, Least(k.todo))
  <2>1. SendingOK(k)'
    BY <1>8 DEF ProcOK, SendingOK
  <2> QED BY <2>1
<1>9. /\ buffer' \in [Chunks -> SUBSET Points] /\ archive' \in [Hours -> SUBSET Points]
      /\ exportRaced' = exportRaced /\ exportRaced' \subseteq Hours
  BY InvFacts
<1> QED BY <1>1, <1>2, <1>3, <1>4, <1>5, <1>6, <1>7, <1>8, <1>9, StepKeeps

LEMMA ExportFailedKeeps ==
  ASSUME Inv, NEW p \in Procs, flusher[p].at \in {"export", "send"}, NEW sent \in SUBSET Points,
         exported \subseteq sent,
         ExportFailed(p, archive[Least(DOMAIN flusher[p].listed)], sent),
         UNCHANGED <<buffer, archive, completed, stored, raced, exportRaced, restarts>>
  PROVE  Inv'
<1>1. PICK f : f = flusher[p]
  OBVIOUS
<1>2. PICK h : h = Least(DOMAIN f.listed)
  OBVIOUS
<1>3. /\ f \in FlusherType /\ ProcOK(f) /\ f.at \in {"export", "send"}
      /\ f.todo = {} /\ DOMAIN f.listed # {} /\ h \in Hours /\ h \in DOMAIN f.listed
  BY <1>1, <1>2, InvFacts, HeadHour DEF ProcOK, PhaseOK, InGroups
<1>4. /\ f.listed \in Entries /\ f.listed[h] \in 0..(MaxAttempts - 1)
  BY <1>3, EntriesMap DEF FlusherType
<1>5. /\ exports \in Entries /\ exported \subseteq Points /\ archive[h] \subseteq Points
  BY <1>3, InvFacts
<1>6. CASE AttemptLimit(f.listed[h])
  <2>1. exported' = sent \cup archive[h] /\ NextExport(p, f, Drop(exports, h))
    BY <1>1, <1>2, <1>6, Zenon DEF ExportFailed
  <2>2. Drop(exports, h) \in Entries /\ DOMAIN Drop(exports, h) = DOMAIN exports \ {h}
    BY <1>5, EntriesDrop
  <2> QED BY <1>1, <1>3, <1>5, <2>1, <2>2, ExportStepKeeps
<1>7. CASE ~AttemptLimit(f.listed[h])
  <2> DEFINE n == f.listed[h] + 1
  <2>1. /\ exported' = sent
        /\ NextExport(p, [f EXCEPT !.retry = TRUE], PutEntry(exports, h, n))
    BY <1>1, <1>2, <1>7, Zenon DEF ExportFailed
  <2>2. n \in 0..(MaxAttempts - 1)
    BY <1>4, <1>7, ExportAssumption DEF AttemptLimit
  <2> HIDE DEF n
  <2>3. /\ PutEntry(exports, h, n) \in Entries
        /\ DOMAIN PutEntry(exports, h, n) = DOMAIN exports \cup {h}
    BY <1>3, <1>5, <2>2, EntriesPut
  <2>4. PICK k : k = [f EXCEPT !.retry = TRUE]
    OBVIOUS
  <2>5. k \in FlusherType /\ k.rows = f.rows /\ k.todo = {} /\ DOMAIN k.listed # {}
    BY <1>3, <2>4 DEF FlusherType
  <2>6. NextExport(p, k, PutEntry(exports, h, n))
    BY <2>1, <2>4
  <2> QED BY <1>1, <1>3, <1>5, <2>1, <2>3, <2>5, <2>6, ExportStepKeeps
<1> QED BY <1>6, <1>7

LEMMA ExportGetKeeps == ASSUME Inv, NEW p \in Procs, ExportGet(p) PROVE Inv'
<1>1. PICK f : f = flusher[p]
  OBVIOUS
<1>2. PICK h : h = Least(DOMAIN f.listed)
  OBVIOUS
<1>3. /\ f.at = "export"
      /\ UNCHANGED <<buffer, archive, completed, stored, raced, exportRaced, restarts>>
  BY <1>1 DEF ExportGet
<1>4. /\ f \in FlusherType /\ ProcOK(f) /\ f.todo = {} /\ DOMAIN f.listed # {} /\ h \in Hours
  BY <1>1, <1>2, <1>3, InvFacts, HeadHour DEF ProcOK, PhaseOK, InGroups
<1>5. CASE /\ flusher' = [flusher EXCEPT ![p] = [f EXCEPT !.at = "send", !.sending = archive[h]]]
           /\ UNCHANGED <<alarm, exports, exported>>
  <2>1. PICK g : g = [f EXCEPT !.at = "send", !.sending = archive[h]]
    OBVIOUS
  <2>2. /\ g \in FlusherType /\ g.at = "send" /\ g.todo = {} /\ g.rows = f.rows
        /\ g.listed = f.listed /\ g.sending = archive[h]
    <3>1. archive[h] \subseteq Points
      BY <1>4, InvFacts
    <3> QED BY <1>4, <2>1, <3>1 DEF FlusherType
  <2>3. PhaseOK(g)' /\ ReadOK(g)' /\ SeesRows(g)' /\ ObjectOf(g)'
    BY <1>3, <1>4, <2>2 DEF ProcOK, PhaseOK, InGroups, ReadOK, SeesRows, ObjectOf
  <2>4. SendingOK(g)'
    BY <1>2, <1>3, <2>2 DEF SendingOK
  <2>5. UNCHANGED <<storage, archive, completed, history>>
    BY <1>3, <1>5 DEF storage, history
  <2>6. flusher' = [flusher EXCEPT ![p] = g] /\ alarm' \in BOOLEAN
    BY <1>5, <2>1, InvFacts
  <2> QED BY <2>2, <2>3, <2>4, <2>5, <2>6, LocalStepKeeps DEF ProcOK
<1>6. CASE archive[h] = {} /\ NextExport(p, f, Drop(exports, h)) /\ exported' = exported
  <2>1. Drop(exports, h) \in Entries /\ DOMAIN Drop(exports, h) = DOMAIN exports \ {h}
    BY InvFacts, EntriesDrop
  <2>2. exported' \subseteq Points
    BY <1>6, InvFacts
  <2> QED BY <1>1, <1>3, <1>4, <1>6, <2>1, <2>2, ExportStepKeeps
<1>7. CASE ExportFailed(p, archive[h], exported)
  BY <1>1, <1>2, <1>3, <1>7, InvFacts, ExportFailedKeeps
<1>8. \/ /\ flusher' = [flusher EXCEPT ![p] = [f EXCEPT !.at = "send", !.sending = archive[h]]]
         /\ UNCHANGED <<alarm, exports, exported>>
      \/ archive[h] = {} /\ NextExport(p, f, Drop(exports, h)) /\ exported' = exported
      \/ ExportFailed(p, archive[h], exported)
  BY <1>1, <1>2, Zenon DEF ExportGet
<1> QED BY <1>5, <1>6, <1>7, <1>8

LEMMA ExportSendKeeps == ASSUME Inv, NEW p \in Procs, ExportSend(p) PROVE Inv'
<1>1. PICK f : f = flusher[p]
  OBVIOUS
<1>2. PICK h : h = Least(DOMAIN f.listed)
  OBVIOUS
<1>3. /\ f.at = "send"
      /\ UNCHANGED <<buffer, archive, completed, stored, raced, exportRaced, restarts>>
  BY <1>1 DEF ExportSend
<1>4. /\ f \in FlusherType /\ ProcOK(f) /\ f.todo = {} /\ DOMAIN f.listed # {} /\ h \in Hours
      /\ f.sending \subseteq Points
  BY <1>1, <1>2, <1>3, InvFacts, HeadHour DEF ProcOK, PhaseOK, InGroups, FlusherType
<1>5. CASE exported' = exported \cup f.sending /\ NextExport(p, f, Drop(exports, h))
  <2>1. Drop(exports, h) \in Entries /\ DOMAIN Drop(exports, h) = DOMAIN exports \ {h}
    BY InvFacts, EntriesDrop
  <2>2. exported' \subseteq Points /\ exported \subseteq exported'
    BY <1>4, <1>5, InvFacts
  <2>3. h \notin raced \cup exportRaced =>
            \A x \in archive[h] : x \in exported' \cup buffer[ChunkOf[x]]
    BY <1>2, <1>3, <1>4, <1>5 DEF ProcOK, SendingOK
  <2> QED BY <1>1, <1>3, <1>4, <1>5, <2>1, <2>2, <2>3, ExportStepKeeps
<1>6. CASE \E sent \in {exported, exported \cup f.sending} : ExportFailed(p, archive[h], sent)
  <2>1. PICK sent \in {exported, exported \cup f.sending} : ExportFailed(p, archive[h], sent)
    BY <1>6
  <2>2. sent \in SUBSET Points /\ exported \subseteq sent
    BY <1>4, InvFacts
  <2> QED BY <1>1, <1>2, <1>3, <2>1, <2>2, ExportFailedKeeps
<1>7. \/ exported' = exported \cup f.sending /\ NextExport(p, f, Drop(exports, h))
      \/ \E sent \in {exported, exported \cup f.sending} : ExportFailed(p, archive[h], sent)
  BY <1>1, <1>2, Zenon DEF ExportSend
<1> QED BY <1>5, <1>6, <1>7

LEMMA IdleProc == ProcOK(Idle)
<1>1. ReadOK(Idle)
  BY IdleTyped DEF ReadOK
<1> QED BY <1>1, IdleTyped DEF ProcOK, PhaseOK, InGroups, SeesRows, ObjectOf, SendingOK

LEMMA InitInv == Init => Inv
<1> SUFFICES ASSUME Init PROVE Inv
  OBVIOUS
<1>1. TypeOK
  <2>1. flusher \in [Procs -> FlusherType]
    BY IdleTyped DEF Init
  <2>2. exports \in Entries
    BY EntriesEmpty DEF Init
  <2>3. restarts \in 0..MaxRestarts
    BY ExportAssumption DEF Init
  <2>4. buffer \in [Chunks -> SUBSET Points] /\ archive \in [Hours -> SUBSET Points]
    BY DEF Init
  <2> QED BY <2>1, <2>2, <2>3, <2>4 DEF Init, TypeOK
<1>2. \A p \in Procs : flusher[p] = Idle
  BY DEF Init
<1>3. \A p \in Procs : ProcOK(flusher[p])
  BY <1>2, IdleProc DEF ProcOK, PhaseOK, InGroups, ReadOK, SeesRows, ObjectOf, SendingOK
<1>4. \A p, q \in Procs : SameRows(flusher[p], flusher[q])
  BY <1>2 DEF SameRows
<1>5. RowsOK /\ ObjectsOK /\ NothingLostUnlessRaced /\ ExportNotForgotten
  BY DEF Init, RowsOK, ObjectsOK, NothingLostUnlessRaced, ExportNotForgotten
<1> QED BY <1>1, <1>3, <1>4, <1>5 DEF Inv

LEMMA RestartKeeps == ASSUME Inv, Restart PROVE Inv'
<1>1. /\ flusher' = [p \in Procs |-> Idle] /\ restarts' = restarts + 1 /\ restarts < MaxRestarts
      /\ UNCHANGED <<buffer, exports, archive, completed, stored, raced, exported, exportRaced>>
  BY DEF Restart, storage
<1>2. alarm' \in BOOLEAN
  BY Zenon DEF Restart
<1>3. RowsOK' /\ ObjectsOK' /\ NothingLostUnlessRaced' /\ ExportNotForgotten'
  BY <1>1 DEF Inv, RowsOK, ObjectsOK, NothingLostUnlessRaced, ExportNotForgotten, Kept
<1>4. (\A p \in Procs : ProcOK(flusher[p]))'
  <2> SUFFICES ASSUME NEW p \in Procs PROVE ProcOK(flusher[p])'
    OBVIOUS
  <2>1. flusher'[p] = Idle
    BY <1>1
  <2> QED BY <2>1, IdleTyped DEF ProcOK, PhaseOK, InGroups, ReadOK, SeesRows, ObjectOf, SendingOK
<1>5. (\A p, q \in Procs : SameRows(flusher[p], flusher[q]))'
  BY <1>1 DEF SameRows
<1>6. TypeOK'
  <2>1. restarts' \in 0..MaxRestarts
    BY <1>1, InvFacts, ExportAssumption
  <2>2. flusher' \in [Procs -> FlusherType]
    BY <1>1, IdleTyped
  <2> QED BY <1>1, <1>2, <1>3, <2>1, <2>2, InvFacts, StoreTyped DEF TypeOK
<1> QED BY <1>3, <1>4, <1>5, <1>6 DEF Inv

\* A step that leaves rows, objects, entries and processes as they are.
LEMMA QuietStepKeeps ==
  ASSUME Inv, UNCHANGED <<storage, archive, flusher, history>>,
         alarm' \in BOOLEAN, completed' \subseteq Hours
  PROVE  Inv'
<1>1. UNCHANGED <<buffer, exports, archive, flusher, stored, raced, exported, exportRaced,
                  restarts>>
  BY DEF storage, history
<1>2. TypeOK'
  BY <1>1, InvFacts DEF Inv, TypeOK
<1>3. RowsOK' /\ ObjectsOK' /\ NothingLostUnlessRaced' /\ ExportNotForgotten'
  BY <1>1 DEF Inv, RowsOK, ObjectsOK, NothingLostUnlessRaced, ExportNotForgotten, Kept
<1>4. (\A p \in Procs : ProcOK(flusher[p]))'
  <2> SUFFICES ASSUME NEW p \in Procs PROVE ProcOK(flusher[p])'
    OBVIOUS
  <2>1. ProcOK(flusher[p])
    BY InvFacts
  <2> QED
    BY <1>1, <2>1 DEF ProcOK, PhaseOK, ReadOK, SeesRows, ObjectOf, SendingOK
<1>5. (\A p, q \in Procs : SameRows(flusher[p], flusher[q]))'
  BY <1>1, InvFacts DEF SameRows
<1> QED BY <1>2, <1>3, <1>4, <1>5 DEF Inv

LEMMA NextInv == Inv /\ [Next]_vars => Inv'
<1> SUFFICES ASSUME Inv, [Next]_vars PROVE Inv'
  OBVIOUS
<1>1. CASE \E p \in Handlers, batch \in SUBSET Points \ {{}} : HttpAppend(p, batch)
  BY <1>1, HttpAppendKeeps
<1>2. CASE \E batch \in SUBSET Points : AlarmDrain(batch)
  BY <1>2, AlarmDrainKeeps
<1>3. CASE AlarmFlush
  BY <1>3, AlarmFlushKeeps
<1>4. CASE ReportArrives
  <2>1. UNCHANGED <<storage, archive, flusher, history>> /\ alarm' \in BOOLEAN
        /\ completed' \subseteq Hours
    BY <1>4, InvFacts DEF ReportArrives
  <2> QED BY <2>1, QuietStepKeeps
<1>5. CASE HourCompletes
  <2>1. Hours \ completed \in SUBSET Hours /\ Hours \ completed # {}
    BY <1>5, InvFacts DEF HourCompletes
  <2>2. completed' \subseteq Hours
    BY <1>5, <2>1, LeastIn, InvFacts DEF HourCompletes
  <2>3. UNCHANGED <<storage, archive, flusher, history>> /\ alarm' \in BOOLEAN
    BY <1>5, InvFacts DEF HourCompletes
  <2> QED BY <2>2, <2>3, QuietStepKeeps
<1>6. CASE \E p \in Procs : FlushStep(p)
  BY <1>6, FlushGetKeeps, FlushPutKeeps, FlushHeadKeeps, FlushReadbackKeeps, ExportGetKeeps,
     ExportSendKeeps DEF FlushStep
<1>7. CASE Restart
  BY <1>7, RestartKeeps
<1>8. CASE UNCHANGED vars
  <2>1. UNCHANGED <<storage, archive, flusher, history>> /\ alarm' \in BOOLEAN
        /\ completed' \subseteq Hours
    BY <1>8, InvFacts DEF vars
  <2> QED BY <2>1, QuietStepKeeps
<1> QED BY <1>1, <1>2, <1>3, <1>4, <1>5, <1>6, <1>7, <1>8 DEF Next

-----------------------------------------------------------------------------
(* The theorems.                                                           *)

\* Rows, objects, export entries and the progress of every process keep their
\* types, and an entry is dropped before it counts the maximal attempts
\* (flushCompletedHours, flushPendingExports).
THEOREM TypeCorrect == Spec => []TypeOK
<1>1. Inv => TypeOK
  BY DEF Inv
<1> QED BY <1>1, InitInv, NextInv, PTL DEF Spec

\* A stored point is in its row or in its R2 object, whatever request fails and
\* whenever the object restarts, unless its hour was flushed in a race
\* (flushHour, the deletion of the keys in flushCompletedHours).
THEOREM NothingLost == Spec => []NothingLostUnlessRaced
<1>1. Inv => NothingLostUnlessRaced
  BY DEF Inv
<1> QED BY <1>1, InitInv, NextInv, PTL DEF Spec

\* An archived point is exported, queued, buffered or given up, unless its hour
\* was flushed or queued in a race (queueExport, flushPendingExports).
THEOREM ExportsAreKept == Spec => []ExportNotForgotten
<1>1. Inv => ExportNotForgotten
  BY DEF Inv
<1> QED BY <1>1, InitInv, NextInv, PTL DEF Spec

\* Which steps write objects, and that nothing stored or raced is forgotten.
LEMMA StepFacts ==
  ASSUME [Next]_vars
  PROVE  /\ stored \subseteq stored' /\ raced \subseteq raced'
         /\ archive' = archive \/ \E p \in Procs : FlushPut(p)
<1>1. CASE \E p \in Handlers, batch \in SUBSET Points \ {{}} : HttpAppend(p, batch)
  BY <1>1 DEF HttpAppend
<1>2. CASE \E batch \in SUBSET Points : AlarmDrain(batch)
  BY <1>2 DEF AlarmDrain
<1>3. CASE AlarmFlush \/ ReportArrives \/ HourCompletes \/ Restart \/ UNCHANGED vars
  BY <1>3 DEF AlarmFlush, ReportArrives, HourCompletes, Restart, vars, history
<1>4. CASE \E p \in Procs : FlushStep(p)
  BY <1>4 DEF FlushStep, FlushGet, FlushPut, FlushHead, FlushReadback, ExportGet, ExportSend,
     history
<1> QED BY <1>1, <1>2, <1>3, <1>4 DEF Next

LEMMA PutGrows ==
  ASSUME Inv, NEW p \in Procs, FlushPut(p)
  PROVE  /\ \A h \in Hours : h \notin raced => archive[h] \subseteq archive'[h]
         /\ stored' = stored
<1>1. /\ flusher[p].at = "put"
      /\ archive' \in {archive, [archive EXCEPT ![Least(flusher[p].todo)] = flusher[p].object]}
      /\ UNCHANGED <<buffer, exports, stored, raced, exported, exportRaced>>
  BY Zenon DEF FlushPut, storage, history
<1> QED BY <1>1, PutStore

\* Every step of the buffer is a step of the store.
LEMMA StoreStep == Inv /\ Inv' /\ [Next]_vars => Store!Next
<1> SUFFICES ASSUME Inv, Inv', [Next]_vars PROVE Store!Next
  OBVIOUS
<1>1. /\ stored \subseteq stored' /\ raced \subseteq raced'
      /\ archive' = archive \/ \E p \in Procs : FlushPut(p)
  BY StepFacts
<1>2. /\ stored \subseteq Points /\ stored' \subseteq Points
      /\ NothingLostUnlessRaced /\ NothingLostUnlessRaced'
      /\ \A h \in Hours : archive[h] \subseteq PointsOf(h) \cap stored
      /\ \A h \in Hours : archive'[h] \subseteq PointsOf(h) \cap stored'
  BY DEF Inv, TypeOK, ObjectsOK
<1>3. AtRisk \subseteq AtRisk'
  BY <1>1 DEF AtRisk
<1>4. \A x \in stored' : Kept(x)' \/ x \in AtRisk'
  BY <1>2 DEF NothingLostUnlessRaced, AtRisk
<1>5. \A h \in Hours : h \in raced' \/ archive[h] \subseteq archive'[h]
  BY <1>1, PutGrows
<1>6. ASSUME NEW h \in Hours, NEW x \in archive[h]
      PROVE  x \in archive'[h] \/ x \in AtRisk'
  BY <1>2, <1>5, <1>6 DEF AtRisk, PointsOf
<1>7. ASSUME NEW h \in Hours, NEW x \in archive'[h], x \notin AtRisk'
      PROVE  x \in archive[h] \/ (x \in stored /\ Kept(x))
  <2>1. x \in Points /\ PHour(x) = h /\ h \notin raced' /\ x \in stored'
    BY <1>2, <1>7 DEF AtRisk, PointsOf
  <2>2. CASE archive' = archive
    <3>1. archive'[h] = archive[h]
      BY <2>2
    <3>2. x \in archive[h]
      BY <1>7, <3>1
    <3> QED BY <3>2
  <2>3. CASE \E p \in Procs : FlushPut(p)
    <3>1. stored' = stored
      BY <2>3, PutGrows
    <3> QED BY <1>1, <1>2, <2>1, <3>1 DEF NothingLostUnlessRaced
  <2> QED BY <1>1, <2>2, <2>3
<1> QED BY <1>1, <1>3, <1>4, <1>6, <1>7 DEF Store!Next

\* The buffer with its R2 objects implements the abstract store: an append, a
\* flush, a failing request or a restart loses no point and takes none back
\* from the archive, but for the hours flushed in a race (append,
\* flushCompletedHours, flushHour).
THEOREM StoreImplemented == Spec => ImplementsStore
<1>1. Init => Store!Init
  BY DEF Init, Store!Init, AtRisk
<1>2. Inv /\ Inv' /\ [Next]_vars => Store!Next
  BY StoreStep
<1> QED BY <1>1, <1>2, InitInv, NextInv, PTL DEF Spec, ImplementsStore, Store!Spec
============================================================================
