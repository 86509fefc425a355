---------------------------- MODULE Alerts_proofs ----------------------------
(* Theorems about Alerts, for every value of its constants.                *)
EXTENDS Alerts, TLAPS

(* The types of what a run holds; TypeOK is not inductive without them.    *)

Conditions == {"bad", "good", "unknown", "gone"}
NoticeSet == [rule : Rules, of : {"bad", "good"}, change : 0 .. MaxFlips, nth : 0 .. MaxSent]
Entries == [to : Channels, items : (SUBSET NoticeSet) \ {{}},
            tries : 0 .. (MaxAttempts - 1), wait : 0 .. MaxDelay]
Offs == [fails : 0 .. MaxAttempts, wait : 0 .. MaxDelay]
Rows == [active : BOOLEAN, since : 0 .. Repeat, sent : 0 .. MaxSent]
Steps == {"idle", "load", "drain", "send", "save backoff", "save queue"}
RunSet == [at : Steps, to : SUBSET Channels, todo : SUBSET NoticeSet, silent : SUBSET Rules,
           batch : SUBSET NoticeSet, left : SUBSET Channels, due : Seq(Entries),
           queue : Seq(Entries), off : [Channels -> Offs], changed : BOOLEAN, raced : BOOLEAN]

Typed ==
    /\ cond \in [Rules -> [is : Conditions, change : 0 .. MaxFlips]]
    /\ health \in [Channels -> {"ok", "failing", "off"}]
    /\ row \in [Rules -> Rows]
    /\ pending \in Seq(Entries) /\ Len(pending) <= QueueMax
    /\ backoff \in [Channels -> Offs]
    /\ run \in [Runs -> RunSet]
    /\ flips \in 0 .. MaxFlips

\* What a run at each step holds: its two queues never exceed the stored one's
\* bound, and only a run that drains still has entries to retry.
Fits(x) ==
    /\ x.left \subseteq x.to
    /\ Len(x.due) + Len(x.queue) <= QueueMax
    /\ x.at \notin {"drain"} => x.due = <<>>
    /\ x.at \in {"idle", "load"} => x.queue = <<>>
    /\ x.at = "send" => x.batch # {}

Shape == Typed /\ \A p \in Runs : Fits(run[p])

-----------------------------------------------------------------------------
(* Delays and rows.                                                        *)

LEMMA Bounds ==
    /\ MaxMessages \in Nat /\ QueueMax \in Nat \ {0} /\ MaxDelay \in Nat \ {0}
    /\ MaxAttempts \in Nat \ {0} /\ MaxSent \in Nat \ {0} /\ Repeat \in Nat /\ MaxFlips \in Nat
  BY BoundsAssumption

\* A delay lies between one tick and the limit.
LEMMA DelayType == ASSUME NEW n PROVE Delay(n) \in 0 .. MaxDelay
<1> DEFINE d == 2 ^ (n - 1)
<1>1. Delay(n) = IF d \in 1 .. MaxDelay THEN d ELSE MaxDelay
  BY DEF Delay
<1> HIDE DEF d
<1> QED
  BY <1>1, Bounds

LEMMA NoBackoffType == NoBackoff \in Offs
<1>1. 0 \in 0 .. MaxAttempts /\ 0 \in 0 .. MaxDelay
  BY Bounds
<1> QED
  BY <1>1 DEF NoBackoff, Offs

LEMMA FailedType ==
    ASSUME NEW off \in [Channels -> Offs], NEW c \in Channels
    PROVE  Failed(off, c) \in [Channels -> Offs]
<1> DEFINE fails == IF off[c].fails < MaxAttempts THEN off[c].fails + 1 ELSE off[c].fails
<1>1. fails \in 0 .. MaxAttempts
  BY Bounds DEF Offs
<1>2. Failed(off, c) = [off EXCEPT ![c] = [fails |-> fails, wait |-> Delay(fails)]]
  BY DEF Failed
<1> HIDE DEF fails
<1>3. [fails |-> fails, wait |-> Delay(fails)] \in Offs
  BY <1>1, DelayType DEF Offs
<1> QED
  BY <1>2, <1>3

LEMMA WorkedType ==
    ASSUME NEW off \in [Channels -> Offs], NEW c
    PROVE  Worked(off, c) \in [Channels -> Offs]
  BY NoBackoffType DEF Worked

LEMMA RowType ==
    ASSUME NEW x \in Rows
    PROVE  Resolved(x) \in Rows /\ Activated(x) \in Rows
<1>1. x.sent \in 0 .. MaxSent /\ x.since \in 0 .. Repeat
  BY DEF Rows
<1>2. (IF x.sent < MaxSent THEN x.sent + 1 ELSE x.sent) \in 0 .. MaxSent
  BY <1>1, Bounds
<1>3. 0 \in 0 .. MaxSent /\ 0 \in 0 .. Repeat
  BY Bounds
<1>4. Resolved(x) \in Rows
  BY <1>3 DEF Rows, Resolved
<1>5. Activated(x) \in Rows
  BY <1>2, <1>3 DEF Rows, Activated
<1> QED
  BY <1>4, <1>5

LEMMA NoticeType ==
    ASSUME Typed, NEW r \in Rules, ShouldNote(r)
    PROVE  Notice(r) \in NoticeSet
<1>1. /\ cond[r].is \in {"bad", "good"} /\ cond[r].change \in 0 .. MaxFlips
      /\ row[r].sent \in 0 .. MaxSent
  BY DEF Typed, ShouldNote, Rows
<1>2. 0 \in 0 .. MaxSent
  BY Bounds
<1> QED
  BY <1>1, <1>2 DEF Notice, NoticeSet

LEMMA IdleType == Idle \in RunSet /\ Fits(Idle)
<1>2. [c \in Channels |-> NoBackoff] \in [Channels -> Offs]
  BY NoBackoffType
<1>3. <<>> \in Seq(Entries) /\ Len(<<>>) + Len(<<>>) <= QueueMax
  BY Bounds
<1> QED
  BY <1>2, <1>3 DEF Idle, RunSet, Steps, Fits

-----------------------------------------------------------------------------
(* What a queue holds.                                                     *)

Pairs(e) == {e.to} \X e.items

LEMMA InQueueDef ==
    ASSUME NEW q, NEW d
    PROVE  d \in InQueue(q) <=> \E i \in DOMAIN q : d \in Pairs(q[i])
  BY DEF InQueue, Pairs

LEMMA EmptyQueue == InQueue(<<>>) = {}
  BY InQueueDef

\* One entry goes from a queue of a entries to one of b, or is dropped.
LEMMA OneMoved ==
    ASSUME NEW a \in Nat, NEW b \in Nat, NEW m \in Nat, NEW c, NEW d,
           a + b <= m, c = a - 1, d = b \/ d = b + 1
    PROVE  c + d <= m
  OBVIOUS

\* What is appended is in the queue.
LEMMA InAppend ==
    ASSUME NEW q \in Seq(Entries), NEW e \in Entries
    PROVE  /\ Append(q, e) \in Seq(Entries)
           /\ InQueue(Append(q, e)) = InQueue(q) \cup Pairs(e)
<1>1. /\ Append(q, e) \in Seq(Entries) /\ DOMAIN q = 1 .. Len(q) /\ Len(q) \in Nat
      /\ DOMAIN Append(q, e) = 1 .. (Len(q) + 1)
      /\ Append(q, e)[Len(q) + 1] = e
      /\ \A i \in 1 .. Len(q) : Append(q, e)[i] = q[i]
  OBVIOUS
<1> DEFINE a == Append(q, e)
<1>2. \A i \in 1 .. (Len(q) + 1) : i \in 1 .. Len(q) \/ i = Len(q) + 1
  BY <1>1
<1>3. \A i \in 1 .. Len(q) : i \in 1 .. (Len(q) + 1)
  BY <1>1
<1>4. Len(q) + 1 \in 1 .. (Len(q) + 1)
  BY <1>1
<1> HIDE DEF a
<1>5. \A d : d \in InQueue(a) <=> d \in InQueue(q) \/ d \in Pairs(e)
  BY <1>1, <1>2, <1>3, <1>4, InQueueDef DEF a
<1> QED
  BY <1>1, <1>5 DEF a

\* A queue holds what its first entry holds and what the others hold.
LEMMA InTail ==
    ASSUME NEW q \in Seq(Entries), q # <<>>
    PROVE  /\ Head(q) \in Entries /\ Tail(q) \in Seq(Entries) /\ Len(Tail(q)) = Len(q) - 1
           /\ InQueue(q) = Pairs(Head(q)) \cup InQueue(Tail(q))
<1>1. /\ Head(q) \in Entries /\ Tail(q) \in Seq(Entries) /\ Len(Tail(q)) = Len(q) - 1
      /\ Len(q) \in Nat \ {0} /\ DOMAIN q = 1 .. Len(q) /\ Head(q) = q[1]
      /\ DOMAIN Tail(q) = 1 .. (Len(q) - 1)
      /\ \A i \in 1 .. (Len(q) - 1) : Tail(q)[i] = q[i + 1]
  OBVIOUS
<1> DEFINE t == Tail(q)
<1>2. \A i \in 1 .. Len(q) : i = 1 \/ (i - 1 \in 1 .. (Len(q) - 1) /\ (i - 1) + 1 = i)
  BY <1>1
<1>3. \A i \in 1 .. (Len(q) - 1) : i + 1 \in 1 .. Len(q)
  BY <1>1
<1>4. 1 \in 1 .. Len(q)
  BY <1>1
<1>5. DOMAIN t = 1 .. (Len(q) - 1) /\ \A i \in 1 .. (Len(q) - 1) : t[i] = q[i + 1]
  BY <1>1
<1> HIDE DEF t
<1>6. ASSUME NEW d, d \in InQueue(q) PROVE d \in Pairs(Head(q)) \/ d \in InQueue(t)
  <2>1. PICK i \in 1 .. Len(q) : d \in Pairs(q[i])
    BY <1>1, <1>6, InQueueDef
  <2>2. CASE i = 1
    BY <1>1, <2>1, <2>2
  <2>3. CASE i # 1
    <3>1. i - 1 \in 1 .. (Len(q) - 1) /\ (i - 1) + 1 = i
      BY <1>2, <2>3
    <3>2. t[i - 1] = q[i]
      BY <1>5, <3>1
    <3> QED
      BY <1>5, <2>1, <3>1, <3>2, InQueueDef
  <2> QED
    BY <2>2, <2>3
<1>7. ASSUME NEW d, d \in Pairs(Head(q)) \/ d \in InQueue(t) PROVE d \in InQueue(q)
  <2>1. CASE d \in Pairs(Head(q))
    BY <1>1, <1>4, <2>1, InQueueDef
  <2>2. CASE d \in InQueue(t)
    <3>1. PICK i \in 1 .. (Len(q) - 1) : d \in Pairs(t[i])
      BY <1>5, <2>2, InQueueDef
    <3> QED
      BY <1>1, <1>3, <1>5, <3>1, InQueueDef
  <2> QED
    BY <1>7, <2>1, <2>2
<1>8. InQueue(q) = Pairs(Head(q)) \cup InQueue(t)
  BY <1>6, <1>7
<1> QED
  BY <1>1, <1>8 DEF t

\* An entry is queued once; what a full queue gives up is Displaced.
LEMMA EnqueueKeeps ==
    ASSUME NEW q \in Seq(Entries), NEW e \in Entries, Len(q) <= QueueMax
    PROVE  /\ Enqueue(q, e) \in Seq(Entries) /\ Len(Enqueue(q, e)) <= QueueMax
           /\ InQueue(q) \subseteq InQueue(Enqueue(q, e)) \cup Displaced(q, e)
           /\ Pairs(e) \subseteq InQueue(Enqueue(q, e))
<1>1. CASE \E i \in DOMAIN q : q[i].to = e.to /\ q[i].items = e.items
  <2>1. Enqueue(q, e) = q
    BY <1>1 DEF Enqueue
  <2>2. Pairs(e) \subseteq InQueue(q)
    BY <1>1, InQueueDef DEF Pairs
  <2> QED
    BY <2>1, <2>2
<1>2. CASE ~(\E i \in DOMAIN q : q[i].to = e.to /\ q[i].items = e.items) /\ Len(q) >= QueueMax
  <2>1. Enqueue(q, e) = Append(Tail(q), e)
    BY <1>2 DEF Enqueue
  <2>2. q # <<>>
    BY <1>2, Bounds
  <2>3. Tail(q) \in Seq(Entries) /\ Len(Tail(q)) = Len(q) - 1
    BY <2>2, InTail
  <2>4. Len(Append(Tail(q), e)) <= QueueMax
    BY <2>3, Bounds
  <2> QED
    BY <2>1, <2>3, <2>4, InAppend DEF Displaced
<1>3. CASE ~(\E i \in DOMAIN q : q[i].to = e.to /\ q[i].items = e.items) /\ ~(Len(q) >= QueueMax)
  <2>1. Enqueue(q, e) = Append(q, e)
    BY <1>3 DEF Enqueue
  <2>2. Len(Append(q, e)) <= QueueMax
    BY <1>3, Bounds
  <2> QED
    BY <2>1, <2>2, InAppend
<1> QED
  BY <1>1, <1>2, <1>3

-----------------------------------------------------------------------------
(* The invariant behind CommittedIsAccounted.                              *)

\* Where a notice can be that is not lost without account.
Accounted == got \cup gone \cup InQueue(pending) \cup UNION {InHand(p) : p \in Runs}

\* Runs that overlap know it.
Alone == \A p, q \in Runs : (p # q /\ ~At(p, "idle") /\ ~At(q, "idle")) => run[p].raced

\* A run that is alone holds what is stored, or has settled it: it may put its
\* queue in the place of the stored one.
Held ==
    \A p \in Runs : (~At(p, "idle") /\ ~At(p, "load") /\ ~run[p].raced) =>
        InQueue(pending) \subseteq got \cup gone \cup InHand(p)

\* A run with nothing to save holds nothing that is not stored.
Untouched ==
    \A p \in Runs : ~run[p].changed => InHand(p) \subseteq got \cup gone \cup InQueue(pending)

\* The batch being sent is accounted for on the channels it has passed.
Passed ==
    \A p \in Runs : At(p, "send") =>
        (run[p].to \ run[p].left) \X run[p].batch \subseteq Accounted

Inv == CommittedIsAccounted /\ Alone /\ Held /\ Untouched /\ Passed

\* Inv is about the runs, the stored queue and what was owed and settled.
LEMMA SameInv ==
    ASSUME Inv, UNCHANGED <<pending, run, owed, got, gone>>
    PROVE  Inv'
<1>1. \A p \in Runs : InHand(p)' = InHand(p)
  BY DEF InHand, InQueue
<1>2. InQueue(pending)' = InQueue(pending)
  BY DEF InQueue
<1>3. Accounted' = Accounted
  BY <1>1, <1>2 DEF Accounted
<1>4. CommittedIsAccounted'
  BY <1>3 DEF Inv, CommittedIsAccounted, Accounted
<1>5. Alone'
  BY DEF Inv, Alone, At
<1>6. Held' /\ Untouched'
  BY <1>1, <1>2 DEF Inv, Held, Untouched, At
<1>7. Passed'
  BY <1>3 DEF Inv, Passed, At
<1> QED
  BY <1>4, <1>5, <1>6, <1>7 DEF Inv

LEMMA InAccounted ==
    ASSUME NEW p \in Runs
    PROVE  InHand(p) \subseteq Accounted
  BY DEF Accounted

\* A step of one run that leaves the stored queue alone.
LEMMA HandStep ==
    ASSUME Shape, Inv, NEW p \in Runs, ~At(p, "idle"),
           \A q \in Runs \ {p} : run'[q] = run[q],
           pending' = pending, got \subseteq got', gone \subseteq gone',
           InHand(p) \subseteq InHand(p)' \cup got' \cup gone' \cup InQueue(pending),
           At(p, "idle")' \/ (run[p].raced => run'[p].raced),
           At(p, "idle")' \/ run'[p].raced
              \/ InQueue(pending) \subseteq got' \cup gone' \cup InHand(p)',
           run'[p].changed \/ InHand(p)' \subseteq got' \cup gone' \cup InQueue(pending)
    PROVE  Accounted \subseteq Accounted' /\ Alone' /\ Held' /\ Untouched'
<1>1. \A q \in Runs \ {p} : InHand(q)' = InHand(q)
  BY DEF InHand
<1>2. Accounted \subseteq Accounted'
  BY <1>1 DEF Accounted
<1>3. Alone'
  BY DEF Inv, Alone, At
<1>4. \A q \in Runs \ {p} : At(q, "idle") \/ run[q].raced
  BY DEF Inv, Alone
<1>5. Held'
  BY <1>4 DEF Held, At
<1>6. Untouched'
  BY <1>1 DEF Inv, Untouched
<1> QED
  BY <1>2, <1>3, <1>5, <1>6

\* Such a step that commits nothing.
LEMMA HandKeeps ==
    ASSUME Shape, Inv, NEW p \in Runs, owed' = owed,
           \A q \in Runs \ {p} : run'[q] = run[q],
           Accounted \subseteq Accounted', Alone', Held', Untouched',
           At(p, "send")' =>
              (run'[p].to \ run'[p].left) \X run'[p].batch \subseteq Accounted'
    PROVE  Inv'
<1>1. CommittedIsAccounted'
  BY DEF Inv, CommittedIsAccounted, Accounted
<1>2. Passed'
  BY DEF Inv, Passed, At
<1> QED
  BY <1>1, <1>2 DEF Inv

-----------------------------------------------------------------------------
(* The steps of a run.                                                     *)

LEMMA InitInv == Init => Shape /\ Inv
<1> SUFFICES ASSUME Init PROVE Shape /\ Inv
  OBVIOUS
<1>1. run \in [Runs -> RunSet] /\ \A p \in Runs : run[p] = Idle /\ Fits(run[p])
  BY IdleType DEF Init
<1>2. pending \in Seq(Entries) /\ Len(pending) <= QueueMax
  BY Bounds DEF Init
<1>3. backoff \in [Channels -> Offs]
  BY NoBackoffType DEF Init
<1>4. row \in [Rules -> Rows]
  <2>1. [active |-> FALSE, since |-> 0, sent |-> 0] \in Rows
    BY Bounds DEF Rows
  <2> QED
    BY <2>1 DEF Init
<1>5. /\ cond \in [Rules -> [is : Conditions, change : 0 .. MaxFlips]]
      /\ health \in [Channels -> {"ok", "failing", "off"}] /\ flips \in 0 .. MaxFlips
  <2>1. 0 \in 0 .. MaxFlips
    BY Bounds
  <2>2. [is |-> "good", change |-> 0] \in [is : Conditions, change : 0 .. MaxFlips]
    BY <2>1 DEF Conditions
  <2> QED
    BY <2>1, <2>2 DEF Init
<1>6. Shape
  BY <1>1, <1>2, <1>3, <1>4, <1>5 DEF Shape, Typed
<1>7. /\ \A p \in Runs : run[p].at = "idle" /\ InHand(p) = {}
      /\ owed = {}
  BY <1>1, EmptyQueue DEF Init, Idle, InHand
<1>8. Inv
  BY <1>7 DEF Inv, CommittedIsAccounted, Alone, Held, Untouched, Passed, At
<1> QED
  BY <1>6, <1>8

LEMMA LoadKeeps ==
    ASSUME Shape, Inv, NEW p \in Runs, Load(p)
    PROVE  Shape' /\ Inv'
<1>1. /\ At(p, "load") /\ run[p] \in RunSet /\ Fits(run[p]) /\ run \in [Runs -> RunSet]
      /\ pending \in Seq(Entries) /\ Len(pending) <= QueueMax /\ backoff \in [Channels -> Offs]
      /\ row' = [r \in Rules |-> IF r \in run[p].silent THEN Resolved(row[r]) ELSE row[r]]
      /\ UNCHANGED <<world, pending, backoff, history>>
  BY DEF Load, Shape, Typed
<1>2. run[p].due = <<>> /\ run[p].queue = <<>> /\ InHand(p) = {}
  BY <1>1, EmptyQueue DEF Fits, At, InHand
<1>3. \/ run' = [run EXCEPT ![p].at = "drain", ![p].silent = {}, ![p].due = pending, ![p].off = backoff]
      \/ run' = [run EXCEPT ![p].at = "drain", ![p].silent = {}, ![p].off = backoff, ![p].raced = TRUE]
  BY DEF Load
<1>4. /\ run' \in [Runs -> RunSet]
      /\ \A q \in Runs \ {p} : run'[q] = run[q]
      /\ run'[p].at = "drain" /\ run'[p].queue = <<>>
      /\ run'[p].left = run[p].left /\ run'[p].to = run[p].to
      /\ \/ run'[p].due = pending /\ run'[p].raced = run[p].raced
         \/ run'[p].due = <<>> /\ run'[p].raced = TRUE
  <2>1. CASE run' = [run EXCEPT ![p].at = "drain", ![p].silent = {}, ![p].due = pending, ![p].off = backoff]
    <3>1. [run[p] EXCEPT !.at = "drain", !.silent = {}, !.due = pending, !.off = backoff] \in RunSet
      BY <1>1 DEF RunSet, Steps
    <3> QED
      BY <1>1, <1>2, <2>1, <3>1 DEF RunSet
  <2>2. CASE run' = [run EXCEPT ![p].at = "drain", ![p].silent = {}, ![p].off = backoff, ![p].raced = TRUE]
    <3>1. [run[p] EXCEPT !.at = "drain", !.silent = {}, !.off = backoff, !.raced = TRUE] \in RunSet
      BY <1>1 DEF RunSet, Steps
    <3> QED
      BY <1>1, <1>2, <2>2, <3>1 DEF RunSet
  <2> QED
    BY <1>3, <2>1, <2>2
<1>5. row' \in [Rules -> Rows]
  BY <1>1, RowType DEF Shape, Typed
<1>6. Fits(run'[p])
  <2>1. Len(<<>>) = 0 /\ Len(pending) \in Nat
    BY <1>1
  <2>2. Len(run'[p].due) + Len(run'[p].queue) <= QueueMax
    BY <1>1, <1>4, <2>1, Bounds
  <2> QED
    BY <1>1, <1>4, <2>2 DEF Fits
<1>7. Shape'
  BY <1>1, <1>4, <1>5, <1>6 DEF Shape, Typed, world
<1>8. /\ InQueue(pending) = InHand(p)' \/ (run'[p].raced = TRUE /\ InHand(p)' = {})
      /\ run[p].raced => run'[p].raced
  BY <1>4, EmptyQueue DEF InHand
<1>9. Accounted \subseteq Accounted' /\ Alone' /\ Held' /\ Untouched'
  BY <1>1, <1>2, <1>4, <1>8, HandStep DEF At, history
<1> QED
  BY <1>1, <1>4, <1>7, <1>9, HandKeeps DEF At, history

\* One entry leaves the due ones: it is settled, or queued again.
LEMMA DrainMoves ==
    ASSUME Shape, NEW p \in Runs, Drain(p)
    PROVE  LET e == Head(run[p].due)
           IN  \E x \in RunSet :
                 /\ run' = [run EXCEPT ![p] = x]
                 /\ x.due = Tail(run[p].due) /\ x.at = "drain" /\ x.to = run[p].to
                 /\ x.left = run[p].left /\ x.raced = run[p].raced
                 /\ x.todo = run[p].todo /\ x.batch = run[p].batch
                 /\ \/ /\ x.queue = run[p].queue /\ x.changed = TRUE
                       /\ Pairs(e) \subseteq got' \cup gone'
                       /\ got' = got \/ got' = got \cup Pairs(e)
                    \/ /\ x.queue = Append(run[p].queue, e) /\ x.changed = run[p].changed
                       /\ got' = got
                    \/ /\ x.queue = Append(run[p].queue, Retried(e)) /\ x.changed = TRUE
                       /\ Retried(e) \in Entries /\ got' = got
<1> DEFINE e == Head(run[p].due)
<1> DEFINE Moved(x) ==
        /\ run' = [run EXCEPT ![p] = x]
        /\ x.due = Tail(run[p].due) /\ x.at = "drain" /\ x.to = run[p].to
        /\ x.left = run[p].left /\ x.raced = run[p].raced
        /\ x.todo = run[p].todo /\ x.batch = run[p].batch
        /\ \/ /\ x.queue = run[p].queue /\ x.changed = TRUE
              /\ Pairs(e) \subseteq got' \cup gone'
              /\ got' = got \/ got' = got \cup Pairs(e)
           \/ /\ x.queue = Append(run[p].queue, e) /\ x.changed = run[p].changed
              /\ got' = got
           \/ /\ x.queue = Append(run[p].queue, Retried(e)) /\ x.changed = TRUE
              /\ Retried(e) \in Entries /\ got' = got
<1> SUFFICES \E x \in RunSet : Moved(x)
  OBVIOUS
<1>1. /\ run[p] \in RunSet /\ run \in [Runs -> RunSet] /\ run[p].at = "drain"
      /\ run[p].due \in Seq(Entries) /\ run[p].due # <<>> /\ run[p].queue \in Seq(Entries)
      /\ run[p].off \in [Channels -> Offs]
  BY DEF Drain, Shape, Typed, RunSet, At
<1>2. /\ e \in Entries /\ Tail(run[p].due) \in Seq(Entries) /\ e.to \in Channels
      /\ Append(run[p].queue, e) \in Seq(Entries)
  BY <1>1, InTail, InAppend DEF Entries
<1>3. Failed(run[p].off, e.to) \in [Channels -> Offs] /\ Worked(run[p].off, e.to) \in [Channels -> Offs]
  BY <1>1, <1>2, FailedType, WorkedType
<1>4. Pairs(e) = {e.to} \X e.items
  BY DEF Pairs
<1> DEFINE skip == [run EXCEPT ![p].due = Tail(@), ![p].changed = TRUE]
<1> HIDE DEF e
<1>5. CASE run' = skip /\ gone' = gone \cup ({e.to} \X e.items) /\ got' = got
  <2> DEFINE x == [run[p] EXCEPT !.due = Tail(@), !.changed = TRUE]
  <2>1. x \in RunSet /\ run' = [run EXCEPT ![p] = x]
    BY <1>1, <1>2, <1>5 DEF RunSet
  <2>2. Moved(x)
    BY <1>1, <1>4, <1>5, <2>1 DEF RunSet
  <2> QED
    BY <2>1, <2>2
<1>6. CASE run' = [run EXCEPT ![p].due = Tail(@), ![p].queue = Append(@, e)] /\ got' = got
  <2> DEFINE x == [run[p] EXCEPT !.due = Tail(@), !.queue = Append(@, e)]
  <2>1. x \in RunSet /\ run' = [run EXCEPT ![p] = x]
    BY <1>1, <1>2, <1>6 DEF RunSet
  <2>2. Moved(x)
    BY <1>1, <1>6, <2>1 DEF RunSet
  <2> QED
    BY <2>1, <2>2
<1>7. CASE run' = [skip EXCEPT ![p].off = Worked(@, e.to)] /\ got' = got \cup ({e.to} \X e.items)
  <2> DEFINE x == [run[p] EXCEPT !.due = Tail(@), !.changed = TRUE, !.off = Worked(@, e.to)]
  <2>1. x \in RunSet /\ run' = [run EXCEPT ![p] = x]
    BY <1>1, <1>2, <1>3, <1>7 DEF RunSet
  <2>2. Moved(x)
    BY <1>1, <1>4, <1>7, <2>1 DEF RunSet
  <2> QED
    BY <2>1, <2>2
<1>8. CASE /\ run' = [skip EXCEPT ![p].off = Failed(@, e.to)]
           /\ gone' = gone \cup ({e.to} \X e.items) /\ got' = got
  <2> DEFINE x == [run[p] EXCEPT !.due = Tail(@), !.changed = TRUE, !.off = Failed(@, e.to)]
  <2>1. x \in RunSet /\ run' = [run EXCEPT ![p] = x]
    BY <1>1, <1>2, <1>3, <1>8 DEF RunSet
  <2>2. Moved(x)
    BY <1>1, <1>4, <1>8, <2>1 DEF RunSet
  <2> QED
    BY <2>1, <2>2
<1>9. CASE /\ ~(Retried(e).tries >= MaxAttempts)
           /\ run' = [[run EXCEPT ![p].due = Tail(@), ![p].queue = Append(@, Retried(e))]
                         EXCEPT ![p].off = Failed(@, e.to), ![p].changed = TRUE]
           /\ got' = got
  <2>1. Retried(e) \in Entries
    <3>1. Retried(e) = [e EXCEPT !.tries = e.tries + 1, !.wait = Delay(e.tries + 1)]
      BY DEF Retried
    <3>2. Retried(e).tries = e.tries + 1
      BY <1>2, <3>1 DEF Entries
    <3>3. e.tries + 1 \in 0 .. (MaxAttempts - 1)
      <4>1. e.tries \in Nat /\ MaxAttempts \in Nat
        BY <1>2, Bounds DEF Entries
      <4>2. ~(e.tries + 1 >= MaxAttempts)
        BY <1>9, <3>2
      <4> QED
        BY <4>1, <4>2
    <3>4. Delay(e.tries + 1) \in 0 .. MaxDelay
      BY DelayType
    <3> QED
      BY <1>2, <3>1, <3>3, <3>4 DEF Entries
  <2>2. Append(run[p].queue, Retried(e)) \in Seq(Entries)
    BY <1>1, <2>1, InAppend
  <2> DEFINE x == [run[p] EXCEPT !.due = Tail(@), !.queue = Append(@, Retried(e)),
                                 !.off = Failed(@, e.to), !.changed = TRUE]
  <2>3. x \in RunSet /\ run' = [run EXCEPT ![p] = x]
    BY <1>1, <1>2, <1>3, <1>9, <2>2 DEF RunSet
  <2>4. Moved(x)
    BY <1>1, <1>9, <2>1, <2>3 DEF RunSet
  <2> QED
    BY <2>3, <2>4
<1> QED
  BY <1>5, <1>6, <1>7, <1>8, <1>9 DEF Drain, Delivered, e

LEMMA DrainKeeps ==
    ASSUME Shape, Inv, NEW p \in Runs, Drain(p)
    PROVE  Shape' /\ Inv'
<1> DEFINE e == Head(run[p].due)
<1>1. /\ run[p] \in RunSet /\ Fits(run[p]) /\ run \in [Runs -> RunSet] /\ run[p].at = "drain"
      /\ run[p].due \in Seq(Entries) /\ run[p].due # <<>> /\ run[p].queue \in Seq(Entries)
      /\ UNCHANGED <<world, row, pending, backoff, faults, owed, retaken>>
      /\ got \subseteq got' /\ gone \subseteq gone'
  BY DEF Drain, Delivered, Shape, Typed, RunSet, At
<1>2. PICK x \in RunSet :
         /\ run' = [run EXCEPT ![p] = x]
         /\ x.due = Tail(run[p].due) /\ x.at = "drain" /\ x.to = run[p].to
         /\ x.left = run[p].left /\ x.raced = run[p].raced
         /\ \/ /\ x.queue = run[p].queue /\ x.changed = TRUE
               /\ Pairs(e) \subseteq got' \cup gone'
            \/ /\ x.queue = Append(run[p].queue, e) /\ x.changed = run[p].changed
            \/ /\ x.queue = Append(run[p].queue, Retried(e)) /\ x.changed = TRUE
               /\ Retried(e) \in Entries
  BY DrainMoves
<1>3. /\ e \in Entries /\ Tail(run[p].due) \in Seq(Entries)
      /\ Len(Tail(run[p].due)) = Len(run[p].due) - 1
      /\ InQueue(run[p].due) = Pairs(e) \cup InQueue(Tail(run[p].due))
  BY <1>1, InTail
<1>4. Pairs(Retried(e)) = Pairs(e)
  BY <1>3 DEF Pairs, Retried, Entries
<1> HIDE DEF e
<1>5. /\ run' \in [Runs -> RunSet] /\ run'[p] = x
      /\ \A q \in Runs \ {p} : run'[q] = run[q]
  BY <1>1, <1>2
<1>6. Fits(x)
  <2>1. Len(x.queue) = Len(run[p].queue) \/ Len(x.queue) = Len(run[p].queue) + 1
    BY <1>1, <1>2, <1>3
  <2>2. Len(x.due) + Len(x.queue) <= QueueMax
    <3> DEFINE a == Len(run[p].due)
               b == Len(run[p].queue)
               c == Len(x.due)
               d == Len(x.queue)
    <3>1. a \in Nat /\ b \in Nat /\ QueueMax \in Nat
      BY <1>1, Bounds
    <3>2. c = a - 1
      BY <1>2, <1>3
    <3>3. a + b <= QueueMax
      BY <1>1 DEF Fits
    <3>4. d = b \/ d = b + 1
      BY <2>1
    <3> HIDE DEF a, b, c, d
    <3>5. c + d <= QueueMax
      BY <3>1, <3>2, <3>3, <3>4, OneMoved
    <3> QED
      BY <3>5 DEF c, d
  <2> QED
    BY <1>1, <1>2, <2>2 DEF Fits
<1>7. Shape'
  BY <1>1, <1>5, <1>6 DEF Shape, Typed, world
<1>8. /\ InHand(p) = Pairs(e) \cup InQueue(Tail(run[p].due)) \cup InQueue(run[p].queue)
      /\ InHand(p)' = InQueue(Tail(run[p].due)) \cup InQueue(x.queue)
  BY <1>2, <1>3, <1>5 DEF InHand
<1>9. \/ /\ InQueue(x.queue) = InQueue(run[p].queue) /\ x.changed = TRUE
         /\ Pairs(e) \subseteq got' \cup gone'
      \/ InQueue(x.queue) = InQueue(run[p].queue) \cup Pairs(e)
  BY <1>1, <1>2, <1>3, <1>4, InAppend
<1>10. x.changed = TRUE \/ (x.changed = run[p].changed /\ InHand(p)' = InHand(p))
  BY <1>1, <1>2, <1>3, <1>8, InAppend
<1>11. InHand(p) \subseteq InHand(p)' \cup got' \cup gone'
  BY <1>8, <1>9
<1>12. run[p].raced \/ InQueue(pending) \subseteq got' \cup gone' \cup InHand(p)'
  BY <1>1, <1>11 DEF Inv, Held, At
<1>13. x.changed \/ InHand(p)' \subseteq got' \cup gone' \cup InQueue(pending)
  BY <1>1, <1>10 DEF Inv, Untouched
<1>14. Accounted \subseteq Accounted' /\ Alone' /\ Held' /\ Untouched'
  BY <1>1, <1>2, <1>5, <1>11, <1>12, <1>13, HandStep DEF At
<1> QED
  BY <1>1, <1>2, <1>5, <1>7, <1>14, HandKeeps DEF At


LEMMA NextBatchKeeps ==
    ASSUME Shape, Inv, NEW p \in Runs, NextBatch(p)
    PROVE  Shape' /\ Inv'
<1>1. /\ run[p] \in RunSet /\ Fits(run[p]) /\ run \in [Runs -> RunSet] /\ run[p].at = "drain"
      /\ run[p].due = <<>> /\ UNCHANGED <<world, row, pending, backoff, faults, history>>
  BY DEF NextBatch, Shape, Typed, At
<1>2. CASE run[p].todo = {} /\ ~run[p].changed
  <2>1. run' = [run EXCEPT ![p] = Idle]
    BY <1>2 DEF NextBatch
  <2>2. run'[p] = Idle /\ Idle.at = "idle" /\ Idle.queue = <<>> /\ Idle.due = <<>>
    BY <1>1, <2>1 DEF Idle
  <2>3. Shape'
    BY <1>1, <2>1, IdleType DEF Shape, Typed, world
  <2>4. InHand(p)' = {}
    BY <2>2, EmptyQueue DEF InHand
  <2>5. InHand(p) \subseteq got' \cup gone' \cup InQueue(pending)
    BY <1>1, <1>2 DEF Inv, Untouched, history
  <2>6. Accounted \subseteq Accounted' /\ Alone' /\ Held' /\ Untouched'
    BY <1>1, <2>1, <2>2, <2>4, <2>5, HandStep DEF At, history
  <2> QED
    BY <1>1, <2>1, <2>2, <2>3, <2>6, HandKeeps DEF At, history
<1>3. CASE ~(run[p].todo = {} /\ ~run[p].changed)
  <2>1. \E x \in RunSet :
          /\ run' = [run EXCEPT ![p] = x]
          /\ x.due = run[p].due /\ x.queue = run[p].queue /\ x.changed = run[p].changed
          /\ x.raced = run[p].raced /\ x.to = run[p].to
          /\ \/ x.at = "save backoff" /\ x.left = run[p].left
             \/ x.at = "send" /\ x.left = x.to /\ x.batch # {}
    <3>1. CASE run[p].todo = {}
      <4> DEFINE x == [run[p] EXCEPT !.at = "save backoff"]
      <4>1. run' = [run EXCEPT ![p] = x]
        BY <1>1, <1>3, <3>1 DEF NextBatch
      <4>2. x \in RunSet
        BY <1>1 DEF RunSet, Steps
      <4> QED
        BY <1>1, <4>1, <4>2 DEF RunSet
    <3>2. CASE run[p].todo # {}
      <4>1. PICK last \in run[p].todo :
               LET b == {n \in run[p].todo : n.rule <= last.rule}
               IN  run' = [run EXCEPT ![p].at = "send", ![p].batch = b,
                                      ![p].todo = @ \ b, ![p].left = run[p].to]
        BY <3>2 DEF NextBatch
      <4> DEFINE b == {n \in run[p].todo : n.rule <= last.rule}
      <4>2. b \subseteq run[p].todo /\ b \subseteq NoticeSet
        BY <1>1 DEF RunSet
      <4>3. last \in b
        <5>1. last \in NoticeSet
          BY <1>1 DEF RunSet
        <5>2. last.rule \in Rules /\ Rules \subseteq Nat
          BY <5>1, RunsAssumption DEF NoticeSet
        <5>3. last.rule \in Nat
          BY <5>2
        <5>4. \A k \in Nat : k <= k
          OBVIOUS
        <5> QED
          BY <5>3, <5>4
      <4>4. run' = [run EXCEPT ![p].at = "send", ![p].batch = b, ![p].todo = @ \ b, ![p].left = run[p].to]
        BY <4>1
      <4> HIDE DEF b
      <4> DEFINE x == [run[p] EXCEPT !.at = "send", !.batch = b, !.todo = @ \ b, !.left = run[p].to]
      <4>5. run' = [run EXCEPT ![p] = x]
        BY <1>1, <4>4
      <4>6. x \in RunSet
        BY <1>1, <4>2 DEF RunSet, Steps
      <4>7. x.batch # {}
        BY <1>1, <4>3 DEF RunSet
      <4> QED
        BY <1>1, <4>5, <4>6, <4>7 DEF RunSet
    <3> QED
      BY <3>1, <3>2
  <2>2. PICK x \in RunSet :
          /\ run' = [run EXCEPT ![p] = x]
          /\ x.due = run[p].due /\ x.queue = run[p].queue /\ x.changed = run[p].changed
          /\ x.raced = run[p].raced /\ x.to = run[p].to
          /\ \/ x.at = "save backoff" /\ x.left = run[p].left
             \/ x.at = "send" /\ x.left = x.to /\ x.batch # {}
    BY <2>1
  <2>3. /\ run' \in [Runs -> RunSet] /\ run'[p] = x /\ \A q \in Runs \ {p} : run'[q] = run[q]
    BY <1>1, <2>2
  <2>4. Fits(x)
    BY <1>1, <2>2 DEF Fits
  <2>5. Shape'
    BY <1>1, <2>3, <2>4 DEF Shape, Typed, world
  <2>6. InHand(p)' = InHand(p)
    BY <2>2, <2>3 DEF InHand
  <2>0. UNCHANGED <<got, gone>> /\ x.changed = run[p].changed
    BY <1>1, <2>2 DEF history
  <2>7. /\ run[p].raced \/ InQueue(pending) \subseteq got' \cup gone' \cup InHand(p)'
        /\ x.changed \/ InHand(p)' \subseteq got' \cup gone' \cup InQueue(pending)
    BY <1>1, <2>6, <2>0 DEF Inv, Held, Untouched, At
  <2>8. Accounted \subseteq Accounted' /\ Alone' /\ Held' /\ Untouched'
    <3>1. /\ ~At(p, "idle") /\ pending' = pending /\ got \subseteq got' /\ gone \subseteq gone'
          /\ InHand(p) \subseteq InHand(p)' \cup got' \cup gone' \cup InQueue(pending)
      BY <1>1, <2>6 DEF At, history
    <3>2. /\ run[p].raced => run'[p].raced
          /\ run'[p].raced \/ InQueue(pending) \subseteq got' \cup gone' \cup InHand(p)'
          /\ run'[p].changed \/ InHand(p)' \subseteq got' \cup gone' \cup InQueue(pending)
      BY <2>2, <2>3, <2>7
    <3> QED
      BY <2>3, <3>1, <3>2, HandStep
  <2>9. x.at = "send" => (x.to \ x.left) \X x.batch \subseteq Accounted'
    BY <2>2
  <2> QED
    BY <1>1, <2>2, <2>3, <2>5, <2>8, <2>9, HandKeeps DEF At, history
<1> QED
  BY <1>2, <1>3

\* A notice is at the channel, or in the queue, when the next channel's turn comes.
LEMMA SendMoves ==
    ASSUME Shape, NEW p \in Runs, NEW c \in Channels, At(p, "send"), SendTo(p, c)
    PROVE  \E x \in RunSet :
             /\ run' = [run EXCEPT ![p] = x]
             /\ x.due = run[p].due /\ x.at = "send" /\ x.to = run[p].to
             /\ x.left = run[p].left \ {c} /\ x.raced = run[p].raced /\ x.batch = run[p].batch
             /\ x.todo = run[p].todo
             /\ Len(x.queue) <= QueueMax
             /\ InQueue(run[p].queue) \subseteq InQueue(x.queue) \cup gone'
             /\ {c} \X run[p].batch \subseteq InQueue(x.queue) \cup got'
             /\ \/ x.queue = run[p].queue /\ (x.changed = run[p].changed \/ x.changed = TRUE)
                \/ x.changed = TRUE
             /\ \/ x.queue = run[p].queue /\ got' = got \cup ({c} \X run[p].batch)
                \/ /\ got' = got
                   /\ \E e \in Entries : /\ Pairs(e) = {c} \X run[p].batch
                                         /\ x.queue = Enqueue(run[p].queue, e)
<1>1. /\ run[p] \in RunSet /\ Fits(run[p]) /\ run \in [Runs -> RunSet] /\ run[p].at = "send"
      /\ run[p].due = <<>> /\ run[p].queue \in Seq(Entries) /\ run[p].off \in [Channels -> Offs]
      /\ run[p].batch # {} /\ run[p].batch \subseteq NoticeSet
  BY DEF Shape, Typed, RunSet, At, Fits
<1>2. Len(run[p].queue) <= QueueMax
  <2>1. Len(<<>>) = 0 /\ Len(run[p].queue) \in Nat /\ Len(<<>>) + Len(run[p].queue) <= QueueMax
    BY <1>1 DEF Fits
  <2> QED
    BY <2>1
<1>3. Failed(run[p].off, c) \in [Channels -> Offs] /\ Worked(run[p].off, c) \in [Channels -> Offs]
  BY <1>1, FailedType, WorkedType
<1> DEFINE entry(off) == [to |-> c, items |-> run[p].batch, tries |-> 0, wait |-> off[c].wait]
           queued(off, failed) ==
             LET q == Enqueue(run[p].queue, entry(off))
             IN  /\ run' = [run EXCEPT ![p].left = @ \ {c}, ![p].off = off, ![p].queue = q,
                                       ![p].changed = @ \/ failed \/ q # run[p].queue]
                 /\ gone' = gone \cup Displaced(run[p].queue, entry(off))
                 /\ got' = got
<1>4. ASSUME NEW off \in [Channels -> Offs], NEW failed \in BOOLEAN, queued(off, failed)
      PROVE  \E x \in RunSet :
             /\ run' = [run EXCEPT ![p] = x]
             /\ x.due = run[p].due /\ x.at = "send" /\ x.to = run[p].to
             /\ x.left = run[p].left \ {c} /\ x.raced = run[p].raced /\ x.batch = run[p].batch
             /\ Len(x.queue) <= QueueMax
             /\ InQueue(run[p].queue) \subseteq InQueue(x.queue) \cup gone'
             /\ x.todo = run[p].todo
             /\ {c} \X run[p].batch \subseteq InQueue(x.queue)
             /\ \/ x.queue = run[p].queue /\ (x.changed = run[p].changed \/ x.changed = TRUE)
                \/ x.changed = TRUE
             /\ got' = got
             /\ \E e \in Entries : /\ Pairs(e) = {c} \X run[p].batch
                                   /\ x.queue = Enqueue(run[p].queue, e)
  <2> DEFINE e == entry(off)
             q == Enqueue(run[p].queue, e)
             ch == run[p].changed \/ failed \/ q # run[p].queue
             x == [run[p] EXCEPT !.left = @ \ {c}, !.off = off, !.queue = q, !.changed = ch]
  <2>1. e \in Entries /\ Pairs(e) = {c} \X run[p].batch
    <3>1. off[c].wait \in 0 .. MaxDelay /\ 0 \in 0 .. (MaxAttempts - 1)
      BY Bounds DEF Offs
    <3> QED
      BY <1>1, <3>1 DEF Entries, Pairs
  <2>2. /\ run' = [run EXCEPT ![p].left = @ \ {c}, ![p].off = off, ![p].queue = q,
                              ![p].changed = @ \/ failed \/ q # run[p].queue]
        /\ gone' = gone \cup Displaced(run[p].queue, e) /\ got' = got
    BY <1>4
  <2>3. run' = [run EXCEPT ![p] = x]
    BY <1>1, <2>2
  <2>4. /\ ch \in BOOLEAN
        /\ \/ q = run[p].queue /\ (ch = run[p].changed \/ ch = TRUE)
           \/ ch = TRUE
    BY <1>1 DEF RunSet
  <2> HIDE DEF ch
  <2> HIDE DEF e
  <2>5. /\ q \in Seq(Entries) /\ Len(q) <= QueueMax
        /\ InQueue(run[p].queue) \subseteq InQueue(q) \cup gone'
        /\ {c} \X run[p].batch \subseteq InQueue(q)
    BY <1>1, <1>2, <2>1, <2>2, EnqueueKeeps
  <2>8. q = Enqueue(run[p].queue, e)
    OBVIOUS
  <2> HIDE DEF q
  <2>6. x \in RunSet
    BY <1>1, <2>4, <2>5 DEF RunSet
  <2>7. /\ x.due = run[p].due /\ x.at = "send" /\ x.to = run[p].to /\ x.queue = q
        /\ x.left = run[p].left \ {c} /\ x.raced = run[p].raced /\ x.batch = run[p].batch
        /\ x.changed = ch /\ x.todo = run[p].todo
    BY <1>1 DEF RunSet
  <2>9. \E f \in Entries : Pairs(f) = {c} \X run[p].batch /\ q = Enqueue(run[p].queue, f)
    BY <2>1, <2>8
  <2> HIDE DEF x
  <2> QED
    BY <2>2, <2>3, <2>4, <2>5, <2>6, <2>7, <2>9
<1>5. CASE queued(run[p].off, FALSE) \/ queued(Failed(run[p].off, c), TRUE)
  BY <1>1, <1>3, <1>4, <1>5
<1>6. CASE /\ run' = [run EXCEPT ![p].left = @ \ {c}, ![p].off = Worked(@, c),
                                 ![p].changed = @ \/ run[p].off[c].fails > 0]
           /\ got' = got \cup ({c} \X run[p].batch)
  <2> DEFINE ch == run[p].changed \/ run[p].off[c].fails > 0
             x == [run[p] EXCEPT !.left = @ \ {c}, !.off = Worked(@, c), !.changed = ch]
  <2>1. run' = [run EXCEPT ![p] = x]
    BY <1>1, <1>6
  <2>2. ch \in BOOLEAN /\ (ch = run[p].changed \/ ch = TRUE)
    BY <1>1 DEF RunSet
  <2> HIDE DEF ch
  <2>3. x \in RunSet
    BY <1>1, <1>3, <2>2 DEF RunSet
  <2>4. /\ x.due = run[p].due /\ x.at = "send" /\ x.to = run[p].to /\ x.queue = run[p].queue
        /\ x.left = run[p].left \ {c} /\ x.raced = run[p].raced /\ x.batch = run[p].batch
        /\ x.changed = ch /\ x.todo = run[p].todo
    BY <1>1 DEF RunSet
  <2> HIDE DEF x
  <2> QED
    BY <1>2, <1>6, <2>1, <2>2, <2>3, <2>4
<1> QED
  BY <1>5, <1>6 DEF SendTo, Delivered

LEMMA SendKeeps ==
    ASSUME Shape, Inv, NEW p \in Runs, Send(p)
    PROVE  Shape' /\ Inv'
<1>1. /\ run[p] \in RunSet /\ Fits(run[p]) /\ run \in [Runs -> RunSet] /\ run[p].at = "send"
      /\ run[p].due = <<>>
  BY DEF Send, Shape, Typed, At, Fits
<1>2. PICK c \in run[p].left : SendTo(p, c)
  BY DEF Send
<1>3. c \in Channels /\ c \in run[p].to
  BY <1>1, <1>2 DEF RunSet, Fits
<1>4. /\ UNCHANGED <<world, row, pending, backoff, faults, owed, retaken>>
      /\ got \subseteq got' /\ gone \subseteq gone'
  BY <1>2 DEF SendTo, Delivered
<1>5. PICK x \in RunSet :
             /\ run' = [run EXCEPT ![p] = x]
             /\ x.due = run[p].due /\ x.at = "send" /\ x.to = run[p].to
             /\ x.left = run[p].left \ {c} /\ x.raced = run[p].raced /\ x.batch = run[p].batch
             /\ Len(x.queue) <= QueueMax
             /\ InQueue(run[p].queue) \subseteq InQueue(x.queue) \cup gone'
             /\ {c} \X run[p].batch \subseteq InQueue(x.queue) \cup got'
             /\ \/ x.queue = run[p].queue /\ (x.changed = run[p].changed \/ x.changed = TRUE)
                \/ x.changed = TRUE
  BY <1>1, <1>2, <1>3, SendMoves DEF At
<1>6. /\ run' \in [Runs -> RunSet] /\ run'[p] = x /\ \A q \in Runs \ {p} : run'[q] = run[q]
  BY <1>1, <1>5
<1>7. Fits(x)
  <2>1. Len(<<>>) = 0 /\ Len(x.queue) \in Nat /\ x.due = <<>>
    BY <1>1, <1>5 DEF RunSet
  <2>2. Len(x.due) + Len(x.queue) <= QueueMax
    BY <1>5, <2>1
  <2> QED
    BY <1>1, <1>5, <2>2 DEF Fits
<1>8. Shape'
  BY <1>4, <1>6, <1>7 DEF Shape, Typed, world
<1>9. InHand(p) = InQueue(run[p].queue) /\ InHand(p)' = InQueue(x.queue)
  BY <1>1, <1>5, <1>6, EmptyQueue DEF InHand
<1>10. InHand(p) \subseteq InHand(p)' \cup got' \cup gone'
  BY <1>5, <1>9
<1>11. /\ run[p].raced \/ InQueue(pending) \subseteq got' \cup gone' \cup InHand(p)'
       /\ x.changed \/ InHand(p)' \subseteq got' \cup gone' \cup InQueue(pending)
  BY <1>1, <1>4, <1>5, <1>9, <1>10 DEF Inv, Held, Untouched, At
<1>12. Accounted \subseteq Accounted' /\ Alone' /\ Held' /\ Untouched'
  BY <1>1, <1>4, <1>5, <1>6, <1>10, <1>11, HandStep DEF At
<1>13. (x.to \ x.left) \X x.batch \subseteq Accounted'
  <2>1. (run[p].to \ run[p].left) \X run[p].batch \subseteq Accounted
    BY <1>1 DEF Inv, Passed, At
  <2>2. {c} \X run[p].batch \subseteq Accounted'
    BY <1>5, <1>9 DEF Accounted
  <2>3. x.to \ x.left = (run[p].to \ run[p].left) \cup {c}
    BY <1>3, <1>5
  <2> QED
    BY <1>5, <1>12, <2>1, <2>2, <2>3
<1> QED
  BY <1>4, <1>5, <1>6, <1>8, <1>12, <1>13, HandKeeps DEF At

LEMMA CommitKeeps ==
    ASSUME Shape, Inv, NEW p \in Runs, Commit(p)
    PROVE  Shape' /\ Inv'
<1>1. /\ run[p] \in RunSet /\ Fits(run[p]) /\ run \in [Runs -> RunSet] /\ run[p].at = "send"
      /\ run[p].left = {} /\ run[p].due = <<>> /\ row \in [Rules -> Rows]
  BY DEF Commit, Shape, Typed, At, Fits
<1>2. PICK n \in run[p].batch : CommitNotice(p, n)
  BY DEF Commit
<1>3. /\ row' = [row EXCEPT ![n.rule] = IF n.of = "bad" THEN Activated(@) ELSE Resolved(@)]
      /\ owed' = owed \cup (run[p].to \X {n})
      /\ run' = [run EXCEPT ![p].batch = @ \ {n}, ![p].at = IF run[p].batch = {n} THEN "drain" ELSE @]
      /\ UNCHANGED <<world, pending, backoff, faults, got, gone, again>>
  BY <1>2 DEF CommitNotice
<1>4. row' \in [Rules -> Rows]
  <2>1. n.rule \in Rules
    BY <1>1, <1>2 DEF RunSet, NoticeSet
  <2>2. Activated(row[n.rule]) \in Rows /\ Resolved(row[n.rule]) \in Rows
    BY <1>1, <2>1, RowType
  <2> QED
    BY <1>1, <1>3, <2>1, <2>2
<1> DEFINE at == IF run[p].batch = {n} THEN "drain" ELSE run[p].at
           x == [run[p] EXCEPT !.batch = @ \ {n}, !.at = at]
<1>5. x \in RunSet /\ run' = [run EXCEPT ![p] = x]
  BY <1>1, <1>3 DEF RunSet, Steps
<1>6. /\ x.due = run[p].due /\ x.queue = run[p].queue /\ x.changed = run[p].changed
      /\ x.raced = run[p].raced /\ x.to = run[p].to /\ x.left = run[p].left
      /\ x.batch = run[p].batch \ {n} /\ x.at = at
  BY <1>1 DEF RunSet
<1>7. at = "drain" \/ (at = "send" /\ x.batch # {})
  BY <1>1, <1>2, <1>6
<1> HIDE DEF x, at
<1>8. run' \in [Runs -> RunSet] /\ run'[p] = x /\ \A q \in Runs \ {p} : run'[q] = run[q]
  BY <1>1, <1>5
<1>9. Fits(x)
  BY <1>1, <1>6, <1>7 DEF Fits
<1>10. Shape'
  BY <1>3, <1>4, <1>8, <1>9 DEF Shape, Typed, world
<1>11. InHand(p)' = InHand(p)
  BY <1>6, <1>8 DEF InHand
<1>12. /\ run[p].raced \/ InQueue(pending) \subseteq got' \cup gone' \cup InHand(p)'
       /\ x.changed \/ InHand(p)' \subseteq got' \cup gone' \cup InQueue(pending)
  BY <1>1, <1>3, <1>6, <1>11 DEF Inv, Held, Untouched, At
<1>13. Accounted \subseteq Accounted' /\ Alone' /\ Held' /\ Untouched'
  <2>1. /\ pending' = pending /\ got \subseteq got' /\ gone \subseteq gone' /\ ~At(p, "idle")
        /\ InHand(p) \subseteq InHand(p)' \cup got' \cup gone' \cup InQueue(pending)
    BY <1>1, <1>3, <1>11 DEF At
  <2>2. /\ run[p].raced => run'[p].raced
        /\ run'[p].raced \/ InQueue(pending) \subseteq got' \cup gone' \cup InHand(p)'
        /\ run'[p].changed \/ InHand(p)' \subseteq got' \cup gone' \cup InQueue(pending)
    BY <1>6, <1>8, <1>12
  <2> QED
    BY <1>8, <2>1, <2>2, HandStep
<1>14. run[p].to \X run[p].batch \subseteq Accounted
  BY <1>1 DEF Inv, Passed, At
<1>15. CommittedIsAccounted'
  <2>1. owed' \subseteq Accounted'
    BY <1>2, <1>3, <1>13, <1>14 DEF Inv, CommittedIsAccounted, Accounted
  <2> QED
    BY <2>1 DEF CommittedIsAccounted, Accounted
<1>16. Passed'
  <2>1. \A q \in Runs \ {p} : At(q, "send")' =>
           (run'[q].to \ run'[q].left) \X run'[q].batch \subseteq Accounted'
    BY <1>8, <1>13 DEF Inv, Passed, At
  <2>2. (x.to \ x.left) \X x.batch \subseteq Accounted'
    BY <1>1, <1>6, <1>13, <1>14
  <2> QED
    BY <1>8, <2>1, <2>2 DEF Passed
<1> QED
  BY <1>10, <1>13, <1>15, <1>16 DEF Inv

LEMMA SaveBackoffKeeps ==
    ASSUME Shape, Inv, NEW p \in Runs, SaveBackoff(p)
    PROVE  Shape' /\ Inv'
<1>1. /\ run[p] \in RunSet /\ Fits(run[p]) /\ run \in [Runs -> RunSet] /\ run[p].at = "save backoff"
      /\ run' = [run EXCEPT ![p].at = "save queue"] /\ backoff' = run[p].off
      /\ UNCHANGED <<world, row, pending, faults, history>>
  BY DEF SaveBackoff, Shape, Typed, At
<1> DEFINE x == [run[p] EXCEPT !.at = "save queue"]
<1>2. x \in RunSet /\ run' = [run EXCEPT ![p] = x]
  BY <1>1 DEF RunSet, Steps
<1>3. /\ x.due = run[p].due /\ x.queue = run[p].queue /\ x.changed = run[p].changed
      /\ x.raced = run[p].raced /\ x.to = run[p].to /\ x.left = run[p].left /\ x.at = "save queue"
  BY <1>1 DEF RunSet
<1> HIDE DEF x
<1>4. run' \in [Runs -> RunSet] /\ run'[p] = x /\ \A q \in Runs \ {p} : run'[q] = run[q]
  BY <1>1, <1>2
<1>5. Fits(x) /\ backoff' \in [Channels -> Offs]
  BY <1>1, <1>3 DEF Fits, RunSet
<1>6. Shape'
  BY <1>1, <1>4, <1>5 DEF Shape, Typed, world
<1>7. InHand(p)' = InHand(p)
  BY <1>3, <1>4 DEF InHand
<1>8. /\ run[p].raced \/ InQueue(pending) \subseteq got' \cup gone' \cup InHand(p)'
      /\ x.changed \/ InHand(p)' \subseteq got' \cup gone' \cup InQueue(pending)
  BY <1>1, <1>3, <1>7 DEF Inv, Held, Untouched, At, history
<1>9. Accounted \subseteq Accounted' /\ Alone' /\ Held' /\ Untouched'
  <2>1. /\ ~At(p, "idle") /\ pending' = pending /\ got \subseteq got' /\ gone \subseteq gone'
        /\ InHand(p) \subseteq InHand(p)' \cup got' \cup gone' \cup InQueue(pending)
    BY <1>1, <1>7 DEF At, history
  <2>2. /\ run[p].raced => run'[p].raced
        /\ run'[p].raced \/ InQueue(pending) \subseteq got' \cup gone' \cup InHand(p)'
        /\ run'[p].changed \/ InHand(p)' \subseteq got' \cup gone' \cup InQueue(pending)
    BY <1>3, <1>4, <1>8
  <2> QED
    BY <1>4, <2>1, <2>2, HandStep
<1> QED
  BY <1>1, <1>3, <1>4, <1>6, <1>9, HandKeeps DEF At, history

\* A run alone may put its queue in the place of the stored one; another's step
\* in between has made it raced, and then what it overwrites is given up.
LEMMA SaveQueueKeeps ==
    ASSUME Shape, Inv, NEW p \in Runs, SaveQueue(p)
    PROVE  Shape' /\ Inv'
<1>1. /\ run[p] \in RunSet /\ Fits(run[p]) /\ run \in [Runs -> RunSet] /\ run[p].at = "save queue"
      /\ run' = [run EXCEPT ![p] = Idle] /\ pending' = run[p].queue
      /\ IF run[p].raced THEN gone' = gone \cup (InQueue(pending) \ InQueue(run[p].queue))
                         ELSE gone' = gone
      /\ UNCHANGED <<world, row, backoff, faults, owed, got, again>>
  BY DEF SaveQueue, Shape, Typed, At
<1>2. /\ run'[p] = Idle /\ \A q \in Runs \ {p} : run'[q] = run[q]
      /\ Idle.at = "idle" /\ Idle.queue = <<>> /\ Idle.due = <<>>
  BY <1>1 DEF Idle
<1>3. run[p].due = <<>> /\ run[p].queue \in Seq(Entries)
  BY <1>1 DEF Fits, RunSet
<1>4. Len(run[p].queue) <= QueueMax
  <2>1. Len(run[p].due) + Len(run[p].queue) <= QueueMax
    BY <1>1 DEF Fits
  <2>2. Len(run[p].due) = 0 /\ Len(run[p].queue) \in Nat
    BY <1>3
  <2> QED
    BY <2>1, <2>2
<1>5. Shape'
  BY <1>1, <1>2, <1>3, <1>4, IdleType DEF Shape, Typed, world
<1>6. InHand(p) = InQueue(run[p].queue) /\ InHand(p)' = {} /\ InQueue(pending)' = InQueue(run[p].queue)
  <2>1. InQueue(pending)' = InQueue(run[p].queue)
    BY <1>1 DEF InQueue
  <2> QED
    BY <1>1, <1>2, <1>3, <2>1, EmptyQueue DEF InHand
<1>7. \A q \in Runs \ {p} : InHand(q)' = InHand(q)
  BY <1>2 DEF InHand
<1>8. InQueue(pending) \subseteq got' \cup gone' \cup InQueue(pending)'
  <2>1. CASE run[p].raced
    BY <1>1, <1>6, <2>1
  <2>2. CASE ~run[p].raced
    <3>1. InQueue(pending) \subseteq got \cup gone \cup InHand(p)
      BY <1>1, <2>2 DEF Inv, Held, At
    <3> QED
      BY <1>1, <1>6, <2>2, <3>1
  <2> QED
    BY <2>1, <2>2
<1>9. Accounted \subseteq Accounted'
  <2>1. got' = got /\ gone \subseteq gone'
    BY <1>1
  <2>2. \A q \in Runs : InHand(q) \subseteq InHand(q)' \cup InQueue(pending)'
    BY <1>6, <1>7
  <2> QED
    BY <1>8, <2>1, <2>2 DEF Accounted
<1>10. Alone'
  BY <1>2 DEF Inv, Alone, At
<1>11. Held'
  <2>1. \A q \in Runs \ {p} : At(q, "idle") \/ run[q].raced
    BY <1>1 DEF Inv, Alone, At
  <2> QED
    BY <1>2, <2>1 DEF Held, At
<1>12. Untouched'
  <2>1. \A q \in Runs \ {p} : ~run[q].changed => InHand(q) \subseteq got' \cup gone' \cup InQueue(pending)'
    BY <1>1, <1>6, <1>8 DEF Inv, Untouched
  <2> QED
    BY <1>2, <1>6, <1>7, <2>1 DEF Untouched
<1> QED
  BY <1>1, <1>2, <1>5, <1>9, <1>10, <1>11, <1>12, HandKeeps DEF At

LEMMA DiesKeeps ==
    ASSUME Shape, Inv, NEW p \in Runs, Dies(p)
    PROVE  Shape' /\ Inv'
<1>1. /\ ~At(p, "idle") /\ run \in [Runs -> RunSet] /\ run' = [run EXCEPT ![p] = Idle]
      /\ gone' = gone \cup (InHand(p) \ InQueue(pending))
      /\ UNCHANGED <<world, row, pending, backoff, owed, got, again>>
  BY DEF Dies, Shape, Typed, Busy
<1>2. /\ run'[p] = Idle /\ \A q \in Runs \ {p} : run'[q] = run[q]
      /\ Idle.at = "idle" /\ Idle.queue = <<>> /\ Idle.due = <<>>
  BY <1>1 DEF Idle
<1>3. Shape'
  BY <1>1, <1>2, IdleType DEF Shape, Typed, world
<1>4. InHand(p)' = {}
  BY <1>2, EmptyQueue DEF InHand
<1>5. Accounted \subseteq Accounted' /\ Alone' /\ Held' /\ Untouched'
  BY <1>1, <1>2, <1>4, HandStep DEF At
<1> QED
  BY <1>1, <1>2, <1>3, <1>5, HandKeeps DEF At

-----------------------------------------------------------------------------
(* The steps that are not a run's, and the theorems.                       *)

\* A run that starts beside another makes both of them raced.
LEMMA StartKeeps ==
    ASSUME Shape, Inv, NEW p \in Runs, Start(p)
    PROVE  Shape' /\ Inv'
<1> DEFINE to == {c \in Channels : health[c] # "off"}
           todo == {Notice(r) : r \in {x \in Rules : ShouldNote(x) /\ Reached(x)}}
           silent == {r \in Rules : ShouldClear(r)}
           new == [Idle EXCEPT !.at = "load", !.to = to, !.raced = Busy # {},
                               !.todo = todo, !.silent = silent]
<1>1. /\ run \in [Runs -> RunSet] /\ At(p, "idle") /\ \A q \in Runs : Fits(run[q])
      /\ UNCHANGED <<world, row, pending, backoff, history>>
      /\ run' = [q \in Runs |-> IF q = p THEN new ELSE [run[q] EXCEPT !.raced = run[q].at # "idle"]]
  BY DEF Start, Shape, Typed
<1>2. todo \subseteq NoticeSet
  BY NoticeType DEF Shape
<1>3. to \subseteq Channels /\ silent \subseteq Rules
  OBVIOUS
<1> HIDE DEF to, todo, silent
<1>4. /\ new \in RunSet /\ new.at = "load" /\ new.due = <<>> /\ new.queue = <<>>
      /\ new.left = {} /\ new.raced = (Busy # {}) /\ new.changed = FALSE
  BY <1>2, <1>3, IdleType DEF Idle, RunSet, Steps
<1>5. Fits(new)
  <2>1. Len(new.due) + Len(new.queue) <= QueueMax
    <3>1. Len(new.due) = 0 /\ Len(new.queue) = 0
      BY <1>4
    <3>2. 0 + 0 <= QueueMax
      BY Bounds
    <3> QED
      BY <3>1, <3>2
  <2> QED
    BY <1>4, <2>1 DEF Fits
<1> HIDE DEF new
<1>6. ASSUME NEW q \in Runs \ {p}
      PROVE  /\ run'[q] \in RunSet /\ Fits(run'[q])
             /\ run'[q].at = run[q].at /\ run'[q].due = run[q].due /\ run'[q].queue = run[q].queue
             /\ run'[q].changed = run[q].changed /\ run'[q].to = run[q].to
             /\ run'[q].left = run[q].left /\ run'[q].batch = run[q].batch
             /\ run'[q].raced = (run[q].at # "idle")
  <2> DEFINE x == [run[q] EXCEPT !.raced = run[q].at # "idle"]
  <2>1. run'[q] = x /\ run[q] \in RunSet /\ Fits(run[q])
    BY <1>1
  <2>2. /\ x \in RunSet /\ x.at = run[q].at /\ x.due = run[q].due /\ x.queue = run[q].queue
        /\ x.changed = run[q].changed /\ x.to = run[q].to
        /\ x.left = run[q].left /\ x.batch = run[q].batch /\ x.raced = (run[q].at # "idle")
    BY <2>1 DEF RunSet
  <2> QED
    BY <2>1, <2>2 DEF Fits
<1>7. run'[p] = new
  BY <1>1
<1>8. run' \in [Runs -> RunSet] /\ \A q \in Runs : Fits(run'[q])
  <2>1. DOMAIN run' = Runs /\ run' = [q \in Runs |-> run'[q]]
    BY <1>1
  <2>2. \A q \in Runs : run'[q] \in RunSet /\ Fits(run'[q])
    BY <1>4, <1>5, <1>6, <1>7
  <2> QED
    BY <2>1, <2>2
<1>9. Shape'
  BY <1>1, <1>8 DEF Shape, Typed, world
<1>10. InHand(p) = {} /\ InHand(p)' = {} /\ \A q \in Runs \ {p} : InHand(q)' = InHand(q)
  <2>1. run[p].due = <<>> /\ run[p].queue = <<>>
    BY <1>1 DEF Fits, At
  <2> QED
    BY <1>4, <1>6, <1>7, <2>1, EmptyQueue DEF InHand
<1>11. Accounted' = Accounted
  <2>1. \A q \in Runs : InHand(q)' = InHand(q)
    BY <1>10
  <2> QED
    BY <1>1, <2>1 DEF Accounted, history
<1>12. CommittedIsAccounted'
  BY <1>1, <1>11 DEF Inv, CommittedIsAccounted, Accounted, history
<1>13. Alone'
  <2> SUFFICES ASSUME NEW a \in Runs, NEW b \in Runs, a # b,
                      run'[a].at # "idle", run'[b].at # "idle"
               PROVE  run'[a].raced
    BY DEF Alone, At
  <2>1. CASE a = p
    <3>1. run[b].at # "idle"
      BY <1>6, <2>1
    <3>2. Busy # {}
      BY <3>1 DEF Busy, At
    <3> QED
      BY <1>4, <1>7, <2>1, <3>2
  <2>2. CASE a # p
    BY <1>6, <2>2
  <2> QED
    BY <2>1, <2>2
<1>14. Held'
  <2>1. \A q \in Runs : run'[q].at \in {"idle", "load"} \/ run'[q].raced
    BY <1>4, <1>6, <1>7
  <2> QED
    BY <2>1 DEF Held, At
<1>15. Untouched'
  BY <1>1, <1>6, <1>7, <1>10 DEF Inv, Untouched, history
<1>16. Passed'
  BY <1>4, <1>6, <1>7, <1>11 DEF Inv, Passed, At
<1> QED
  BY <1>9, <1>12, <1>13, <1>14, <1>15, <1>16 DEF Inv

LEMMA LessType == ASSUME NEW m \in Nat, NEW n \in 0 .. m PROVE Less(n) \in 0 .. m
  BY DEF Less

\* Time passes between runs: what is queued stays queued.
LEMMA TickKeeps ==
    ASSUME Shape, Inv, Tick
    PROVE  Shape' /\ Inv'
<1>1. /\ Busy = {} /\ UNCHANGED <<world, run, faults, history>>
      /\ pending' = [i \in DOMAIN pending |-> [pending[i] EXCEPT !.wait = Less(@)]]
      /\ pending \in Seq(Entries) /\ Len(pending) <= QueueMax
  BY DEF Tick, Shape, Typed
<1>2. /\ DOMAIN pending = 1 .. Len(pending) /\ Len(pending) \in Nat
      /\ \A i \in 1 .. Len(pending) : pending[i] \in Entries
  BY <1>1
<1>3. \A i \in 1 .. Len(pending) : /\ pending'[i] \in Entries
                                   /\ Pairs(pending'[i]) = Pairs(pending[i])
  <2> SUFFICES ASSUME NEW i \in 1 .. Len(pending)
               PROVE  pending'[i] \in Entries /\ Pairs(pending'[i]) = Pairs(pending[i])
    OBVIOUS
  <2>1. pending[i] \in Entries /\ pending'[i] = [pending[i] EXCEPT !.wait = Less(@)]
    BY <1>1, <1>2
  <2>2. Less(pending[i].wait) \in 0 .. MaxDelay
    BY <2>1, LessType, Bounds DEF Entries
  <2> QED
    BY <2>1, <2>2 DEF Entries, Pairs
<1>4. DOMAIN pending' = 1 .. Len(pending)
  BY <1>1, <1>2
<1>5. pending' \in Seq(Entries) /\ Len(pending') <= QueueMax
  <2>1. pending' \in [1 .. Len(pending) -> Entries]
    BY <1>1, <1>2, <1>3
  <2>2. pending' \in Seq(Entries) /\ Len(pending') = Len(pending)
    BY <1>2, <2>1
  <2> QED
    BY <1>1, <2>2
<1>6. InQueue(pending)' = InQueue(pending)
  <2>1. InQueue(pending)' = InQueue(pending')
    BY DEF InQueue
  <2>2. \A d : d \in InQueue(pending') <=> d \in InQueue(pending)
    BY <1>2, <1>3, <1>4, InQueueDef
  <2> QED
    BY <2>1, <2>2
<1>7. backoff' \in [Channels -> Offs]
  <2>1. backoff' = [c \in Channels |-> [backoff[c] EXCEPT !.wait = Less(@)]] /\ backoff \in [Channels -> Offs]
    BY DEF Tick, Shape, Typed
  <2>2. \A c \in Channels : [backoff[c] EXCEPT !.wait = Less(@)] \in Offs
    BY <2>1, LessType, Bounds DEF Offs
  <2> QED
    BY <2>1, <2>2
<1>8. row' \in [Rules -> Rows]
  <2>1. /\ row' = [r \in Rules |-> IF row[r].active /\ row[r].since < Repeat
                                   THEN [row[r] EXCEPT !.since = @ + 1] ELSE row[r]]
        /\ row \in [Rules -> Rows]
    BY DEF Tick, Shape, Typed
  <2>2. \A r \in Rules : row[r].since < Repeat => [row[r] EXCEPT !.since = @ + 1] \in Rows
    <3> SUFFICES ASSUME NEW r \in Rules, row[r].since < Repeat
                 PROVE  [row[r] EXCEPT !.since = @ + 1] \in Rows
      OBVIOUS
    <3>1. row[r] \in Rows /\ row[r].since \in 0 .. Repeat
      BY <2>1 DEF Rows
    <3>2. row[r].since + 1 \in 0 .. Repeat
      BY <3>1, Bounds
    <3> QED
      BY <3>1, <3>2 DEF Rows
  <2> QED
    BY <2>1, <2>2
<1>9. Shape'
  BY <1>1, <1>5, <1>7, <1>8 DEF Shape, Typed, world
<1>10. (\A p \in Runs : InHand(p)' = InHand(p)) /\ Accounted' = Accounted
  <2>1. \A p \in Runs : InHand(p)' = InHand(p)
    BY <1>1 DEF InHand
  <2> QED
    BY <1>1, <1>6, <2>1 DEF Accounted, history
<1>11. CommittedIsAccounted' /\ Alone'
  BY <1>1, <1>10 DEF Inv, CommittedIsAccounted, Accounted, Alone, At, history
<1>12. Held' /\ Untouched' /\ Passed'
  BY <1>1, <1>6, <1>10 DEF Inv, Held, Untouched, Passed, At, history
<1> QED
  BY <1>9, <1>11, <1>12 DEF Inv

LEMMA FlipKeeps ==
    ASSUME Shape, Inv, Flip
    PROVE  Shape' /\ Inv'
<1>1. UNCHANGED <<row, pending, backoff, run, faults, history>>
  BY DEF Flip
<1>2. flips' \in 0 .. MaxFlips
  BY Bounds DEF Flip, Shape, Typed
<1>3. cond' \in [Rules -> [is : Conditions, change : 0 .. MaxFlips]]
  <2>1. CASE cond' = cond
    BY <2>1 DEF Shape, Typed
  <2>2. ASSUME NEW r \in Rules, NEW is \in Conditions,
               cond' = [cond EXCEPT ![r] = [is |-> is, change |-> flips + 1]]
        PROVE  cond' \in [Rules -> [is : Conditions, change : 0 .. MaxFlips]]
    <3>1. flips + 1 \in 0 .. MaxFlips
      BY <1>2 DEF Flip
    <3>2. [is |-> is, change |-> flips + 1] \in [is : Conditions, change : 0 .. MaxFlips]
      BY <3>1
    <3> QED
      BY <2>2, <3>2 DEF Shape, Typed
  <2> QED
    BY <2>1, <2>2 DEF Flip, Conditions
<1>4. health' \in [Channels -> {"ok", "failing", "off"}]
  BY DEF Flip, Shape, Typed
<1>5. Shape'
  BY <1>1, <1>2, <1>3, <1>4 DEF Shape, Typed
<1>6. Inv'
  BY <1>1, SameInv DEF history
<1> QED
  BY <1>5, <1>6

LEMMA StutterKeeps ==
    ASSUME Shape, Inv, UNCHANGED vars
    PROVE  Shape' /\ Inv'
<1>1. Shape'
  BY DEF vars, Shape, Typed, Fits
<1>2. Inv'
  BY SameInv DEF vars, history
<1> QED
  BY <1>1, <1>2

LEMMA InvNext == Shape /\ Inv /\ [Next]_vars => Shape' /\ Inv'
<1> SUFFICES ASSUME Shape, Inv, [Next]_vars PROVE Shape' /\ Inv'
  OBVIOUS
<1>1. ASSUME NEW p \in Runs, Works(p) PROVE Shape' /\ Inv'
  BY <1>1, LoadKeeps, DrainKeeps, NextBatchKeeps, SendKeeps, CommitKeeps, SaveBackoffKeeps,
     SaveQueueKeeps DEF Works
<1> QED
  BY <1>1, StartKeeps, DiesKeeps, TickKeeps, FlipKeeps, StutterKeeps DEF Next

LEMMA ShapeAndInv == Spec => [](Shape /\ Inv)
<1>1. Init => Shape /\ Inv
  BY InitInv
<1>2. Shape /\ Inv /\ [Next]_vars => (Shape /\ Inv)'
  BY InvNext
<1> QED
  BY <1>1, <1>2, PTL DEF Spec

-----------------------------------------------------------------------------
(* No notice twice.  The history is of no help by itself: that a notice was *)
(* not sent before follows from what its rule's row says of it.             *)

\* What was delivered, is stored or is in the hands of a run.
Out == got \cup InQueue(pending) \cup UNION {InHand(p) : p \in Runs}
\* What a run is going to send, or to commit.
Plan(p) == run[p].todo \cup run[p].batch
Excused(n) == n.rule \in retaken

\* A notice is of the last change of its rule's condition, or of an earlier one.
Past(n) == /\ n.change <= cond[n.rule].change
           /\ n.change = cond[n.rule].change => n.of = cond[n.rule].is
\* The row says that it is sent: it will not be collected again.
Told(n) == n.change = cond[n.rule].change =>
             IF n.of = "bad" THEN row[n.rule].active /\ n.nth < row[n.rule].sent
                             ELSE ~row[n.rule].active

OutTyped == Out \subseteq Channels \X NoticeSet
OfThePast ==
    /\ \A r \in Rules : cond[r].change <= flips
    /\ \A d \in Out : Past(d[2])
    /\ \A p \in Runs : \A n \in Plan(p) : Past(n)
\* A notice that left a run is committed, or its run is about to commit it.
SentIsTold ==
    \A d \in Out : Excused(d[2]) \/ Told(d[2]) \/ \E p \in Runs : d[2] \in run[p].batch
\* What is stored is not of a batch or a plan.
NotStored == \A p \in Runs : \A n \in Plan(p) : \A d \in InQueue(pending) :
                 d[2] = n => Excused(n)
\* A run that delivered what is stored has a queue to save.
Settling == \A d \in got \cap InQueue(pending) : Excused(d[2]) \/ \E p \in Runs : run[p].changed
\* A row that is to be resolved tells of no outage.
Resolving == \A p \in Runs : At(p, "load") => \A r \in run[p].silent : \A d \in Out :
    d[2].rule = r /\ d[2].of = "bad" /\ d[2].change = cond[r].change =>
        Excused(d[2]) \/ \E q \in Runs : d[2] \in run[q].batch

\* A run has one notice for a rule, and plans and batches only where it uses them.
Shaped(x) ==
    /\ \A m, n \in x.todo \cup x.batch : m.rule = n.rule => m = n
    /\ x.todo \cap x.batch = {}
    /\ x.at # "send" => x.batch = {}
    /\ x.at \notin {"load", "drain", "send"} => x.todo = {}
    /\ x.at = "load" => \A n \in x.todo : n.rule \notin x.silent
    /\ x.at \in {"idle", "load"} => ~x.changed
Planned == \A p \in Runs : Shaped(run[p])

\* No two entries of a queue hold the same notice for the same channel.
Apart(d, q) == \A i, j \in DOMAIN q : d \in Pairs(q[i]) /\ d \in Pairs(q[j]) => i = j
Once(q, excused) == \A d \in InQueue(q) : d[2].rule \in excused \/ Apart(d, q)

\* What a run that is alone has in its hands is not delivered, and there once ...
Undelivered(p) == \A d \in got \cap InHand(p) : Excused(d[2])
HandOnce(p) == /\ Once(run[p].due, retaken) /\ Once(run[p].queue, retaken)
               /\ \A d \in InQueue(run[p].due) \cap InQueue(run[p].queue) : Excused(d[2])
\* ... what it plans is neither in its hands nor delivered ...
Unsent(p) ==
    /\ \A n \in run[p].todo : \A d \in got \cup InHand(p) : d[2] = n => Excused(n)
    /\ \A n \in run[p].batch : \A d \in got \cup InHand(p) :
           d[2] = n /\ d[1] \in run[p].left => Excused(n)
\* ... and is the latest of its rule.
Latest(p) == \A n \in Plan(p) : \A d \in Out :
                 d[2].rule = n.rule => d[2].change <= n.change \/ Excused(n)
Counted(p) == \A n \in Plan(p) : /\ n.nth < MaxSent
                                 /\ n.nth <= row[n.rule].sent \/ Excused(n)
Mine(p) == Undelivered(p) /\ HandOnce(p) /\ Unsent(p) /\ Latest(p) /\ Counted(p)

Sound == /\ OutTyped /\ OfThePast /\ SentIsTold /\ NotStored /\ Settling /\ Resolving
         /\ Planned /\ Once(pending, retaken)
         /\ \A p \in Runs : ~run[p].raced => Mine(p)

-----------------------------------------------------------------------------
(* Queues without duplicates.                                              *)

LEMMA OnceGrows ==
    ASSUME NEW q, NEW R, NEW S, R \subseteq S, Once(q, R)
    PROVE  Once(q, S)
  BY DEF Once

LEMMA OnceEmpty == ASSUME NEW R PROVE Once(<<>>, R)
  BY EmptyQueue DEF Once

LEMMA OnceExcused ==
    ASSUME NEW q, NEW R, \A d \in InQueue(q) : d[2].rule \in R
    PROVE  Once(q, R)
  BY DEF Once

LEMMA OnceTail ==
    ASSUME NEW q \in Seq(Entries), q # <<>>, NEW R, Once(q, R)
    PROVE  /\ Once(Tail(q), R)
           /\ \A d \in Pairs(Head(q)) \cap InQueue(Tail(q)) : d[2].rule \in R
<1>1. /\ Len(q) \in Nat /\ Len(q) > 0 /\ DOMAIN q = 1 .. Len(q) /\ Head(q) = q[1]
      /\ DOMAIN Tail(q) = 1 .. (Len(q) - 1)
      /\ \A i \in 1 .. (Len(q) - 1) : Tail(q)[i] = q[i + 1]
  OBVIOUS
<1> DEFINE t == Tail(q)
<1>2. \A i \in 1 .. (Len(q) - 1) : i + 1 \in 1 .. Len(q) /\ i + 1 # 1
  BY <1>1
<1>3. \A i, j \in 1 .. (Len(q) - 1) : i + 1 = j + 1 => i = j
  OBVIOUS
<1>4. 1 \in DOMAIN q
  BY <1>1
<1> HIDE DEF t
<1>5. \A i \in DOMAIN t : i + 1 \in DOMAIN q /\ t[i] = q[i + 1] /\ i + 1 # 1
  BY <1>1, <1>2 DEF t
<1>6. \A i, j \in DOMAIN t : i + 1 = j + 1 => i = j
  BY <1>1, <1>3 DEF t
<1>7. ASSUME NEW d \in InQueue(t), d[2].rule \notin R
      PROVE  Apart(d, t) /\ d \notin Pairs(q[1])
  <2>1. PICK k \in DOMAIN t : d \in Pairs(t[k])
    BY <1>7, InQueueDef
  <2>2. d \in InQueue(q)
    BY <1>5, <2>1, InQueueDef
  <2>3. Apart(d, q)
    BY <1>7, <2>2 DEF Once
  <2>4. Apart(d, t)
    BY <1>5, <1>6, <2>3 DEF Apart
  <2>5. d \notin Pairs(q[1])
    BY <1>4, <1>5, <2>1, <2>3 DEF Apart
  <2> QED
    BY <2>4, <2>5
<1> QED
  BY <1>1, <1>7 DEF Once, t

LEMMA OnceAppend ==
    ASSUME NEW q \in Seq(Entries), NEW e \in Entries, NEW R, Once(q, R),
           \A d \in Pairs(e) \cap InQueue(q) : d[2].rule \in R
    PROVE  Once(Append(q, e), R)
<1>1. /\ Len(q) \in Nat /\ DOMAIN q = 1 .. Len(q)
      /\ DOMAIN Append(q, e) = 1 .. (Len(q) + 1) /\ Append(q, e)[Len(q) + 1] = e
      /\ \A i \in 1 .. Len(q) : Append(q, e)[i] = q[i]
  OBVIOUS
<1> DEFINE a == Append(q, e)
<1>2. \A i \in 1 .. (Len(q) + 1) : i \in 1 .. Len(q) \/ i = Len(q) + 1
  BY <1>1
<1> HIDE DEF a
<1>3. \A i \in DOMAIN a : (i \in DOMAIN q /\ a[i] = q[i]) \/ (i = Len(q) + 1 /\ a[i] = e)
  BY <1>1, <1>2 DEF a
<1>4. ASSUME NEW d \in InQueue(a), d[2].rule \notin R PROVE Apart(d, a)
  <2>1. CASE d \in InQueue(q)
    <3>1. d \notin Pairs(e) /\ Apart(d, q)
      BY <1>4, <2>1 DEF Once
    <3> QED
      BY <1>3, <3>1 DEF Apart
  <2>2. CASE d \notin InQueue(q)
    <3>1. \A i \in DOMAIN q : d \notin Pairs(q[i])
      BY <2>2, InQueueDef
    <3> QED
      BY <1>3, <3>1 DEF Apart
  <2> QED
    BY <2>1, <2>2
<1> QED
  BY <1>4 DEF Once, a

\* A queue takes nothing but the entry, and once.
LEMMA EnqueueTakes ==
    ASSUME NEW q \in Seq(Entries), NEW e \in Entries
    PROVE  InQueue(Enqueue(q, e)) \subseteq InQueue(q) \cup Pairs(e)
<1>1. \/ Enqueue(q, e) = q
      \/ Enqueue(q, e) = Append(q, e)
      \/ Len(q) >= QueueMax /\ Enqueue(q, e) = Append(Tail(q), e)
  BY DEF Enqueue
<1>2. CASE Enqueue(q, e) = q
  BY <1>2
<1>3. CASE Enqueue(q, e) = Append(q, e)
  BY <1>3, InAppend
<1>4. CASE Len(q) >= QueueMax /\ Enqueue(q, e) = Append(Tail(q), e)
  <2>1. q # <<>>
    BY <1>4, Bounds
  <2>2. Tail(q) \in Seq(Entries) /\ InQueue(Tail(q)) \subseteq InQueue(q)
    BY <2>1, InTail
  <2> QED
    BY <1>4, <2>2, InAppend
<1> QED
  BY <1>1, <1>2, <1>3, <1>4

LEMMA OnceEnqueue ==
    ASSUME NEW q \in Seq(Entries), NEW e \in Entries, NEW R, Once(q, R),
           \A d \in Pairs(e) \cap InQueue(q) : d[2].rule \in R
    PROVE  Once(Enqueue(q, e), R)
<1>1. \/ Enqueue(q, e) = q
      \/ Enqueue(q, e) = Append(q, e)
      \/ Len(q) >= QueueMax /\ Enqueue(q, e) = Append(Tail(q), e)
  BY DEF Enqueue
<1>2. Once(Append(q, e), R)
  BY OnceAppend
<1>3. CASE Len(q) >= QueueMax /\ Enqueue(q, e) = Append(Tail(q), e)
  <2>1. q # <<>>
    BY <1>3, Bounds
  <2>2. Tail(q) \in Seq(Entries) /\ InQueue(Tail(q)) \subseteq InQueue(q)
    BY <2>1, InTail
  <2>3. Once(Tail(q), R)
    BY <2>1, OnceTail
  <2>4. \A d \in Pairs(e) \cap InQueue(Tail(q)) : d[2].rule \in R
    BY <2>2
  <2> QED
    BY <1>3, <2>2, <2>3, <2>4, OnceAppend
<1> QED
  BY <1>1, <1>2, <1>3

LEMMA InQueueTyped ==
    ASSUME NEW q \in Seq(Entries)
    PROVE  InQueue(q) \subseteq Channels \X NoticeSet
<1>1. ASSUME NEW d \in InQueue(q) PROVE d \in Channels \X NoticeSet
  <2>1. PICK i \in DOMAIN q : d \in Pairs(q[i])
    BY <1>1, InQueueDef
  <2>2. q[i] \in Entries
    BY <2>1
  <2> QED
    BY <2>1, <2>2 DEF Pairs, Entries
<1> QED
  BY <1>1

-----------------------------------------------------------------------------
(* What every step of a run has to show.                                   *)

\* A run that rests has nothing in its hands.
LEMMA IdleMine ==
    ASSUME NEW q \in Runs, run'[q].at = "idle", Fits(run'[q]), Shaped(run'[q])
    PROVE  Mine(q)' /\ InHand(q)' = {} /\ Plan(q)' = {}
<1>1. run'[q].due = <<>> /\ run'[q].queue = <<>> /\ run'[q].todo = {} /\ run'[q].batch = {}
  BY DEF Fits, Shaped
<1>2. InHand(q)' = {} /\ Plan(q)' = {}
  BY <1>1, EmptyQueue DEF InHand, Plan
<1>3. HandOnce(q)'
  BY <1>1, EmptyQueue, OnceEmpty DEF HandOnce
<1>4. Undelivered(q)' /\ Unsent(q)' /\ Latest(q)' /\ Counted(q)'
  BY <1>1, <1>2 DEF Undelivered, Unsent, Latest, Counted
<1> QED
  BY <1>2, <1>3, <1>4 DEF Mine

LEMMA IdleShaped == Shaped(Idle)
  BY DEF Shaped, Idle

\* Of two runs that are not idle both are raced, so a run that is alone is the
\* only one with plans or with anything in its hands.
LEMMA OthersMine ==
    ASSUME Shape, Shape', Inv, Sound, NEW p \in Runs, ~At(p, "idle"),
           NEW q \in Runs \ {p}, run'[q] = run[q], ~run'[q].raced
    PROVE  Mine(q)' /\ At(q, "idle")
<1>1. At(q, "idle")
  BY DEF Inv, Alone
<1>2. Fits(run'[q]) /\ Shaped(run'[q])
  BY DEF Shape, Sound, Planned
<1> QED
  BY <1>1, <1>2, IdleMine DEF At

\* A step of a run that keeps its hands on what it has.
LEMMA MovesSound ==
    ASSUME Shape, Shape', Inv, Sound, NEW p \in Runs, ~At(p, "idle"),
           \A q \in Runs \ {p} : run'[q] = run[q],
           UNCHANGED <<cond, flips, pending>>, retaken \subseteq retaken',
           Shaped(run'[p]), run'[p].at # "load",
           Plan(p)' \subseteq Plan(p),
           Out' \subseteq Out \cup (Channels \X run[p].batch),
           \A d \in got' \cap InQueue(pending) :
               d \in got \/ d[2].rule \in retaken' \/ run'[p].changed,
           run[p].changed => run'[p].changed,
           \A n \in run[p].batch :
               n \in run'[p].batch \/ n.rule \in retaken' \/ (~run[p].raced /\ Told(n)'),
           \A d \in Out : Told(d[2]) =>
               \/ Told(d[2])' \/ d[2].rule \in retaken'
               \/ \E q \in Runs : d[2] \in run[q].batch,
           run'[p].raced \/ Mine(p)'
    PROVE  Sound'
<1>1. OutTyped'
  <2>1. run[p].batch \subseteq NoticeSet
    BY DEF Shape, Typed, RunSet
  <2> QED
    BY <2>1 DEF Sound, OutTyped
<1>2. OfThePast'
  <2>1. \A d \in Out' : d \in Out \/ d[2] \in Plan(p)
    BY DEF Plan
  <2>2. \A d \in Out' : Past(d[2])
    BY <2>1 DEF Sound, OfThePast
  <2>3. \A q \in Runs : Plan(q)' \subseteq Plan(q)
    BY DEF Plan
  <2>4. \A q \in Runs : \A n \in Plan(q)' : Past(n)
    BY <2>3 DEF Sound, OfThePast
  <2>5. \A n : Past(n) => Past(n)'
    BY DEF Past
  <2>6. \A r \in Rules : cond'[r].change <= flips'
    BY DEF Sound, OfThePast
  <2> QED
    BY <2>2, <2>4, <2>5, <2>6 DEF OfThePast
<1>3. ASSUME NEW q \in Runs, NEW n \in run[q].batch
      PROVE  \/ n.rule \in retaken' \/ (~run[p].raced /\ Told(n)')
             \/ \E o \in Runs : n \in run'[o].batch
  BY <1>3
<1>4. SentIsTold'
  <2>1. ASSUME NEW d \in Out'
        PROVE  Excused(d[2])' \/ Told(d[2])' \/ \E q \in Runs : d[2] \in run'[q].batch
    <3>1. CASE d \in Out
      BY <1>3, <3>1 DEF Sound, SentIsTold, Excused
    <3>2. CASE d[2] \in run[p].batch
      BY <1>3, <3>2 DEF Excused
    <3> QED
      BY <3>1, <3>2
  <2> QED
    BY <2>1 DEF SentIsTold
<1>5. NotStored'
  <2>1. \A q \in Runs : Plan(q)' \subseteq Plan(q)
    BY DEF Plan
  <2>2. InQueue(pending)' = InQueue(pending)
    BY DEF InQueue
  <2> QED
    BY <2>1, <2>2 DEF Sound, NotStored, Excused
<1>6. Settling'
  <2>1. InQueue(pending)' = InQueue(pending)
    BY DEF InQueue
  <2>2. \A q \in Runs : run[q].changed => run'[q].changed
    OBVIOUS
  <2> QED
    BY <2>1, <2>2 DEF Sound, Settling, Excused
<1>7. Resolving'
  <2> SUFFICES ASSUME NEW q \in Runs, run'[q].at = "load", NEW r \in run'[q].silent,
                      NEW d \in Out', d[2].rule = r, d[2].of = "bad",
                      d[2].change = cond[r].change
               PROVE  Excused(d[2])' \/ \E o \in Runs : d[2] \in run'[o].batch
    BY DEF Resolving, At
  <2>1. q # p /\ run'[q] = run[q]
    OBVIOUS
  <2>2. run[p].raced
    BY <2>1 DEF Inv, Alone, At
  <2>3. Excused(d[2]) \/ \E o \in Runs : d[2] \in run[o].batch
    BY <2>1 DEF Sound, Resolving, At
  <2> QED
    BY <1>3, <2>2, <2>3 DEF Excused
<1>8. Planned'
  BY DEF Sound, Planned
<1>9. Once(pending, retaken)'
  BY OnceGrows DEF Sound
<1>10. \A q \in Runs : ~run'[q].raced => Mine(q)'
  BY OthersMine
<1> QED
  BY <1>1, <1>2, <1>4, <1>5, <1>6, <1>7, <1>8, <1>9, <1>10 DEF Sound

\* A run that ends.
LEMMA EndsSound ==
    ASSUME Shape, Shape', Inv, Sound, NEW p \in Runs, ~At(p, "idle"), run'[p] = Idle,
           \A q \in Runs \ {p} : run'[q] = run[q],
           UNCHANGED <<cond, flips, row>>, retaken \subseteq retaken',
           Out' \subseteq Out, \A n \in run[p].batch : n.rule \in retaken',
           NotStored', Settling', Once(pending, retaken)'
    PROVE  Sound'
<1>0. run'[p].at = "idle" /\ run'[p].todo = {} /\ run'[p].batch = {}
  BY DEF Idle
<1>1. OutTyped'
  BY DEF Sound, OutTyped
<1>2. OfThePast'
  <2>1. \A n : Past(n) => Past(n)'
    BY DEF Past
  <2>2. \A q \in Runs : Plan(q)' \subseteq Plan(q)
    BY <1>0 DEF Plan
  <2>3. \A d \in Out' : Past(d[2])'
    BY <2>1 DEF Sound, OfThePast
  <2>4. \A q \in Runs : \A n \in Plan(q)' : Past(n)'
    BY <2>1, <2>2 DEF Sound, OfThePast
  <2>5. \A r \in Rules : cond'[r].change <= flips'
    BY DEF Sound, OfThePast
  <2> QED
    BY <2>3, <2>4, <2>5 DEF OfThePast
<1>3. ASSUME NEW q \in Runs, NEW n \in run[q].batch
      PROVE  n.rule \in retaken' \/ \E o \in Runs : n \in run'[o].batch
  BY <1>3
<1>4. SentIsTold'
  <2>1. \A n : Told(n) => Told(n)'
    BY DEF Told
  <2> QED
    BY <1>3, <2>1 DEF Sound, SentIsTold, Excused
<1>5. Resolving'
  <2> SUFFICES ASSUME NEW q \in Runs, run'[q].at = "load", NEW r \in run'[q].silent,
                      NEW d \in Out', d[2].rule = r, d[2].of = "bad",
                      d[2].change = cond[r].change
               PROVE  Excused(d[2])' \/ \E o \in Runs : d[2] \in run'[o].batch
    BY DEF Resolving, At
  <2>1. run'[q] = run[q]
    BY <1>0
  <2>2. Excused(d[2]) \/ \E o \in Runs : d[2] \in run[o].batch
    BY <2>1 DEF Sound, Resolving, At
  <2> QED
    BY <1>3, <2>2 DEF Excused
<1>6. Planned'
  BY IdleShaped DEF Sound, Planned
<1>7. Mine(p)'
  BY <1>0, IdleMine, IdleShaped, IdleType
<1>8. \A q \in Runs : ~run'[q].raced => Mine(q)'
  BY <1>7, OthersMine
<1> QED
  BY <1>1, <1>2, <1>4, <1>5, <1>6, <1>8 DEF Sound

LEMMA OutMoves ==
    ASSUME NEW p \in Runs, \A q \in Runs \ {p} : run'[q] = run[q], pending' = pending,
           NEW Z, got' \subseteq Out \cup Z, InHand(p)' \subseteq Out \cup Z
    PROVE  Out' \subseteq Out \cup Z
<1>1. \A q \in Runs \ {p} : InHand(q)' = InHand(q)
  BY DEF InHand
<1>2. InQueue(pending)' = InQueue(pending)
  BY DEF InQueue
<1>3. ASSUME NEW q \in Runs PROVE InHand(q)' \subseteq Out \cup Z
  <2>1. InHand(q) \subseteq Out
    BY DEF Out
  <2> QED
    BY <1>1, <2>1
<1>4. InQueue(pending) \subseteq Out
  BY DEF Out
<1>5. ASSUME NEW d \in Out' PROVE d \in Out \cup Z
  <2>1. CASE d \in got' \/ d \in InQueue(pending)'
    BY <1>2, <1>4, <2>1
  <2>2. CASE \E q \in Runs : d \in InHand(q)'
    BY <1>3, <2>2
  <2> QED
    BY <2>1, <2>2 DEF Out
<1> QED
  BY <1>5

\* What is new is a notice of the plan itself.
LEMMA LatestKept ==
    ASSUME Shape, NEW p \in Runs, Shaped(run[p]), Latest(p), retaken' = retaken,
           Plan(p)' \subseteq Plan(p), Out' \subseteq Out \cup (Channels \X run[p].batch)
    PROVE  Latest(p)'
<1>1. ASSUME NEW n \in Plan(p)', NEW d \in Out', d[2].rule = n.rule
      PROVE  d[2].change <= n.change \/ Excused(n)
  <2>1. n \in Plan(p) /\ n \in NoticeSet
    BY DEF Shape, Typed, RunSet, Plan
  <2>2. CASE d \in Out
    BY <1>1, <2>1, <2>2 DEF Latest
  <2>3. CASE d[2] \in run[p].batch
    <3>1. d[2] = n
      BY <1>1, <2>1, <2>3 DEF Shaped, Plan
    <3>2. n.change \in Nat
      BY <2>1, Bounds DEF NoticeSet
    <3> QED
      BY <3>1, <3>2
  <2> QED
    BY <2>2, <2>3
<1> QED
  BY <1>1 DEF Latest, Excused

LEMMA LoadSound ==
    ASSUME Shape, Shape', Inv, Sound, NEW p \in Runs, Load(p)
    PROVE  Sound' /\ again' = again
<1>1. /\ run[p].at = "load" /\ run[p] \in RunSet /\ run \in [Runs -> RunSet] /\ row \in [Rules -> Rows]
      /\ row' = [r \in Rules |-> IF r \in run[p].silent THEN Resolved(row[r]) ELSE row[r]]
      /\ UNCHANGED <<world, pending, backoff, history>>
  BY DEF Load, Shape, Typed, At
<1>2. run[p].due = <<>> /\ run[p].queue = <<>> /\ run[p].batch = {} /\ ~run[p].changed
  BY <1>1 DEF Shape, Fits, Sound, Planned, Shaped
<1>3. PICK x :
        /\ run'[p] = x /\ \A q \in Runs \ {p} : run'[q] = run[q]
        /\ x.at = "drain" /\ x.queue = <<>> /\ x.left = run[p].left /\ x.to = run[p].to
        /\ x.todo = run[p].todo /\ x.batch = run[p].batch /\ x.changed = run[p].changed
        /\ \/ x.due = pending /\ x.raced = run[p].raced
           \/ x.due = <<>> /\ x.raced = TRUE
  <2>1. CASE run' = [run EXCEPT ![p].at = "drain", ![p].silent = {}, ![p].due = pending, ![p].off = backoff]
    <3> DEFINE y == [run[p] EXCEPT !.at = "drain", !.silent = {}, !.due = pending, !.off = backoff]
    <3>1. run'[p] = y /\ \A q \in Runs \ {p} : run'[q] = run[q]
      BY <1>1, <2>1
    <3>2. /\ y.at = "drain" /\ y.queue = <<>> /\ y.left = run[p].left /\ y.to = run[p].to
          /\ y.todo = run[p].todo /\ y.batch = run[p].batch /\ y.changed = run[p].changed
          /\ y.due = pending /\ y.raced = run[p].raced
      BY <1>1, <1>2 DEF RunSet
    <3> HIDE DEF y
    <3> QED
      BY <3>1, <3>2
  <2>2. CASE run' = [run EXCEPT ![p].at = "drain", ![p].silent = {}, ![p].off = backoff, ![p].raced = TRUE]
    <3> DEFINE y == [run[p] EXCEPT !.at = "drain", !.silent = {}, !.off = backoff, !.raced = TRUE]
    <3>1. run'[p] = y /\ \A q \in Runs \ {p} : run'[q] = run[q]
      BY <1>1, <2>2
    <3>2. /\ y.at = "drain" /\ y.queue = <<>> /\ y.left = run[p].left /\ y.to = run[p].to
          /\ y.todo = run[p].todo /\ y.batch = run[p].batch /\ y.changed = run[p].changed
          /\ y.due = <<>> /\ y.raced = TRUE
      BY <1>1, <1>2 DEF RunSet
    <3> HIDE DEF y
    <3> QED
      BY <3>1, <3>2
  <2> QED
    BY <2>1, <2>2 DEF Load
<1>4. Shaped(x)
  BY <1>1, <1>2, <1>3 DEF Sound, Planned, Shaped
<1>5. Plan(p)' = Plan(p)
  BY <1>3 DEF Plan
<1>6. InHand(p)' \subseteq InQueue(pending)
  BY <1>3, EmptyQueue DEF InHand
<1>7. Out' \subseteq Out
  <2>1. got' \subseteq Out \cup {} /\ InHand(p)' \subseteq Out \cup {}
    BY <1>1, <1>6 DEF Out, history
  <2> QED
    BY <1>1, <1>3, <2>1, OutMoves
<1>8. ASSUME NEW d \in Out, Told(d[2])
      PROVE  Told(d[2])' \/ Excused(d[2]) \/ \E q \in Runs : d[2] \in run[q].batch
  <2> DEFINE n == d[2]
  <2>1. n.rule \in Rules /\ cond' = cond
    BY <1>1 DEF Sound, OutTyped, NoticeSet, world
  <2>2. CASE n.rule \notin run[p].silent
    BY <1>1, <1>8, <2>1, <2>2 DEF Told
  <2>3. CASE n.rule \in run[p].silent /\ n.change = cond[n.rule].change
    <3>1. ~row'[n.rule].active
      BY <1>1, <2>1, <2>3 DEF Resolved, Rows
    <3>2. CASE n.of = "bad"
      BY <1>1, <2>3, <3>2 DEF Sound, Resolving, At
    <3>3. CASE n.of # "bad"
      BY <3>1, <3>3 DEF Told
    <3> QED
      BY <3>2, <3>3
  <2>4. CASE n.change # cond[n.rule].change
    BY <2>1, <2>4 DEF Told
  <2> QED
    BY <2>2, <2>3, <2>4
<1>9. ASSUME ~x.raced PROVE Mine(p)'
  <2>1. ~run[p].raced /\ run'[p].due = pending /\ run'[p].queue = <<>>
    BY <1>3, <1>9
  <2>2. Mine(p)
    BY <2>1 DEF Sound
  <2>3. InHand(p)' = InQueue(pending)
    BY <2>1, EmptyQueue, <1>1 DEF InHand
  <2>4. \A q \in Runs : ~run[q].changed
    <3>1. \A q \in Runs \ {p} : At(q, "idle")
      BY <1>1, <2>1 DEF Inv, Alone, At
    <3> QED
      BY <1>2, <3>1 DEF Sound, Planned, Shaped, At
  <2>5. Undelivered(p)'
    BY <1>1, <2>3, <2>4 DEF Sound, Settling, Undelivered, Excused, history
  <2>6. HandOnce(p)'
    BY <1>1, <2>1, EmptyQueue, OnceEmpty DEF HandOnce, Sound, history
  <2>7. Unsent(p)'
    <3>1. \A n \in run[p].todo : n \in Plan(p)
      BY DEF Plan
    <3> QED
      BY <1>1, <1>2, <1>3, <2>2, <2>3, <3>1 DEF Sound, NotStored, Mine, Unsent, Excused, history
  <2>8. Latest(p)'
    BY <1>1, <1>5, <1>7, <2>2, LatestKept DEF Mine, Sound, Planned, history
  <2>9. Counted(p)'
    <3>1. ASSUME NEW n \in Plan(p) PROVE row'[n.rule] = row[n.rule]
      <4>1. n \in run[p].todo /\ n.rule \in Rules
        BY <1>1, <1>2 DEF Plan, RunSet, NoticeSet
      <4>2. n.rule \notin run[p].silent
        BY <1>1, <4>1 DEF Sound, Planned, Shaped
      <4> QED
        BY <1>1, <4>1, <4>2
    <3> QED
      BY <1>1, <1>5, <2>2, <3>1 DEF Mine, Counted, Excused, history
  <2> QED
    BY <2>5, <2>6, <2>7, <2>8, <2>9 DEF Mine
<1> QED
  <2>1. /\ ~At(p, "idle") /\ UNCHANGED <<cond, flips, pending, got, retaken, again>>
    BY <1>1 DEF At, world, history
  <2>2. /\ Shaped(run'[p]) /\ run'[p].at # "load" /\ Plan(p)' \subseteq Plan(p)
        /\ run[p].changed => run'[p].changed
        /\ \A n \in run[p].batch : n \in run'[p].batch
        /\ Out' \subseteq Out \cup (Channels \X run[p].batch)
        /\ run'[p].raced \/ Mine(p)'
    BY <1>3, <1>4, <1>5, <1>7, <1>9
  <2>3. \A d \in Out : Told(d[2]) => Told(d[2])' \/ d[2].rule \in retaken'
                                     \/ \E q \in Runs : d[2] \in run[q].batch
    BY <1>8, <2>1 DEF Excused
  <2> QED
    BY <1>3, <2>1, <2>2, <2>3, MovesSound

LEMMA DrainSound ==
    ASSUME Shape, Shape', Inv, Sound, again = {}, NEW p \in Runs, Drain(p)
    PROVE  Sound' /\ again' = {}
<1> DEFINE e == Head(run[p].due)
           hand == InQueue(run[p].due) \cup InQueue(run[p].queue)
<1>1. /\ run[p].at = "drain" /\ run[p] \in RunSet /\ run \in [Runs -> RunSet]
      /\ run[p].due \in Seq(Entries) /\ run[p].due # <<>> /\ run[p].queue \in Seq(Entries)
      /\ UNCHANGED <<world, row, pending, backoff, faults, owed, retaken>>
  BY DEF Drain, Shape, Typed, At, RunSet
<1>2. /\ e \in Entries /\ Tail(run[p].due) \in Seq(Entries)
      /\ InQueue(run[p].due) = Pairs(e) \cup InQueue(Tail(run[p].due))
  BY <1>1, InTail
<1>3. Pairs(Retried(e)) = Pairs(e)
  BY <1>2 DEF Pairs, Retried, Entries
<1>4. PICK x \in RunSet :
        /\ run' = [run EXCEPT ![p] = x]
        /\ x.due = Tail(run[p].due) /\ x.at = "drain" /\ x.to = run[p].to
        /\ x.left = run[p].left /\ x.raced = run[p].raced
        /\ x.todo = run[p].todo /\ x.batch = run[p].batch
        /\ \/ /\ x.queue = run[p].queue /\ x.changed = TRUE
              /\ Pairs(e) \subseteq got' \cup gone'
              /\ got' = got \/ got' = got \cup Pairs(e)
           \/ /\ x.queue = Append(run[p].queue, e) /\ x.changed = run[p].changed
              /\ got' = got
           \/ /\ x.queue = Append(run[p].queue, Retried(e)) /\ x.changed = TRUE
              /\ Retried(e) \in Entries /\ got' = got
  BY DrainMoves
<1> HIDE DEF e
<1>5. /\ run'[p] = x /\ \A q \in Runs \ {p} : run'[q] = run[q]
      /\ run[p].changed => x.changed
  BY <1>1, <1>4
<1>6. InHand(p) = hand /\ InHand(p)' = InQueue(x.due) \cup InQueue(x.queue)
  BY <1>5 DEF InHand
<1>7. \/ x.queue = run[p].queue
      \/ \E f \in Entries : Pairs(f) = Pairs(e) /\ x.queue = Append(run[p].queue, f) /\ got' = got
  BY <1>2, <1>3, <1>4
<1>8. InQueue(x.queue) \subseteq InQueue(run[p].queue) \cup Pairs(e)
  BY <1>1, <1>7, InAppend
<1>9. InHand(p)' \subseteq InHand(p) /\ got' \subseteq got \cup InHand(p)
  BY <1>2, <1>4, <1>6, <1>8
<1>10. Out' \subseteq Out
  <2>1. got' \subseteq Out \cup {} /\ InHand(p)' \subseteq Out \cup {}
    BY <1>9 DEF Out
  <2> QED
    BY <1>1, <1>5, <2>1, OutMoves
<1>11. Plan(p)' = Plan(p)
  BY <1>4, <1>5 DEF Plan
<1>12. Shaped(x)
  BY <1>1, <1>4 DEF Sound, Planned, Shaped
<1>13. ASSUME ~x.raced PROVE Mine(p)'
  <2>1. Mine(p) /\ run'[p].due = Tail(run[p].due)
    BY <1>4, <1>5, <1>13 DEF Sound
  <2>2. \A d \in Pairs(e) \cap InQueue(run[p].queue) : Excused(d[2])
    BY <1>2, <2>1 DEF Mine, HandOnce
  <2>3. /\ Once(x.due, retaken)
        /\ \A d \in Pairs(e) \cap InQueue(x.due) : Excused(d[2])
    BY <1>1, <1>4, <2>1, OnceTail DEF Mine, HandOnce, Excused, e
  <2>4. Once(x.queue, retaken)
    BY <1>1, <1>7, <2>1, <2>2, OnceAppend DEF Mine, HandOnce, Excused
  <2>5. \A d \in InQueue(x.due) \cap InQueue(x.queue) : Excused(d[2])
    BY <1>2, <1>4, <1>8, <2>1, <2>3 DEF Mine, HandOnce
  <2>6. HandOnce(p)'
    BY <1>1, <1>5, <2>3, <2>4, <2>5 DEF HandOnce, Excused
  <2>7. Undelivered(p)'
    <3>1. CASE got' = got
      BY <1>1, <1>9, <2>1, <3>1 DEF Mine, Undelivered, Excused
    <3>2. CASE got' = got \cup Pairs(e) /\ x.queue = run[p].queue
      <4>1. \A d \in Pairs(e) \cap InHand(p)' : Excused(d[2])
        BY <1>6, <2>2, <2>3, <3>2
      <4> QED
        BY <1>1, <1>9, <2>1, <3>2, <4>1 DEF Mine, Undelivered, Excused
    <3> QED
      BY <1>4, <3>1, <3>2
  <2>8. Unsent(p)'
    <3>1. got' \cup InHand(p)' \subseteq got \cup InHand(p)
      BY <1>9
    <3> QED
      BY <1>1, <1>4, <1>5, <2>1, <3>1 DEF Mine, Unsent, Excused
  <2>9. Latest(p)' /\ Counted(p)'
    <3>1. Latest(p)'
      BY <1>1, <1>10, <1>11, <2>1, LatestKept DEF Mine, Sound, Planned
    <3>2. Counted(p)'
      BY <1>1, <1>11, <2>1 DEF Mine, Counted, Excused
    <3> QED
      BY <3>1, <3>2
  <2> QED
    BY <2>6, <2>7, <2>8, <2>9 DEF Mine
<1>14. Sound'
  <2>1. /\ ~At(p, "idle") /\ UNCHANGED <<cond, flips, pending, retaken>>
        /\ \A d : Told(d[2]) => Told(d[2])'
    BY <1>1 DEF At, world, Told
  <2>2. /\ Shaped(run'[p]) /\ run'[p].at # "load" /\ Plan(p)' \subseteq Plan(p)
        /\ run[p].changed => run'[p].changed
        /\ \A n \in run[p].batch : n \in run'[p].batch
        /\ Out' \subseteq Out \cup (Channels \X run[p].batch)
        /\ run'[p].raced \/ Mine(p)'
        /\ \A d \in got' \cap InQueue(pending) : d \in got \/ run'[p].changed
    BY <1>4, <1>5, <1>10, <1>11, <1>12, <1>13
  <2> QED
    BY <1>5, <2>1, <2>2, MovesSound
<1>15. again' = {}
  <2>1. again' = again \/ (Delivered(p, e.to, e.items) /\ e.to \in run[p].to)
    BY DEF Drain, e
  <2>2. CASE Delivered(p, e.to, e.items)
    <3>1. CASE run[p].raced
      BY <2>2, <3>1 DEF Delivered
    <3>2. CASE ~run[p].raced
      <4>1. \A d \in got \cap Pairs(e) : Excused(d[2])
        BY <1>2, <1>6, <3>2 DEF Sound, Mine, Undelivered
      <4> QED
        BY <2>2, <3>2, <4>1 DEF Delivered, Pairs, Excused
    <3> QED
      BY <3>1, <3>2
  <2> QED
    BY <2>1, <2>2
<1> QED
  BY <1>14, <1>15

LEMMA NextBatchSound ==
    ASSUME Shape, Shape', Inv, Sound, NEW p \in Runs, NextBatch(p)
    PROVE  Sound' /\ again' = again
<1>1. /\ run[p].at = "drain" /\ run[p] \in RunSet /\ run \in [Runs -> RunSet]
      /\ UNCHANGED <<world, row, pending, backoff, faults, history>>
  BY DEF NextBatch, Shape, Typed, At
<1>2. run[p].batch = {} /\ Shaped(run[p])
  BY <1>1 DEF Sound, Planned, Shaped
<1>3. PICK x :
        /\ run'[p] = x /\ \A q \in Runs \ {p} : run'[q] = run[q]
        /\ \/ x = Idle /\ ~run[p].changed
           \/ /\ x.due = run[p].due /\ x.queue = run[p].queue /\ x.raced = run[p].raced
              /\ x.changed = run[p].changed /\ x.to = run[p].to
              /\ \/ x.at = "save backoff" /\ x.todo = {} /\ x.batch = {}
                 \/ /\ x.at = "send" /\ x.left = x.to /\ x.batch \subseteq run[p].todo
                    /\ x.todo = run[p].todo \ x.batch
  <2>1. CASE run[p].todo = {} /\ ~run[p].changed
    BY <1>1, <2>1 DEF NextBatch
  <2>2. CASE run[p].todo = {} /\ run[p].changed
    <3> DEFINE y == [run[p] EXCEPT !.at = "save backoff"]
    <3>1. run'[p] = y /\ \A q \in Runs \ {p} : run'[q] = run[q]
      BY <1>1, <2>2 DEF NextBatch
    <3>2. /\ y.due = run[p].due /\ y.queue = run[p].queue /\ y.raced = run[p].raced
          /\ y.changed = run[p].changed /\ y.to = run[p].to /\ y.at = "save backoff"
          /\ y.todo = {} /\ y.batch = {}
      BY <1>1, <1>2, <2>2 DEF RunSet
    <3> HIDE DEF y
    <3> QED
      BY <3>1, <3>2
  <2>3. CASE run[p].todo # {}
    <3>1. PICK last \in run[p].todo :
             LET b == {n \in run[p].todo : n.rule <= last.rule}
             IN  run' = [run EXCEPT ![p].at = "send", ![p].batch = b,
                                    ![p].todo = @ \ b, ![p].left = run[p].to]
      BY <2>3 DEF NextBatch
    <3> DEFINE b == {n \in run[p].todo : n.rule <= last.rule}
    <3>2. b \subseteq run[p].todo
      OBVIOUS
    <3>3. run' = [run EXCEPT ![p].at = "send", ![p].batch = b, ![p].todo = @ \ b, ![p].left = run[p].to]
      BY <3>1
    <3> HIDE DEF b
    <3> DEFINE y == [run[p] EXCEPT !.at = "send", !.batch = b, !.todo = @ \ b, !.left = run[p].to]
    <3>4. run'[p] = y /\ \A q \in Runs \ {p} : run'[q] = run[q]
      BY <1>1, <3>3
    <3>5. /\ y.due = run[p].due /\ y.queue = run[p].queue /\ y.raced = run[p].raced
          /\ y.changed = run[p].changed /\ y.to = run[p].to /\ y.at = "send"
          /\ y.left = y.to /\ y.batch = b /\ y.todo = run[p].todo \ b
      BY <1>1 DEF RunSet
    <3> HIDE DEF y
    <3> QED
      BY <3>2, <3>4, <3>5
  <2> QED
    BY <2>1, <2>2, <2>3
<1>9. /\ Idle.at = "idle" /\ Idle.todo = {} /\ Idle.batch = {}
      /\ Idle.due = <<>> /\ Idle.queue = <<>>
  BY DEF Idle
<1>4. Shaped(x) /\ x.at # "load"
  <2>1. CASE x = Idle
    BY <1>9, <2>1, IdleShaped
  <2>2. CASE x.at = "save backoff" /\ x.todo = {} /\ x.batch = {}
    BY <2>2 DEF Shaped
  <2>3. CASE x.at = "send" /\ x.batch \subseteq run[p].todo /\ x.todo = run[p].todo \ x.batch
    BY <1>2, <2>3 DEF Shaped
  <2> QED
    BY <1>3, <2>1, <2>2, <2>3
<1>5. Plan(p)' \subseteq Plan(p)
  <2>1. x.todo \cup x.batch \subseteq run[p].todo \cup run[p].batch
    BY <1>3, <1>9
  <2> QED
    BY <1>3, <2>1 DEF Plan
<1>6. InHand(p)' \subseteq InHand(p)
  <2>1. CASE x = Idle
    BY <1>3, <1>9, <2>1, EmptyQueue DEF InHand
  <2>2. CASE x # Idle
    BY <1>3, <2>2 DEF InHand
  <2> QED
    BY <2>1, <2>2
<1>7. Out' \subseteq Out
  <2>1. got' \subseteq Out \cup {} /\ InHand(p)' \subseteq Out \cup {}
    BY <1>1, <1>6 DEF Out, history
  <2> QED
    BY <1>1, <1>3, <2>1, OutMoves
<1>8. ASSUME ~x.raced PROVE Mine(p)'
  <2>1. CASE x = Idle
    BY <1>3, <2>1, IdleMine, IdleShaped, IdleType DEF Idle
  <2>2. CASE x # Idle
    <3>1. Mine(p)
      BY <1>3, <1>8, <2>2 DEF Sound
    <3>2. Undelivered(p)' /\ HandOnce(p)'
      BY <1>1, <1>3, <1>6, <2>2, <3>1 DEF Mine, Undelivered, HandOnce, Excused, history
    <3>3. Unsent(p)'
      <4>1. got' \cup InHand(p)' \subseteq got \cup InHand(p)
        BY <1>1, <1>6 DEF history
      <4>2. x.todo \cup x.batch \subseteq run[p].todo
        BY <1>3, <2>2
      <4> QED
        BY <1>1, <1>3, <3>1, <4>1, <4>2 DEF Mine, Unsent, Excused, history
    <3>4. Latest(p)'
      BY <1>1, <1>2, <1>5, <1>7, <3>1, LatestKept DEF Mine, history
    <3>5. Counted(p)'
      BY <1>1, <1>5, <3>1 DEF Mine, Counted, Excused, history
    <3> QED
      BY <3>2, <3>3, <3>4, <3>5 DEF Mine
  <2> QED
    BY <2>1, <2>2
<1> QED
  <2>1. /\ ~At(p, "idle") /\ UNCHANGED <<cond, flips, pending, got, retaken, again>>
        /\ \A d : Told(d[2]) => Told(d[2])'
    BY <1>1 DEF At, world, history, Told
  <2>2. run[p].changed => run'[p].changed
    BY <1>3
  <2>3. /\ Shaped(run'[p]) /\ run'[p].at # "load" /\ Plan(p)' \subseteq Plan(p)
        /\ \A n \in run[p].batch : n \in run'[p].batch
        /\ Out' \subseteq Out \cup (Channels \X run[p].batch)
        /\ run'[p].raced \/ Mine(p)'
    BY <1>2, <1>3, <1>4, <1>5, <1>7, <1>8
  <2> QED
    BY <1>3, <2>1, <2>2, <2>3, MovesSound

LEMMA SendSound ==
    ASSUME Shape, Shape', Inv, Sound, NEW p \in Runs, Send(p), again = {}
    PROVE  Sound' /\ again' = {}
<1> DEFINE batch == run[p].batch
<1>1. /\ run[p].at = "send" /\ run[p] \in RunSet /\ run \in [Runs -> RunSet] /\ run[p].due = <<>>
      /\ run[p].queue \in Seq(Entries) /\ run[p].left \subseteq Channels
  BY DEF Send, Shape, Typed, RunSet, At, Fits
<1>2. PICK c \in run[p].left : SendTo(p, c)
  BY DEF Send
<1> DEFINE sent == {c} \X batch
<1>3. /\ UNCHANGED <<world, row, pending, backoff, faults, owed, retaken>>
      /\ again' = again \/ Delivered(p, c, batch)
  BY <1>2 DEF SendTo
<1>0. PICK x \in RunSet :
             /\ run' = [run EXCEPT ![p] = x]
             /\ x.due = run[p].due /\ x.at = "send" /\ x.to = run[p].to
             /\ x.left = run[p].left \ {c} /\ x.raced = run[p].raced /\ x.batch = run[p].batch
             /\ x.todo = run[p].todo
             /\ Len(x.queue) <= QueueMax
             /\ InQueue(run[p].queue) \subseteq InQueue(x.queue) \cup gone'
             /\ {c} \X run[p].batch \subseteq InQueue(x.queue) \cup got'
             /\ \/ x.queue = run[p].queue /\ (x.changed = run[p].changed \/ x.changed = TRUE)
                \/ x.changed = TRUE
             /\ \/ x.queue = run[p].queue /\ got' = got \cup ({c} \X run[p].batch)
                \/ /\ got' = got
                   /\ \E e \in Entries : /\ Pairs(e) = {c} \X run[p].batch
                                         /\ x.queue = Enqueue(run[p].queue, e)
  <2> HIDE DEF batch, sent
  <2>1. c \in Channels /\ At(p, "send")
    BY <1>1, <1>2 DEF At
  <2> QED
    BY <1>2, <2>1, SendMoves
<1>4. /\ run' = [run EXCEPT ![p] = x]
      /\ x.due = run[p].due /\ x.at = "send" /\ x.to = run[p].to
      /\ x.left = run[p].left \ {c} /\ x.raced = run[p].raced /\ x.batch = batch
      /\ x.todo = run[p].todo /\ (x.changed = run[p].changed \/ x.changed = TRUE)
      /\ \/ x.queue = run[p].queue /\ got' = got \cup sent
         \/ /\ got' = got
            /\ \E e \in Entries : /\ Pairs(e) = sent
                                  /\ x.queue = Enqueue(run[p].queue, e)
  BY <1>0
<1> HIDE DEF sent
<1>5. /\ run'[p] = x /\ (\A q \in Runs \ {p} : run'[q] = run[q])
      /\ run[p].changed => x.changed
  BY <1>1, <1>4
<1>6. InHand(p) = InQueue(run[p].queue) /\ InHand(p)' = InQueue(x.queue)
  BY <1>1, <1>4, <1>5, EmptyQueue DEF InHand
<1>7. /\ InHand(p)' \subseteq InHand(p) \cup sent /\ got' \subseteq got \cup sent
      /\ got' = got \/ InHand(p)' = InHand(p)
  BY <1>1, <1>4, <1>6, EnqueueTakes
<1>8. \A d \in sent : d \in Channels \X batch /\ d[1] = c /\ d[2] \in batch
  BY <1>1, <1>2 DEF sent
<1>9. Out' \subseteq Out \cup (Channels \X batch)
  <2> DEFINE Z == Channels \X batch
  <2>1. got' \subseteq Out \cup Z /\ InHand(p)' \subseteq Out \cup Z
    BY <1>7, <1>8 DEF Out
  <2> HIDE DEF Z
  <2>2. Out' \subseteq Out \cup Z
    BY <1>3, <1>5, <2>1, OutMoves
  <2> QED
    BY <2>2 DEF Z
<1>10. Plan(p)' = Plan(p)
  BY <1>4, <1>5 DEF Plan
<1>11. Shaped(run[p]) /\ Shaped(x)
  <2>1. Shaped(run[p])
    BY DEF Sound, Planned
  <2> QED
    BY <1>4, <2>1 DEF Shaped
\* A run that is alone sends what was not sent.
<1>12. ASSUME ~run[p].raced PROVE \A d \in sent : d \in got \cup InHand(p) => Excused(d[2])
  BY <1>2, <1>8, <1>12 DEF Sound, Mine, Unsent
<1>13. ASSUME ~x.raced PROVE Mine(p)'
  <2>1. Mine(p) /\ ~run[p].raced
    BY <1>4, <1>13 DEF Sound
  <2>2. \A d \in sent : d \in got \cup InHand(p) => Excused(d[2])
    BY <1>12, <2>1
  <2>3. Once(x.queue, retaken)
    <3>1. Once(run[p].queue, retaken)
      BY <2>1 DEF Mine, HandOnce
    <3>2. ASSUME NEW e \in Entries, Pairs(e) = sent, x.queue = Enqueue(run[p].queue, e)
          PROVE  Once(x.queue, retaken)
      <4>1. \A d \in Pairs(e) \cap InQueue(run[p].queue) : d[2].rule \in retaken
        BY <1>6, <2>2, <3>2 DEF Excused
      <4> QED
        BY <1>1, <3>1, <3>2, <4>1, OnceEnqueue
    <3> QED
      BY <1>4, <3>1, <3>2
  <2>4. HandOnce(p)'
    BY <1>1, <1>3, <1>4, <1>5, <2>3, EmptyQueue, OnceEmpty DEF HandOnce
  <2>5. Undelivered(p)'
    <3>1. ASSUME NEW d \in got' \cap InHand(p)' PROVE Excused(d[2])
      <4>1. d \in got \cap InHand(p) \/ d \in sent
        BY <1>7, <3>1
      <4>2. d \in got \cup InHand(p)
        BY <1>7, <3>1
      <4> QED
        BY <2>1, <2>2, <4>1, <4>2 DEF Mine, Undelivered
    <3> QED
      BY <1>3, <3>1 DEF Undelivered, Excused
  <2>6. Unsent(p)'
    <3>1. \A d \in got' \cup InHand(p)' : d \in got \cup InHand(p) \/ d \in sent
      BY <1>7
    <3>2. ASSUME NEW n \in run[p].todo, NEW d \in got' \cup InHand(p)', d[2] = n
          PROVE  Excused(n)
      <4>1. d \notin sent
        BY <1>8, <1>11, <3>2 DEF Shaped
      <4> QED
        BY <2>1, <3>1, <3>2, <4>1 DEF Mine, Unsent
    <3>3. ASSUME NEW n \in batch, NEW d \in got' \cup InHand(p)', d[2] = n,
                 d[1] \in run[p].left \ {c}
          PROVE  Excused(n)
      <4>1. d \notin sent
        BY <1>8, <3>3
      <4> QED
        BY <2>1, <3>1, <3>3, <4>1 DEF Mine, Unsent
    <3> QED
      BY <1>3, <1>4, <1>5, <3>2, <3>3 DEF Unsent, Excused
  <2>7. Latest(p)'
    BY <1>3, <1>9, <1>10, <1>11, <2>1, LatestKept DEF Mine
  <2>8. Counted(p)'
    BY <1>3, <1>10, <2>1 DEF Mine, Counted, Excused
  <2> QED
    BY <2>4, <2>5, <2>6, <2>7, <2>8 DEF Mine
<1>14. \A d \in got' \cap InQueue(pending) : d \in got \/ Excused(d[2])
  <2>1. \A d \in sent \cap InQueue(pending) : Excused(d[2])
    BY <1>8 DEF Sound, NotStored, Plan
  <2> QED
    BY <1>7, <2>1
<1>15. Sound'
  <2>1. /\ ~At(p, "idle") /\ UNCHANGED <<cond, flips, pending, retaken>>
        /\ \A d : Told(d[2]) => Told(d[2])'
    BY <1>1, <1>3 DEF At, world, Told
  <2>2. /\ Shaped(run'[p]) /\ run'[p].at # "load" /\ Plan(p)' \subseteq Plan(p)
        /\ run[p].changed => run'[p].changed
        /\ \A n \in run[p].batch : n \in run'[p].batch
        /\ Out' \subseteq Out \cup (Channels \X run[p].batch)
        /\ run'[p].raced \/ Mine(p)'
    BY <1>4, <1>5, <1>9, <1>10, <1>11, <1>13
  <2>3. \A d \in got' \cap InQueue(pending) : d \in got \/ d[2].rule \in retaken'
    BY <1>14, <2>1 DEF Excused
  <2> QED
    BY <1>5, <2>1, <2>2, <2>3, MovesSound
<1>16. again' = {}
  <2>1. CASE again' = again
    BY <2>1
  <2>2. CASE Delivered(p, c, batch)
    <3>1. CASE run[p].raced
      BY <2>2, <3>1 DEF Delivered
    <3>2. CASE ~run[p].raced
      <4>1. {d \in got \cap sent : d[2].rule \notin retaken} = {}
        BY <1>12, <3>2 DEF Excused
      <4> QED
        BY <2>2, <3>2, <4>1 DEF Delivered, sent
    <3> QED
      BY <3>1, <3>2
  <2> QED
    BY <1>3, <2>1, <2>2
<1> QED
  BY <1>15, <1>16

\* A committed notice is told by its row, and so is what its row told before.
LEMMA CommitSound ==
    ASSUME Shape, Shape', Inv, Sound, NEW p \in Runs, Commit(p)
    PROVE  Sound' /\ again' = again
<1>1. /\ run[p] \in RunSet /\ run \in [Runs -> RunSet] /\ run[p].at = "send"
      /\ row \in [Rules -> Rows] /\ Shaped(run[p])
  BY DEF Commit, Shape, Typed, At, Sound, Planned
<1>2. PICK n \in run[p].batch : CommitNotice(p, n)
  BY DEF Commit
<1>3. /\ row' = [row EXCEPT ![n.rule] = IF n.of = "bad" THEN Activated(@) ELSE Resolved(@)]
      /\ run' = [run EXCEPT ![p].batch = @ \ {n}, ![p].at = IF run[p].batch = {n} THEN "drain" ELSE @]
      /\ retaken' = IF run[p].raced THEN retaken \cup {n.rule} ELSE retaken
      /\ UNCHANGED <<world, pending, backoff, faults, got, gone, again>>
  BY <1>2 DEF CommitNotice
<1>4. /\ n \in NoticeSet /\ n.rule \in Rules /\ n \in Plan(p)
      /\ n.change \in Nat /\ n.nth \in Nat /\ n.of \in {"bad", "good"}
  <2>1. n \in NoticeSet
    BY <1>1, <1>2 DEF RunSet
  <2> QED
    BY <1>2, <2>1, Bounds DEF NoticeSet, Plan
<1> DEFINE at == IF run[p].batch = {n} THEN "drain" ELSE run[p].at
           x == [run[p] EXCEPT !.batch = @ \ {n}, !.at = at]
<1>5. run' = [run EXCEPT ![p] = x]
  BY <1>1, <1>3
<1>6. /\ x.due = run[p].due /\ x.queue = run[p].queue /\ x.changed = run[p].changed
      /\ x.raced = run[p].raced /\ x.to = run[p].to /\ x.left = run[p].left
      /\ x.batch = run[p].batch \ {n} /\ x.todo = run[p].todo /\ x.at = at
  BY <1>1 DEF RunSet
<1>7. (at = "drain" /\ x.batch = {}) \/ at = "send"
  BY <1>1, <1>6
<1> HIDE DEF x, at
<1>8. run'[p] = x /\ \A q \in Runs \ {p} : run'[q] = run[q]
  BY <1>1, <1>5
<1>9. Shaped(x) /\ x.at # "load"
  BY <1>1, <1>6, <1>7 DEF Shaped
<1>10. Plan(p)' \subseteq Plan(p) /\ InHand(p)' = InHand(p)
  BY <1>6, <1>8 DEF Plan, InHand
<1>11. Out' \subseteq Out
  <2>1. got' \subseteq Out \cup {} /\ InHand(p)' \subseteq Out \cup {}
    BY <1>3, <1>10 DEF Out
  <2> QED
    BY <1>3, <1>8, <2>1, OutMoves
<1>12. /\ \A r \in Rules \ {n.rule} : row'[r] = row[r]
       /\ row[n.rule].sent \in Nat /\ row[n.rule].sent <= MaxSent
       /\ n.of # "bad" => ~row'[n.rule].active
       /\ n.of = "bad" => /\ row'[n.rule].active
                          /\ row'[n.rule].sent = IF row[n.rule].sent < MaxSent
                                                 THEN row[n.rule].sent + 1 ELSE row[n.rule].sent
  <2>1. row[n.rule] \in Rows
    BY <1>1, <1>4
  <2>2. row[n.rule].sent \in Nat /\ row[n.rule].sent <= MaxSent
    BY <2>1, Bounds DEF Rows
  <2>3. row'[n.rule] = IF n.of = "bad" THEN Activated(row[n.rule]) ELSE Resolved(row[n.rule])
    BY <1>1, <1>3, <1>4
  <2>4. ~Resolved(row[n.rule]).active
    BY <2>1 DEF Rows, Resolved
  <2>5. \A r \in Rules \ {n.rule} : row'[r] = row[r]
    BY <1>1, <1>3
  <2>6. n.of # "bad" => ~row'[n.rule].active
    BY <2>3, <2>4
  <2>7. n.of = "bad" => row'[n.rule] = Activated(row[n.rule])
    BY <2>3
  <2> QED
    BY <2>2, <2>5, <2>6, <2>7 DEF Activated
<1>13. /\ n.rule \in retaken' \/ (~run[p].raced /\ Latest(p) /\ Counted(p))
       /\ retaken \subseteq retaken' /\ cond' = cond
  BY <1>3 DEF Sound, Mine, world
<1>14. n.rule \in retaken' \/ (~run[p].raced /\ Told(n)')
  <2> SUFFICES ASSUME n.rule \notin retaken' PROVE Told(n)'
    BY <1>13
  <2>1. n.nth < MaxSent /\ n.nth <= row[n.rule].sent
    BY <1>4, <1>13 DEF Counted, Excused
  <2>2. n.of = "bad" => n.nth < row'[n.rule].sent
    BY <1>4, <1>12, <2>1, Bounds
  <2> QED
    BY <1>12, <2>2 DEF Told
<1>15. ASSUME NEW d \in Out, Told(d[2]) PROVE Told(d[2])' \/ d[2].rule \in retaken'
  <2>1. /\ d[2] \in NoticeSet /\ d[2].rule \in Rules /\ d[2].change \in Nat
        /\ d[2].of \in {"bad", "good"} /\ d[2].nth \in Nat
    <3>1. d[2] \in NoticeSet
      BY DEF Sound, OutTyped
    <3> QED
      BY <3>1, Bounds DEF NoticeSet
  <2>2. CASE d[2].rule # n.rule
    BY <1>12, <1>13, <1>15, <2>1, <2>2 DEF Told
  <2>3. CASE d[2].rule = n.rule /\ n.rule \notin retaken' /\ d[2].change = cond[n.rule].change
    <3>1. d[2].change <= n.change
      BY <1>4, <1>13, <2>3 DEF Latest, Excused
    <3>2. Past(n) /\ Past(d[2])
      BY <1>4 DEF Sound, OfThePast
    <3>3. n.change = cond[n.rule].change
      <4>1. n.change <= cond[n.rule].change
        BY <3>2 DEF Past
      <4> QED
        BY <1>4, <2>1, <2>3, <3>1, <4>1
    <3>4. d[2].of = n.of
      BY <2>3, <3>2, <3>3 DEF Past
    <3>5. CASE n.of = "bad"
      <4>1. d[2].nth < row[n.rule].sent
        BY <1>15, <2>3, <3>4, <3>5 DEF Told
      <4>2. d[2].nth < row'[n.rule].sent
        BY <1>12, <2>1, <3>5, <4>1
      <4> QED
        BY <1>12, <2>3, <3>4, <3>5, <4>2 DEF Told
    <3>6. CASE n.of # "bad"
      BY <1>12, <2>3, <3>4, <3>6 DEF Told
    <3> QED
      BY <3>5, <3>6
  <2>4. CASE d[2].rule = n.rule /\ d[2].change # cond[n.rule].change
    BY <1>13, <2>4 DEF Told
  <2> QED
    BY <2>2, <2>3, <2>4
<1>16. ASSUME ~x.raced PROVE Mine(p)'
  <2>1. Mine(p) /\ retaken' = retaken
    BY <1>3, <1>6, <1>16 DEF Sound
  <2>2. Undelivered(p)' /\ HandOnce(p)'
    BY <1>3, <1>6, <1>8, <1>10, <2>1 DEF Mine, Undelivered, HandOnce, Excused
  <2>3. Unsent(p)'
    BY <1>3, <1>6, <1>8, <1>10, <2>1 DEF Mine, Unsent, Excused
  <2>4. Latest(p)'
    BY <1>1, <1>10, <1>11, <2>1, LatestKept DEF Mine
  <2>5. Counted(p)'
    <3>1. ASSUME NEW m \in Plan(p)' PROVE m \in Plan(p) /\ row'[m.rule] = row[m.rule]
      <4>1. m \in Plan(p) /\ m # n /\ m \in NoticeSet
        BY <1>1, <1>2, <1>6, <1>8 DEF Plan, Shaped, RunSet
      <4>2. m.rule # n.rule /\ m.rule \in Rules
        BY <1>1, <1>4, <4>1 DEF Shaped, Plan, NoticeSet
      <4> QED
        BY <1>12, <4>1, <4>2
    <3> QED
      BY <2>1, <3>1 DEF Mine, Counted, Excused
  <2> QED
    BY <2>2, <2>3, <2>4, <2>5 DEF Mine
<1> QED
  <2>1. /\ ~At(p, "idle") /\ UNCHANGED <<cond, flips, pending, got, again>> /\ retaken \subseteq retaken'
    BY <1>1, <1>3 DEF At, world
  <2>2. /\ Shaped(run'[p]) /\ run'[p].at # "load" /\ Plan(p)' \subseteq Plan(p)
        /\ run[p].changed => run'[p].changed
        /\ Out' \subseteq Out \cup (Channels \X run[p].batch)
        /\ run'[p].raced \/ Mine(p)'
    BY <1>6, <1>8, <1>9, <1>10, <1>11, <1>16
  <2>3. \A m \in run[p].batch : m \in run'[p].batch \/ m.rule \in retaken' \/ (~run[p].raced /\ Told(m)')
    BY <1>6, <1>8, <1>14
  <2> QED
    BY <1>8, <1>15, <2>1, <2>2, <2>3, MovesSound

LEMMA SaveBackoffSound ==
    ASSUME Shape, Shape', Inv, Sound, NEW p \in Runs, SaveBackoff(p)
    PROVE  Sound' /\ again' = again
<1>1. /\ run[p] \in RunSet /\ run \in [Runs -> RunSet] /\ run[p].at = "save backoff"
      /\ run' = [run EXCEPT ![p].at = "save queue"] /\ Shaped(run[p])
      /\ UNCHANGED <<world, row, pending, faults, history>>
  BY DEF SaveBackoff, Shape, Typed, At, Sound, Planned
<1> DEFINE x == [run[p] EXCEPT !.at = "save queue"]
<1>2. run'[p] = x /\ \A q \in Runs \ {p} : run'[q] = run[q]
  BY <1>1
<1>3. /\ x.due = run[p].due /\ x.queue = run[p].queue /\ x.changed = run[p].changed
      /\ x.raced = run[p].raced /\ x.to = run[p].to /\ x.left = run[p].left /\ x.at = "save queue"
      /\ x.todo = run[p].todo /\ x.batch = run[p].batch
  BY <1>1 DEF RunSet
<1> HIDE DEF x
<1>4. Shaped(x)
  BY <1>1, <1>3 DEF Shaped
<1>5. Plan(p)' = Plan(p) /\ InHand(p)' = InHand(p)
  BY <1>2, <1>3 DEF Plan, InHand
<1>6. Out' \subseteq Out
  <2>1. got' \subseteq Out \cup {} /\ InHand(p)' \subseteq Out \cup {}
    BY <1>1, <1>5 DEF Out, history
  <2> QED
    BY <1>1, <1>2, <2>1, OutMoves
<1>7. UNCHANGED <<cond, flips, row, pending, got, retaken, again>>
  BY <1>1 DEF world, history
<1>8. ASSUME ~x.raced PROVE Mine(p)'
  <2>1. Mine(p)
    BY <1>3, <1>8 DEF Sound
  <2>2. Undelivered(p)' /\ HandOnce(p)'
    BY <1>2, <1>3, <1>5, <1>7, <2>1 DEF Mine, Undelivered, HandOnce, Excused
  <2>3. Unsent(p)'
    BY <1>2, <1>3, <1>5, <1>7, <2>1 DEF Mine, Unsent, Excused
  <2>4. Latest(p)' /\ Counted(p)'
    <3>1. Latest(p)'
      BY <1>1, <1>5, <1>6, <1>7, <2>1, LatestKept DEF Mine
    <3> QED
      BY <1>5, <1>7, <2>1, <3>1 DEF Mine, Counted, Excused
  <2> QED
    BY <2>2, <2>3, <2>4 DEF Mine
<1> QED
  <2>1. ~At(p, "idle") /\ \A d : Told(d[2]) => Told(d[2])'
    BY <1>1, <1>7 DEF At, Told
  <2>2. /\ Shaped(run'[p]) /\ run'[p].at # "load" /\ Plan(p)' \subseteq Plan(p)
        /\ run[p].changed => run'[p].changed
        /\ \A n \in run[p].batch : n \in run'[p].batch
        /\ Out' \subseteq Out \cup (Channels \X run[p].batch)
        /\ run'[p].raced \/ Mine(p)'
    BY <1>2, <1>3, <1>4, <1>5, <1>6, <1>8
  <2> QED
    BY <1>2, <1>7, <2>1, <2>2, MovesSound

\* What replaces the stored queue is of a run that is alone, or may be sent again.
LEMMA SaveQueueSound ==
    ASSUME Shape, Shape', Inv, Sound, NEW p \in Runs, SaveQueue(p)
    PROVE  Sound' /\ again' = again
<1>1. /\ run[p] \in RunSet /\ run \in [Runs -> RunSet] /\ run[p].at = "save queue"
      /\ run' = [run EXCEPT ![p] = Idle] /\ pending' = run[p].queue
      /\ retaken' = IF run[p].raced THEN retaken \cup Carried(p) ELSE retaken
      /\ UNCHANGED <<world, row, backoff, faults, owed, got, again>>
      /\ Shaped(run[p]) /\ Fits(run[p])
  BY DEF SaveQueue, Shape, Typed, At, Sound, Planned
<1>2. run'[p] = Idle /\ \A q \in Runs \ {p} : run'[q] = run[q]
  BY <1>1
<1>3. run[p].due = <<>> /\ run[p].batch = {}
  BY <1>1 DEF Fits, Shaped
<1>4. /\ InHand(p) = InQueue(run[p].queue) /\ InQueue(pending)' = InQueue(run[p].queue)
      /\ InHand(p)' = {} /\ Plan(p)' = {}
  <2>1. InQueue(pending)' = InQueue(run[p].queue)
    BY <1>1 DEF InQueue
  <2>2. Idle.due = <<>> /\ Idle.queue = <<>> /\ Idle.todo = {} /\ Idle.batch = {}
    BY DEF Idle
  <2> QED
    BY <1>2, <1>3, <2>1, <2>2, EmptyQueue DEF InHand, Plan
<1>5. run[p].raced => \A d \in InHand(p) : d[2].rule \in retaken'
  BY <1>1 DEF Carried
<1>6. Out' \subseteq Out
  <2>1. \A q \in Runs : InHand(q)' \subseteq InHand(q)
    BY <1>2, <1>4 DEF InHand
  <2>2. InQueue(pending)' \subseteq InHand(p)
    BY <1>4
  <2>3. \A d \in InQueue(pending)' : d \in Out
    BY <2>2 DEF Out
  <2>4. \A q \in Runs : \A d \in InHand(q)' : d \in Out
    BY <2>1 DEF Out
  <2>5. \A d \in got' : d \in Out
    BY <1>1 DEF Out
  <2>6. \A d \in Out' : d \in got' \/ d \in InQueue(pending)' \/ \E q \in Runs : d \in InHand(q)'
    BY DEF Out
  <2> QED
    BY <2>3, <2>4, <2>5, <2>6
<1>7. NotStored'
  <2> SUFFICES ASSUME NEW q \in Runs, NEW n \in Plan(q)', NEW d \in InQueue(pending)', d[2] = n
               PROVE  n.rule \in retaken'
    BY DEF NotStored, Excused
  <2>1. q # p
    BY <1>4
  <2>2. run[q].todo # {} \/ run[q].batch # {}
    BY <1>2, <2>1 DEF Plan
  <2>3. run[q].at # "idle"
    BY <2>2 DEF Sound, Planned, Shaped
  <2>4. run[p].raced
    BY <1>1, <2>1, <2>3 DEF Inv, Alone, At
  <2> QED
    BY <1>4, <1>5, <2>4
<1>8. Settling'
  <2> SUFFICES ASSUME NEW d \in got \cap InHand(p) PROVE d[2].rule \in retaken'
    BY <1>1, <1>4 DEF Settling, Excused
  <2> QED
    BY <1>1, <1>5 DEF Sound, Mine, Undelivered, Excused
<1>9. Once(pending, retaken)'
  <2>1. Once(run[p].queue, retaken')
    <3>1. CASE run[p].raced
      BY <1>4, <1>5, <3>1, OnceExcused
    <3>2. CASE ~run[p].raced
      BY <1>1, <3>2 DEF Sound, Mine, HandOnce
    <3> QED
      BY <3>1, <3>2
  <2> QED
    BY <1>1, <2>1
<1> QED
  <2>1. /\ ~At(p, "idle") /\ UNCHANGED <<cond, flips, row, again>> /\ retaken \subseteq retaken'
    BY <1>1 DEF At, world
  <2> QED
    BY <1>2, <1>3, <1>6, <1>7, <1>8, <1>9, <2>1, EndsSound

\* A run that dies may have sent, or stored, all it had in its hands.
LEMMA DiesSound ==
    ASSUME Shape, Shape', Inv, Sound, NEW p \in Runs, Dies(p)
    PROVE  Sound' /\ again' = again
<1>1. /\ ~At(p, "idle") /\ run \in [Runs -> RunSet] /\ run' = [run EXCEPT ![p] = Idle]
      /\ retaken' = retaken \cup Carried(p)
      /\ UNCHANGED <<world, row, pending, backoff, owed, got, again>>
  BY DEF Dies, Shape, Typed, Busy
<1>2. run'[p] = Idle /\ \A q \in Runs \ {p} : run'[q] = run[q]
  BY <1>1
<1>3. /\ \A n \in run[p].batch : n.rule \in retaken'
      /\ \A d \in InQueue(pending) : d[2].rule \in retaken'
  BY <1>1 DEF Carried
<1>4. InHand(p)' = {} /\ InQueue(pending)' = InQueue(pending)
  <2>1. Idle.due = <<>> /\ Idle.queue = <<>>
    BY DEF Idle
  <2> QED
    BY <1>1, <1>2, <2>1, EmptyQueue DEF InHand, InQueue
<1>5. Out' \subseteq Out
  <2>1. got' \subseteq Out \cup {} /\ InHand(p)' \subseteq Out \cup {}
    BY <1>1, <1>4 DEF Out
  <2> QED
    BY <1>1, <1>2, <2>1, OutMoves
<1>6. NotStored' /\ Settling'
  BY <1>3, <1>4 DEF NotStored, Settling, Excused
<1>7. Once(pending, retaken)'
  BY <1>1, <1>3, OnceExcused
<1> QED
  <2>1. UNCHANGED <<cond, flips, row, again>> /\ retaken \subseteq retaken'
    BY <1>1 DEF world
  <2> QED
    BY <1>1, <1>2, <1>3, <1>5, <1>6, <1>7, <2>1, EndsSound

\* What a rule is to be told of its row does not tell yet.
LEMMA NotToldYet ==
    ASSUME Shape, NEW r \in Rules, ShouldNote(r)
    PROVE  /\ Notice(r).rule = r /\ Notice(r) \in NoticeSet /\ Past(Notice(r)) /\ ~Told(Notice(r))
           /\ Notice(r).nth < MaxSent /\ Notice(r).nth <= row[r].sent
           /\ Notice(r).change = cond[r].change
<1>1. /\ cond[r].is \in {"bad", "good"} /\ cond[r].change \in Nat
      /\ row[r].sent \in Nat /\ row[r].active \in BOOLEAN
  BY Bounds DEF Shape, Typed, ShouldNote, Rows
<1> DEFINE n == Notice(r)
<1>2. /\ n.rule = r /\ n.of = cond[r].is /\ n.change = cond[r].change
      /\ n.nth = IF cond[r].is = "bad" /\ row[r].active THEN row[r].sent ELSE 0
  BY DEF Notice
<1>3. n \in NoticeSet
  BY NoticeType DEF Shape
<1> HIDE DEF n
<1>4. Past(n)
  BY <1>1, <1>2 DEF Past
<1>5. ~Told(n)
  <2>1. CASE cond[r].is = "bad"
    BY <1>1, <1>2, <2>1 DEF Told
  <2>2. CASE cond[r].is = "good"
    BY <1>2, <2>2 DEF Told, ShouldNote
  <2> QED
    BY <1>1, <2>1, <2>2
<1>6. n.nth < MaxSent
  <2>1. CASE cond[r].is = "bad" /\ row[r].active
    BY <1>2, <2>1 DEF ShouldNote, Repeats
  <2>2. CASE ~(cond[r].is = "bad" /\ row[r].active)
    BY <1>2, <2>2, Bounds
  <2> QED
    BY <2>1, <2>2
<1>7. n.nth <= row[r].sent
  BY <1>1, <1>2
<1> QED
  BY <1>2, <1>3, <1>4, <1>5, <1>6, <1>7 DEF n

LEMMA StartSound ==
    ASSUME Shape, Shape', Inv, Sound, NEW p \in Runs, Start(p)
    PROVE  Sound' /\ again' = again
<1> DEFINE to == {c \in Channels : health[c] # "off"}
           todo == {Notice(r) : r \in {x \in Rules : ShouldNote(x) /\ Reached(x)}}
           silent == {r \in Rules : ShouldClear(r)}
           new == [Idle EXCEPT !.at = "load", !.to = to, !.raced = Busy # {},
                               !.todo = todo, !.silent = silent]
<1>1. /\ run \in [Runs -> RunSet] /\ At(p, "idle") /\ Fits(run[p]) /\ Shaped(run[p])
      /\ UNCHANGED <<world, row, pending, backoff, history>>
      /\ run' = [q \in Runs |-> IF q = p THEN new ELSE [run[q] EXCEPT !.raced = run[q].at # "idle"]]
  BY DEF Start, Shape, Typed, Sound, Planned
<1>2. ASSUME NEW n \in todo
      PROVE  /\ n \in NoticeSet /\ n.rule \in Rules /\ ShouldNote(n.rule) /\ n = Notice(n.rule)
             /\ Past(n) /\ ~Told(n) /\ n.nth < MaxSent /\ n.nth <= row[n.rule].sent
             /\ n.change = cond[n.rule].change
  <2>1. PICK r \in Rules : ShouldNote(r) /\ n = Notice(r)
    OBVIOUS
  <2> QED
    BY <2>1, NotToldYet
<1>3. ASSUME NEW r \in silent PROVE r \in Rules /\ cond[r].is # "bad" /\ ~ShouldNote(r)
  BY DEF ShouldClear, ShouldNote
<1> HIDE DEF to, todo, silent
<1>4. /\ new.at = "load" /\ new.due = <<>> /\ new.queue = <<>> /\ new.todo = todo
      /\ new.batch = {} /\ new.silent = silent /\ new.to = to
      /\ new.left = {} /\ new.raced = (Busy # {}) /\ new.changed = FALSE
  BY DEF Idle
<1> HIDE DEF new
<1>5. ASSUME NEW q \in Runs \ {p}
      PROVE  /\ run'[q].at = run[q].at /\ run'[q].due = run[q].due /\ run'[q].queue = run[q].queue
             /\ run'[q].changed = run[q].changed /\ run'[q].to = run[q].to
             /\ run'[q].todo = run[q].todo /\ run'[q].silent = run[q].silent
             /\ run'[q].left = run[q].left /\ run'[q].batch = run[q].batch
             /\ run'[q].raced = (run[q].at # "idle")
  <2> DEFINE x == [run[q] EXCEPT !.raced = run[q].at # "idle"]
  <2>1. run'[q] = x /\ run[q] \in RunSet
    BY <1>1
  <2>2. /\ x.at = run[q].at /\ x.due = run[q].due /\ x.queue = run[q].queue
        /\ x.changed = run[q].changed /\ x.to = run[q].to /\ x.todo = run[q].todo
        /\ x.left = run[q].left /\ x.batch = run[q].batch /\ x.silent = run[q].silent
        /\ x.raced = (run[q].at # "idle")
    BY <2>1 DEF RunSet
  <2> HIDE DEF x
  <2> QED
    BY <2>1, <2>2
<1>6. run'[p] = new
  BY <1>1
<1>7. /\ InHand(p) = {} /\ InHand(p)' = {} /\ run[p].batch = {} /\ run[p].todo = {}
      /\ ~run[p].changed
      /\ \A q \in Runs \ {p} : InHand(q)' = InHand(q) /\ Plan(q)' = Plan(q)
      /\ Plan(p)' = todo
  <2>1. /\ run[p].due = <<>> /\ run[p].queue = <<>> /\ run[p].batch = {} /\ run[p].todo = {}
        /\ ~run[p].changed
    BY <1>1 DEF Fits, At, Shaped
  <2>2. \A q \in Runs \ {p} : InHand(q)' = InHand(q) /\ Plan(q)' = Plan(q)
    BY <1>5 DEF InHand, Plan
  <2> QED
    BY <1>4, <1>6, <2>1, <2>2, EmptyQueue DEF InHand, Plan
<1>8. InQueue(pending)' = InQueue(pending) /\ Out' = Out
  <2>1. InQueue(pending)' = InQueue(pending)
    BY <1>1 DEF InQueue
  <2>2. \A q \in Runs : InHand(q)' = InHand(q)
    BY <1>7
  <2> QED
    BY <1>1, <2>1, <2>2 DEF Out, history
<1>9. UNCHANGED <<cond, flips, row, pending, got, retaken, again>>
  BY <1>1 DEF world, history
<1>10. /\ \A n : Past(n) <=> Past(n)'
       /\ \A n : Told(n) <=> Told(n)'
       /\ \A n : Excused(n) <=> Excused(n)'
  BY <1>9 DEF Past, Told, Excused
<1>11. \A q \in Runs : run[q].batch \subseteq run'[q].batch /\ (run[q].changed => run'[q].changed)
  BY <1>5, <1>7
\* Nothing of the plan is on its way: its row would say so.
<1>12. ASSUME NEW n \in todo, NEW d \in Out, d[2] = n
       PROVE  Excused(n) \/ \E q \in Runs \ {p} : n \in run[q].batch
  BY <1>2, <1>7, <1>12 DEF Sound, SentIsTold
<1>13. OutTyped' /\ SentIsTold'
  BY <1>8, <1>10, <1>11 DEF Sound, OutTyped, SentIsTold
<1>14. OfThePast'
  <2>1. \A q \in Runs : \A n \in Plan(q)' : Past(n)
    BY <1>2, <1>7 DEF Sound, OfThePast
  <2>2. \A d \in Out : Past(d[2])
    BY DEF Sound, OfThePast
  <2>3. \A r \in Rules : cond'[r].change <= flips'
    BY <1>9 DEF Sound, OfThePast
  <2> QED
    BY <1>8, <1>10, <2>1, <2>2, <2>3 DEF OfThePast
<1>15. NotStored'
  <2> SUFFICES ASSUME NEW q \in Runs, NEW n \in Plan(q)', NEW d \in InQueue(pending), d[2] = n
               PROVE  Excused(n)
    BY <1>8, <1>10 DEF NotStored
  <2>1. CASE q # p
    BY <1>7, <2>1 DEF Sound, NotStored
  <2>2. CASE q = p
    <3>1. n \in todo /\ d \in Out
      BY <1>7, <2>2 DEF Out
    <3>2. Excused(n) \/ \E o \in Runs : n \in Plan(o)
      BY <1>12, <3>1 DEF Plan
    <3> QED
      BY <3>2 DEF Sound, NotStored
  <2> QED
    BY <2>1, <2>2
<1>16. Settling'
  BY <1>8, <1>9, <1>10, <1>11 DEF Sound, Settling
<1>17. Resolving'
  <2> SUFFICES ASSUME NEW q \in Runs, run'[q].at = "load", NEW r \in run'[q].silent,
                      NEW d \in Out, d[2].rule = r, d[2].of = "bad",
                      d[2].change = cond[r].change
               PROVE  Excused(d[2]) \/ \E o \in Runs : d[2] \in run'[o].batch
    BY <1>8, <1>9, <1>10 DEF Resolving, At
  <2>1. CASE q = p
    <3>1. r \in silent
      BY <1>4, <1>6, <2>1
    <3>2. Past(d[2])
      BY DEF Sound, OfThePast
    <3>3. cond[r].is = "bad"
      BY <3>2 DEF Past
    <3> QED
      BY <1>3, <3>1, <3>3
  <2>2. CASE q # p
    BY <1>5, <1>11, <2>2 DEF Sound, Resolving, At
  <2> QED
    BY <2>1, <2>2
<1>18. Planned'
  <2>1. Shaped(new)
    <3>1. \A m, n \in todo : m.rule = n.rule => m = n
      BY <1>2
    <3>2. \A n \in todo : n.rule \notin silent
      BY <1>2, <1>3
    <3> QED
      BY <1>4, <3>1, <3>2 DEF Shaped
  <2>2. ASSUME NEW q \in Runs \ {p} PROVE Shaped(run'[q])
    <3>1. Shaped(run[q])
      BY DEF Sound, Planned
    <3>2. /\ run'[q].at = run[q].at /\ run'[q].changed = run[q].changed
          /\ run'[q].todo = run[q].todo /\ run'[q].silent = run[q].silent
          /\ run'[q].batch = run[q].batch
      BY <1>5
    <3> QED
      BY <3>1, <3>2 DEF Shaped
  <2> QED
    BY <1>6, <2>1, <2>2 DEF Planned
<1>19. ASSUME NEW q \in Runs, ~run'[q].raced PROVE Mine(q)'
  <2>1. CASE q # p
    <3>1. run'[q].at = "idle"
      BY <1>5, <1>19, <2>1
    <3>2. Fits(run'[q]) /\ Shaped(run'[q])
      BY <1>18 DEF Shape, Planned
    <3> QED
      BY <3>1, <3>2, IdleMine
  <2>2. CASE q = p
    <3>1. \A o \in Runs : run[o].batch = {}
      <4>1. \A o \in Runs : run[o].at = "idle"
        BY <1>4, <1>6, <1>19, <2>2 DEF Busy, At
      <4> QED
        BY <4>1 DEF Sound, Planned, Shaped
    <3>2. HandOnce(p)'
      <4>1. run'[p].due = <<>> /\ run'[p].queue = <<>>
        BY <1>4, <1>6
      <4> QED
        BY <4>1, EmptyQueue, OnceEmpty DEF HandOnce
    <3>3. Undelivered(p)'
      BY <1>7 DEF Undelivered
    <3>4. Unsent(p)'
      <4>1. run'[p].todo = todo /\ run'[p].batch = {}
        BY <1>4, <1>6
      <4>2. \A d \in got' \cup InHand(p)' : d \in Out
        BY <1>7, <1>9 DEF Out
      <4>3. \A n \in todo : \A d \in Out : d[2] = n => Excused(n)
        BY <1>12, <3>1
      <4> QED
        BY <1>10, <4>1, <4>2, <4>3 DEF Unsent
    <3>5. Latest(p)'
      <4>1. ASSUME NEW n \in todo, NEW d \in Out, d[2].rule = n.rule
            PROVE  d[2].change <= n.change
        <5>1. Past(d[2])
          BY DEF Sound, OfThePast
        <5> QED
          BY <1>2, <4>1, <5>1 DEF Past
      <4> QED
        BY <1>7, <1>8, <4>1 DEF Latest
    <3>6. Counted(p)'
      <4>1. \A n \in todo : n.nth < MaxSent /\ n.nth <= row[n.rule].sent
        BY <1>2
      <4>2. Plan(p)' = todo /\ row' = row
        BY <1>7, <1>9
      <4> QED
        BY <4>1, <4>2 DEF Counted
    <3> QED
      BY <2>2, <3>2, <3>3, <3>4, <3>5, <3>6 DEF Mine
  <2> QED
    BY <2>1, <2>2
<1>20. Once(pending, retaken)'
  BY <1>9 DEF Sound
<1> QED
  BY <1>9, <1>13, <1>14, <1>15, <1>16, <1>17, <1>18, <1>19, <1>20 DEF Sound

\* A step of no run, that changes no queue's notices and no row's decision.
LEMMA QuietSound ==
    ASSUME Shape, Sound, UNCHANGED <<run, cond, flips, got, retaken>>,
           InQueue(pending)' = InQueue(pending), Once(pending, retaken)',
           \A r \in Rules : row'[r].active = row[r].active /\ row'[r].sent = row[r].sent
    PROVE  Sound'
<1>1. /\ \A p \in Runs : InHand(p)' = InHand(p) /\ Plan(p)' = Plan(p)
      /\ Out' = Out
  <2>1. \A p \in Runs : InHand(p)' = InHand(p) /\ Plan(p)' = Plan(p)
    BY DEF InHand, Plan
  <2> QED
    BY <2>1 DEF Out
<1>2. /\ \A n : Past(n) <=> Past(n)'
      /\ \A n : Excused(n) <=> Excused(n)'
  BY DEF Past, Excused
<1>3. \A d \in Out : Told(d[2]) => Told(d[2])'
  <2>1. \A d \in Out : d[2].rule \in Rules
    BY DEF Sound, OutTyped, NoticeSet
  <2> QED
    BY <2>1 DEF Told
<1>4. OutTyped' /\ OfThePast'
  BY <1>1, <1>2 DEF Sound, OutTyped, OfThePast
<1>5. SentIsTold'
  BY <1>1, <1>2, <1>3 DEF Sound, SentIsTold
<1>6. NotStored' /\ Settling'
  BY <1>1, <1>2 DEF Sound, NotStored, Settling
<1>7. Resolving' /\ Planned'
  BY <1>1, <1>2 DEF Sound, Resolving, Planned, At
<1>8. ASSUME NEW p \in Runs, ~run'[p].raced PROVE Mine(p)'
  <2>1. Mine(p)
    BY <1>8 DEF Sound
  <2>2. Undelivered(p)' /\ HandOnce(p)' /\ Unsent(p)' /\ Latest(p)'
    BY <1>1, <1>2, <2>1 DEF Mine, Undelivered, HandOnce, Unsent, Latest
  <2>3. \A n \in Plan(p) : n.rule \in Rules
    BY DEF Shape, Typed, RunSet, NoticeSet, Plan
  <2>4. Counted(p)'
    BY <1>1, <1>2, <2>1, <2>3 DEF Mine, Counted
  <2> QED
    BY <2>2, <2>4 DEF Mine
<1> QED
  BY <1>4, <1>5, <1>6, <1>7, <1>8 DEF Sound

LEMMA TickSound ==
    ASSUME Shape, Sound, Tick
    PROVE  Sound' /\ again' = again
<1>1. /\ UNCHANGED <<world, run, faults, history>>
      /\ pending' = [i \in DOMAIN pending |-> [pending[i] EXCEPT !.wait = Less(@)]]
      /\ pending \in Seq(Entries)
  BY DEF Tick, Shape, Typed
<1>2. DOMAIN pending' = DOMAIN pending /\ \A i \in DOMAIN pending : Pairs(pending'[i]) = Pairs(pending[i])
  <2> SUFFICES ASSUME NEW i \in DOMAIN pending PROVE Pairs(pending'[i]) = Pairs(pending[i])
    BY <1>1
  <2>1. pending[i] \in Entries /\ pending'[i] = [pending[i] EXCEPT !.wait = Less(@)]
    BY <1>1
  <2> QED
    BY <2>1 DEF Entries, Pairs
<1>3. InQueue(pending)' = InQueue(pending)
  <2>1. InQueue(pending)' = InQueue(pending')
    BY DEF InQueue
  <2>2. \A d : d \in InQueue(pending') <=> d \in InQueue(pending)
    BY <1>2, InQueueDef
  <2> QED
    BY <2>1, <2>2
<1>4. UNCHANGED <<run, cond, flips, got, retaken, again>>
  BY <1>1 DEF world, history
<1>5. Once(pending, retaken)'
  <2>1. Once(pending, retaken)
    BY DEF Sound
  <2>2. \A d : Apart(d, pending) => Apart(d, pending')
    BY <1>2 DEF Apart
  <2>3. InQueue(pending') = InQueue(pending)
    BY <1>3 DEF InQueue
  <2>4. Once(pending', retaken)
    BY <2>1, <2>2, <2>3 DEF Once
  <2> QED
    BY <1>4, <2>4
<1>6. \A r \in Rules : row'[r].active = row[r].active /\ row'[r].sent = row[r].sent
  <2> SUFFICES ASSUME NEW r \in Rules PROVE row'[r].active = row[r].active /\ row'[r].sent = row[r].sent
    OBVIOUS
  <2>1. row[r] \in Rows /\ (row'[r] = row[r] \/ row'[r] = [row[r] EXCEPT !.since = @ + 1])
    BY DEF Tick, Shape, Typed
  <2> QED
    BY <2>1 DEF Rows
<1> QED
  BY <1>3, <1>4, <1>5, <1>6, QuietSound

\* What was sent for a condition says nothing of the change that follows it.
LEMMA FlipSound ==
    ASSUME Shape, Shape', Sound, Flip
    PROVE  Sound' /\ again' = again
<1>1. /\ UNCHANGED <<row, pending, run, got, retaken, again>>
      /\ flips \in Nat /\ flips' = flips + 1 /\ MaxFlips \in Nat
  BY Bounds DEF Flip, history, Shape, Typed
<1>2. ASSUME NEW r \in Rules
      PROVE  /\ cond[r].change \in Nat /\ cond[r].change <= flips
             /\ cond'[r] = cond[r] \/ cond'[r].change = flips + 1
  <2>1. cond[r].change \in Nat /\ cond[r].change <= flips
    BY <1>1 DEF Sound, OfThePast, Shape, Typed
  <2>2. cond'[r] = cond[r] \/ cond'[r].change = flips + 1
    <3>1. CASE cond' = cond
      BY <3>1
    <3>2. ASSUME NEW s \in Rules, NEW is,
                 cond' = [cond EXCEPT ![s] = [is |-> is, change |-> flips + 1]]
          PROVE  cond'[r] = cond[r] \/ cond'[r].change = flips + 1
      BY <3>2 DEF Shape, Typed
    <3> QED
      BY <3>1, <3>2 DEF Flip
  <2> QED
    BY <2>1, <2>2
<1>3. ASSUME NEW n \in NoticeSet, Past(n)
      PROVE  /\ Past(n)' /\ (Told(n) => Told(n)')
             /\ n.change = cond'[n.rule].change => n.change = cond[n.rule].change
  <2>1. n.rule \in Rules /\ n.change \in Nat /\ n.change <= cond[n.rule].change
    BY <1>1, <1>3 DEF NoticeSet, Past
  <2>2. CASE cond'[n.rule] = cond[n.rule]
    BY <1>1, <1>3, <2>2 DEF Past, Told
  <2>3. CASE cond'[n.rule].change = flips + 1
    <3>1. n.change < cond'[n.rule].change
      BY <1>1, <1>2, <2>1, <2>3
    <3>2. n.change # cond'[n.rule].change /\ n.change <= cond'[n.rule].change
      BY <1>1, <2>1, <2>3, <3>1
    <3> QED
      BY <3>2 DEF Past, Told
  <2> QED
    BY <1>2, <2>1, <2>2, <2>3
<1>4. /\ \A p \in Runs : InHand(p)' = InHand(p) /\ Plan(p)' = Plan(p)
      /\ Out' = Out /\ InQueue(pending)' = InQueue(pending)
  <2>1. InQueue(pending)' = InQueue(pending) /\ \A p \in Runs : InHand(p)' = InHand(p) /\ Plan(p)' = Plan(p)
    BY <1>1 DEF InHand, Plan, InQueue
  <2> QED
    BY <1>1, <2>1 DEF Out
<1>5. \A d \in Out : d[2] \in NoticeSet /\ Past(d[2])
  BY DEF Sound, OutTyped, OfThePast
<1>6. \A p \in Runs : \A n \in Plan(p) : n \in NoticeSet /\ Past(n)
  BY DEF Sound, OfThePast, Shape, Typed, RunSet, Plan
<1>7. \A n : Excused(n) <=> Excused(n)'
  BY <1>1 DEF Excused
<1>8. OutTyped' /\ SentIsTold'
  BY <1>1, <1>3, <1>4, <1>5, <1>7 DEF Sound, OutTyped, SentIsTold
<1>9. OfThePast'
  <2>1. \A r \in Rules : cond'[r].change <= flips'
    BY <1>1, <1>2
  <2> QED
    BY <1>3, <1>4, <1>5, <1>6, <2>1 DEF OfThePast
<1>10. NotStored' /\ Settling' /\ Planned' /\ Once(pending, retaken)'
  BY <1>1, <1>4, <1>7 DEF Sound, NotStored, Settling, Planned
<1>11. Resolving'
  <2> SUFFICES ASSUME NEW q \in Runs, run[q].at = "load", NEW r \in run[q].silent,
                      NEW d \in Out, d[2].rule = r, d[2].of = "bad",
                      d[2].change = cond'[r].change
               PROVE  Excused(d[2]) \/ \E o \in Runs : d[2] \in run[o].batch
    BY <1>1, <1>4, <1>7 DEF Resolving, At
  <2>1. d[2].change = cond[r].change
    BY <1>3, <1>5
  <2> QED
    BY <2>1 DEF Sound, Resolving, At
<1>12. ASSUME NEW p \in Runs, ~run'[p].raced PROVE Mine(p)'
  <2>1. Mine(p)
    BY <1>1, <1>12 DEF Sound
  <2> QED
    BY <1>1, <1>4, <1>7, <2>1 DEF Mine, Undelivered, HandOnce, Unsent, Latest, Counted
<1> QED
  BY <1>1, <1>8, <1>9, <1>10, <1>11, <1>12 DEF Sound

LEMMA InitSound == Init => Sound /\ again = {}
<1> SUFFICES ASSUME Init PROVE Sound /\ again = {}
  OBVIOUS
<1>1. /\ \A p \in Runs : run[p] = Idle
      /\ pending = <<>> /\ got = {} /\ again = {} /\ flips = 0
      /\ \A r \in Rules : cond[r].change = 0
  BY DEF Init
<1>2. /\ Idle.at = "idle" /\ Idle.due = <<>> /\ Idle.queue = <<>>
      /\ Idle.todo = {} /\ Idle.batch = {} /\ Shaped(Idle)
  BY IdleShaped DEF Idle
<1>3. \A p \in Runs : InHand(p) = {} /\ Plan(p) = {}
  BY <1>1, <1>2, EmptyQueue DEF InHand, Plan
<1>4. InQueue(pending) = {} /\ Out = {}
  BY <1>1, <1>3, EmptyQueue DEF Out
<1>5. OutTyped /\ SentIsTold /\ NotStored /\ Settling
  BY <1>3, <1>4 DEF OutTyped, SentIsTold, NotStored, Settling
<1>6. OfThePast
  BY <1>1, <1>3, <1>4 DEF OfThePast
<1>7. Resolving /\ Planned /\ Once(pending, retaken)
  BY <1>1, <1>2, <1>4, OnceEmpty DEF Resolving, Planned, At
<1>8. ASSUME NEW p \in Runs PROVE Mine(p)
  <2>1. HandOnce(p)
    BY <1>1, <1>2, EmptyQueue, OnceEmpty DEF HandOnce
  <2> QED
    BY <1>1, <1>2, <1>3, <2>1 DEF Mine, Undelivered, Unsent, Latest, Counted
<1> QED
  BY <1>1, <1>5, <1>6, <1>7, <1>8 DEF Sound

LEMMA SoundNext ==
    ASSUME Shape, Shape', Inv, Sound, again = {}, [Next]_vars
    PROVE  Sound' /\ again' = {}
<1>1. CASE Flip
  BY <1>1, FlipSound
<1>2. CASE Tick
  BY <1>2, TickSound
<1>3. ASSUME NEW p \in Runs, Start(p) \/ Works(p) \/ Dies(p)
      PROVE  Sound' /\ again' = {}
  BY <1>3, StartSound, LoadSound, DrainSound, NextBatchSound, SendSound, CommitSound,
     SaveBackoffSound, SaveQueueSound, DiesSound DEF Works
<1>4. CASE UNCHANGED vars
  <2>1. UNCHANGED <<run, cond, flips, got, retaken, pending, row, again>>
    BY <1>4 DEF vars
  <2>2. InQueue(pending)' = InQueue(pending) /\ Once(pending, retaken)'
    BY <2>1 DEF Sound, InQueue
  <2> QED
    BY <2>1, <2>2, QuietSound
<1> QED
  BY <1>1, <1>2, <1>3, <1>4 DEF Next

(* "A healthy channel never receives duplicates" (alerts.js): whatever      *)
(* channels fail, however the notices are cut into batches and whatever a  *)
(* full queue drops, no notice is sent twice to a channel, unless a run    *)
(* that carried notices of its rule died, could not read the stored queue  *)
(* or overlapped another run.                                              *)
THEOREM NoNoticeTwice == Spec => []NeverTwice
<1>1. Init => Sound /\ again = {}
  BY InitSound
<1>2. (Shape /\ Inv) /\ (Shape /\ Inv)' /\ (Sound /\ again = {}) /\ [Next]_vars => (Sound /\ again = {})'
  BY SoundNext
<1>3. Sound /\ again = {} => NeverTwice
  BY DEF NeverTwice
<1> QED
  BY <1>1, <1>2, <1>3, ShapeAndInv, PTL DEF Spec

(* A notice committed for a channel is delivered there, queued for it, in  *)
(* the hands of a run, or given up: no overlap of runs, failing channel or *)
(* full queue loses it without account.                                    *)
THEOREM CommittedStaysAccounted == Spec => []CommittedIsAccounted
<1>1. Shape /\ Inv => CommittedIsAccounted
  BY DEF Inv
<1> QED
  BY <1>1, ShapeAndInv, PTL

(* Rows, queues and backoff keep their shape: no queue grows past          *)
(* PENDING_DELIVERIES_MAX, no entry is tried after its last attempt.       *)
THEOREM TypeCorrect == Spec => []TypeOK
<1>1. ASSUME Shape PROVE TypeOK
  <2>1. \A r \in Rules : cond[r].is \in {"bad", "good", "unknown", "gone"} /\ cond[r].change \in 0 .. MaxFlips
    BY <1>1 DEF Shape, Typed, Conditions
  <2>2. ASSUME NEW q \in Seq(Entries), NEW i \in DOMAIN q
        PROVE  /\ q[i].to \in Channels /\ q[i].items # {}
               /\ q[i].tries < MaxAttempts /\ q[i].wait <= MaxDelay
    <3>1. q[i] \in Entries
      OBVIOUS
    <3> QED
      BY <3>1, Bounds DEF Entries
  <2>3. ASSUME NEW p \in Runs
        PROVE  /\ run[p].queue \in Seq(Entries) /\ Len(run[p].queue) <= QueueMax
               /\ run[p].to \subseteq Channels /\ run[p].left \subseteq run[p].to
    <3>1. run[p] \in RunSet /\ Fits(run[p])
      BY <1>1 DEF Shape, Typed
    <3>2. run[p].queue \in Seq(Entries) /\ run[p].due \in Seq(Entries)
      BY <3>1 DEF RunSet
    <3>3. Len(run[p].due) \in Nat /\ Len(run[p].queue) \in Nat
      BY <3>2
    <3>4. Len(run[p].due) + Len(run[p].queue) <= QueueMax
      BY <3>1 DEF Fits
    <3>5. \A a, b, m \in Nat : a + b <= m => b <= m
      OBVIOUS
    <3>6. Len(run[p].queue) <= QueueMax
      BY <3>3, <3>4, <3>5, Bounds
    <3> QED
      BY <3>1, <3>2, <3>6 DEF RunSet, Fits
  <2>4. pending \in Seq(Entries) /\ Len(pending) <= QueueMax
    BY <1>1 DEF Shape, Typed
  <2>5. \A c \in Channels : backoff[c].fails <= MaxAttempts /\ backoff[c].wait <= MaxDelay
    BY <1>1, Bounds DEF Shape, Typed, Offs
  <2>6. /\ health \in [Channels -> {"ok", "failing", "off"}]
        /\ row \in [Rules -> [active : BOOLEAN, since : 0 .. Repeat, sent : 0 .. MaxSent]]
    BY <1>1 DEF Shape, Typed, Rows
  <2> QED
    BY <2>1, <2>2, <2>3, <2>4, <2>5, <2>6 DEF TypeOK
<1> QED
  BY <1>1, ShapeAndInv, PTL

=============================================================================
