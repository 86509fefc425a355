------------------------------- MODULE Alerts -------------------------------
(***************************************************************************)
(* Alert rules, their rows in D1 and the delivery of the notices over      *)
(* channels that fail (worker/src/alerts.js): each run decides from the    *)
(* rows which notices to send, retries what is queued, sends batches,      *)
(* commits the rows and saves the queue and the channels' backoff.  The    *)
(* run of the cron and that of POST /api/alerts/check can overlap.         *)
(*                                                                         *)
(* A time is a countdown in ticks of CHANNEL_RETRY_BASE_SEC; it passes     *)
(* between runs, which read the clock once.                                *)
(***************************************************************************)
EXTENDS Naturals, Sequences, FiniteSets

CONSTANTS
    Rules,          \* the (target_id, rule_key) in the order they are checked
    Noted,          \* those with a recovery notice
    Channels,       \* in the order of configuredAlertChannels
    Cron, Admin,    \* the two runners
    MaxMessages,    \* ALERT_MAX_MESSAGES_PER_RUN
    QueueMax,       \* PENDING_DELIVERIES_MAX
    MaxDelay,       \* CHANNEL_RETRY_MAX_SEC
    MaxAttempts,    \* CHANNEL_RETRY_MAX_ATTEMPTS
    Repeat,         \* repeat_minutes, 0 to never repeat
    MaxSent,        \* bound: notices of one outage; the last starts no cooldown
    MaxFlips,       \* bound: changes of targets and channels
    MaxFaults       \* bound: failing reads, runs that end early or overlap another

Runs == {Cron, Admin}
ASSUME RunsAssumption == Cron # Admin /\ Rules \cup Channels \subseteq Nat /\ Noted \subseteq Rules
ASSUME BoundsAssumption ==
    /\ {MaxMessages, QueueMax, MaxDelay, MaxAttempts, MaxSent} \subseteq Nat \ {0}
    /\ {Repeat, MaxFlips, MaxFaults} \subseteq Nat

VARIABLES
    cond,       \* rule -> what its target's state says, and since which change
    health,     \* channel -> whether it is configured and delivers
    row,        \* rule -> its row of alert_state
    pending,    \* alert_pending_deliveries
    backoff,    \* alert_channel_backoff
    run,        \* runner -> its progress
    flips, faults,
    owed,       \* history: <<channel, notice>> committed
    got,        \* history: <<channel, notice>> delivered
    gone,       \* history: <<channel, notice>> given up, or lost to a fault
    retaken,    \* history: rules whose notices a fault or an overlap may send again
    again       \* history: <<channel, notice>> delivered twice for no such reason

vars == <<cond, health, row, pending, backoff, run, flips, faults,
          owed, got, gone, retaken, again>>
world == <<cond, health, flips>>
history == <<owed, got, gone, retaken, again>>

NoBackoff == [fails |-> 0, wait |-> 0]
Idle == [at |-> "idle", to |-> {}, todo |-> {}, silent |-> {}, batch |-> {}, left |-> {},
         due |-> <<>>, queue |-> <<>>, off |-> [c \in Channels |-> NoBackoff],
         changed |-> FALSE, raced |-> FALSE]

Init ==
    /\ cond = [r \in Rules |-> [is |-> "good", change |-> 0]]
    /\ health \in [Channels -> {"ok", "failing"}]
    /\ row = [r \in Rules |-> [active |-> FALSE, since |-> 0, sent |-> 0]]
    /\ pending = <<>>
    /\ backoff = [c \in Channels |-> NoBackoff]
    /\ run = [p \in Runs |-> Idle]
    /\ flips = 0 /\ faults = 0
    /\ owed = {} /\ got = {} /\ gone = {} /\ retaken = {} /\ again = {}

At(p, at) == run[p].at = at
Busy == {p \in Runs : ~At(p, "idle")}
InQueue(q) == UNION {{q[i].to} \X q[i].items : i \in DOMAIN q}
InHand(p)  == InQueue(run[p].due) \cup InQueue(run[p].queue)
Carried(p) == {n.rule : n \in run[p].batch \cup {d[2] : d \in InHand(p) \cup InQueue(pending)}}

-----------------------------------------------------------------------------
(* What a run collects.                                                    *)

\* enqueueActiveAlert, and the recovery branches of the three noted rules.
Repeats(r) == Repeat > 0 /\ row[r].since >= Repeat /\ row[r].sent < MaxSent
ShouldNote(r) ==
    \/ cond[r].is = "bad" /\ (~row[r].active \/ Repeats(r))
    \/ cond[r].is = "good" /\ row[r].active /\ r \in Noted
\* The checks stop once maxMessages notices are collected.
Reached(r) == Cardinality({q \in Rules : q < r /\ ShouldNote(q)}) < MaxMessages
Notice(r) == [rule |-> r, of |-> cond[r].is, change |-> cond[r].change,
              nth |-> IF cond[r].is = "bad" /\ row[r].active THEN row[r].sent ELSE 0]

ShouldClearEnabled(r) == row[r].active /\ cond[r].is = "good" /\ r \notin Noted /\ Reached(r)

\* clearIfActive and its variants, and clearOrphanedAlertStates whatever was reached.
ShouldClear(r) ==
    /\ row[r].active
    /\ \/ cond[r].is = "good" /\ r \notin Noted /\ Reached(r)
       \/ cond[r].is = "gone"

\* runAlertChecks up to the last rule: all is decided from one read.
Start(p) ==
    LET to == {c \in Channels : health[c] # "off"}
    IN  /\ At(p, "idle")
        /\ to # {}
        /\ IF Busy = {} THEN UNCHANGED faults
           ELSE faults < MaxFaults /\ faults' = faults + 1
        /\ run' = [q \in Runs |->
              IF q = p THEN [Idle EXCEPT !.at = "load", !.to = to, !.raced = Busy # {},
                                 !.todo = {Notice(r) : r \in {x \in Rules : ShouldNote(x) /\ Reached(x)}},
                                 !.silent = {r \in Rules : ShouldClear(r)}]
              ELSE [run[q] EXCEPT !.raced = run[q].at # "idle"]]
        /\ UNCHANGED <<world, row, pending, backoff, history>>

ResolvedLeftActive(x) == x

\* markResolved.
Resolved(x) == [x EXCEPT !.active = FALSE, !.sent = 0]

\* The silent rows are resolved, then readChannelBackoff and readPendingDeliveries:
\* a read that fails gives an empty queue.
Load(p) ==
    /\ At(p, "load")
    /\ row' = [r \in Rules |-> IF r \in run[p].silent THEN Resolved(row[r]) ELSE row[r]]
    /\ \/ /\ run' = [run EXCEPT ![p].at = "drain", ![p].silent = {},
                                ![p].due = pending, ![p].off = backoff]
          /\ UNCHANGED faults
       \/ /\ faults < MaxFaults /\ faults' = faults + 1
          /\ run' = [run EXCEPT ![p].at = "drain", ![p].silent = {},
                                ![p].off = backoff, ![p].raced = TRUE]
    /\ UNCHANGED <<world, pending, backoff, history>>

-----------------------------------------------------------------------------
(* Deliveries.                                                             *)

\* channelRetryDelaySec: doubled with every failure, up to the limit.
Delay(n) == LET d == 2 ^ (n - 1) IN IF d \in 1 .. MaxDelay THEN d ELSE MaxDelay

\* recordChannelFailure; failures are counted as long as the delay may grow.
Failed(off, c) ==
    LET fails == IF off[c].fails < MaxAttempts THEN off[c].fails + 1 ELSE off[c].fails
    IN  [off EXCEPT ![c] = [fails |-> fails, wait |-> Delay(fails)]]
Worked(off, c) == [off EXCEPT ![c] = NoBackoff]

EnqueueNewestOut(q, e) ==
    IF \E i \in DOMAIN q : q[i].to = e.to /\ q[i].items = e.items THEN q
    ELSE IF Len(q) >= QueueMax THEN q ELSE Append(q, e)

EnqueueUnlimited(q, e) ==
    IF \E i \in DOMAIN q : q[i].to = e.to /\ q[i].items = e.items THEN q ELSE Append(q, e)

\* enqueuePendingDelivery: once per text, the oldest leave a queue that is full.
Enqueue(q, e) ==
    IF \E i \in DOMAIN q : q[i].to = e.to /\ q[i].items = e.items THEN q
    ELSE IF Len(q) >= QueueMax THEN Append(Tail(q), e) ELSE Append(q, e)
Displaced(q, e) == InQueue(q) \ InQueue(Enqueue(q, e))

\* sendAlertToChannel answered ok: the notices are at their reader.
Delivered(p, c, items) ==
    /\ got' = got \cup ({c} \X items)
    /\ again' = again \cup
          (IF run[p].raced THEN {} ELSE {d \in got \cap ({c} \X items) : d[2].rule \notin retaken})

RetriedUncounted(e) == [e EXCEPT !.wait = Delay(e.tries + 1)]

\* An entry whose retry failed.
Retried(e) == [e EXCEPT !.tries = @ + 1, !.wait = Delay(e.tries + 1)]

\* One entry of drainPendingDeliveries.
Drain(p) ==
    LET e == Head(run[p].due)
        keep(x) == [run EXCEPT ![p].due = Tail(@), ![p].queue = Append(@, x)]
        skip == [run EXCEPT ![p].due = Tail(@), ![p].changed = TRUE]
    IN  /\ At(p, "drain") /\ run[p].due # <<>>
        /\ \/ /\ e.to \notin run[p].to
              /\ run' = skip
              /\ gone' = gone \cup ({e.to} \X e.items)
              /\ UNCHANGED <<got, again>>
           \/ /\ e.to \in run[p].to /\ e.wait > 0
              /\ run' = keep(e)
              /\ UNCHANGED <<gone, got, again>>
           \/ /\ e.to \in run[p].to /\ e.wait = 0 /\ health[e.to] = "ok"
              /\ run' = [skip EXCEPT ![p].off = Worked(@, e.to)]
              /\ Delivered(p, e.to, e.items)
              /\ UNCHANGED gone
           \/ /\ e.to \in run[p].to /\ e.wait = 0 /\ health[e.to] # "ok"
              /\ IF Retried(e).tries >= MaxAttempts
                 THEN /\ run' = [skip EXCEPT ![p].off = Failed(@, e.to)]
                      /\ gone' = gone \cup ({e.to} \X e.items)
                 ELSE /\ run' = [keep(Retried(e)) EXCEPT ![p].off = Failed(@, e.to), ![p].changed = TRUE]
                      /\ UNCHANGED gone
              /\ UNCHANGED <<got, again>>
        /\ UNCHANGED <<world, row, pending, backoff, faults, owed, retaken>>

\* buildAlertBatches cuts the notices, in their order, where the text gets long.
NextBatch(p) ==
    /\ At(p, "drain") /\ run[p].due = <<>>
    /\ IF run[p].todo = {}
       THEN run' = [run EXCEPT ![p] = IF @.changed THEN [@ EXCEPT !.at = "save backoff"] ELSE Idle]
       ELSE \E last \in run[p].todo :
              LET batch == {n \in run[p].todo : n.rule <= last.rule}
              IN  run' = [run EXCEPT ![p].at = "send", ![p].batch = batch,
                                     ![p].todo = @ \ batch, ![p].left = run[p].to]
    /\ UNCHANGED <<world, row, pending, backoff, faults, history>>

\* The batch goes to one channel: sent, or queued when the channel fails or backs off.
SendTo(p, c) ==
    LET items == run[p].batch
        entry(off) == [to |-> c, items |-> items, tries |-> 0, wait |-> off[c].wait]
        queued(off, failed) ==
            LET q == Enqueue(run[p].queue, entry(off))
            IN  /\ run' = [run EXCEPT ![p].left = @ \ {c}, ![p].off = off, ![p].queue = q,
                                      ![p].changed = @ \/ failed \/ q # run[p].queue]
                /\ gone' = gone \cup Displaced(run[p].queue, entry(off))
                /\ UNCHANGED <<got, again>>
        waits == run[p].off[c].wait > 0
    IN  /\ \/ waits /\ queued(run[p].off, FALSE)
           \/ ~waits /\ health[c] # "ok" /\ queued(Failed(run[p].off, c), TRUE)
           \/ /\ ~waits /\ health[c] = "ok"
              /\ run' = [run EXCEPT ![p].left = @ \ {c}, ![p].off = Worked(@, c),
                                    ![p].changed = @ \/ run[p].off[c].fails > 0]
              /\ Delivered(p, c, items)
              /\ UNCHANGED gone
        /\ UNCHANGED <<world, row, pending, backoff, faults, owed, retaken>>

\* The channels of a batch in their order.
Send(p) ==
    /\ At(p, "send")
    /\ \E c \in run[p].left : (\A d \in run[p].left : c <= d) /\ SendTo(p, c)

\* markActive.
Activated(x) == [active |-> TRUE, since |-> 0, sent |-> IF x.sent < MaxSent THEN x.sent + 1 ELSE x.sent]

\* item.commit() of one notice, in the order of the batch.
CommitNotice(p, n) ==
    /\ row' = [row EXCEPT ![n.rule] = IF n.of = "bad" THEN Activated(@) ELSE Resolved(@)]
    /\ owed' = owed \cup (run[p].to \X {n})
    /\ run' = [run EXCEPT ![p].batch = @ \ {n},
                          ![p].at = IF run[p].batch = {n} THEN "drain" ELSE @]
    /\ retaken' = IF run[p].raced THEN retaken \cup {n.rule} ELSE retaken
    /\ UNCHANGED <<world, pending, backoff, faults, got, gone, again>>
Commit(p) ==
    /\ At(p, "send") /\ run[p].left = {}
    /\ \E n \in run[p].batch : (\A y \in run[p].batch : n.rule <= y.rule) /\ CommitNotice(p, n)

SaveBackoff(p) ==
    /\ At(p, "save backoff")
    /\ backoff' = run[p].off
    /\ run' = [run EXCEPT ![p].at = "save queue"]
    /\ UNCHANGED <<world, row, pending, faults, history>>

\* writePendingDeliveries puts the run's whole queue in the place of the stored one.
SaveQueue(p) ==
    /\ At(p, "save queue")
    /\ pending' = run[p].queue
    /\ run' = [run EXCEPT ![p] = Idle]
    /\ IF run[p].raced
       THEN /\ gone' = gone \cup (InQueue(pending) \ InQueue(run[p].queue))
            /\ retaken' = retaken \cup Carried(p)
       ELSE UNCHANGED <<gone, retaken>>
    /\ UNCHANGED <<world, row, backoff, faults, owed, got, again>>

\* A statement throws, or the invocation is cut off: nothing more is written.
Dies(p) ==
    /\ p \in Busy
    /\ faults < MaxFaults /\ faults' = faults + 1
    /\ run' = [run EXCEPT ![p] = Idle]
    /\ gone' = gone \cup (InHand(p) \ InQueue(pending))
    /\ retaken' = retaken \cup Carried(p)
    /\ UNCHANGED <<world, row, pending, backoff, owed, got, again>>

Works(p) ==
    \/ Load(p) \/ Drain(p) \/ NextBatch(p) \/ Send(p) \/ Commit(p)
    \/ SaveBackoff(p) \/ SaveQueue(p)

-----------------------------------------------------------------------------
(* The world.                                                              *)

\* A target breaks, recovers, has no data, or is disabled; a channel changes.
Flip ==
    /\ flips < MaxFlips /\ flips' = flips + 1
    /\ \/ \E r \in Rules, is \in {"bad", "good", "unknown", "gone"} :
            /\ cond[r].is # is
            /\ cond' = [cond EXCEPT ![r] = [is |-> is, change |-> flips + 1]]
            /\ UNCHANGED health
       \/ \E c \in Channels, h \in {"ok", "failing", "off"} :
            /\ health[c] # h
            /\ health' = [health EXCEPT ![c] = h]
            /\ UNCHANGED cond
    /\ UNCHANGED <<row, pending, backoff, run, faults, history>>

Less(n) == IF n = 0 THEN 0 ELSE n - 1
Tick ==
    /\ Busy = {}
    /\ pending' = [i \in DOMAIN pending |-> [pending[i] EXCEPT !.wait = Less(@)]]
    /\ backoff' = [c \in Channels |-> [backoff[c] EXCEPT !.wait = Less(@)]]
    /\ row' = [r \in Rules |-> IF row[r].active /\ row[r].since < Repeat
                               THEN [row[r] EXCEPT !.since = @ + 1] ELSE row[r]]
    /\ UNCHANGED <<world, run, faults, history>>

Next == Flip \/ Tick \/ \E p \in Runs : Start(p) \/ Works(p) \/ Dies(p)

Spec == Init /\ [][Next]_vars

(* The cron starts a run every minute, runs go on, time passes: between    *)
(* two runs there are moments without one.  The administrator need not ask.*)
Fairness == SF_vars(Tick) /\ WF_vars(Start(Cron)) /\ \A p \in Runs : WF_vars(Works(p))
FairSpec == Spec /\ Fairness

-----------------------------------------------------------------------------

(* Every value is of the shape the code gives it: a saved queue holds at   *)
(* most PENDING_DELIVERIES_MAX entries, each tried fewer times than the    *)
(* limit and waiting no longer than CHANNEL_RETRY_MAX_SEC.                 *)
TypeOK ==
    /\ \A r \in Rules : cond[r].is \in {"bad", "good", "unknown", "gone"} /\ cond[r].change \in 0 .. MaxFlips
    /\ health \in [Channels -> {"ok", "failing", "off"}]
    /\ row \in [Rules -> [active : BOOLEAN, since : 0 .. Repeat, sent : 0 .. MaxSent]]
    /\ \A q \in {pending} \cup {run[p].queue : p \in Runs} :
          /\ Len(q) <= QueueMax
          /\ \A i \in DOMAIN q :
                /\ q[i].to \in Channels /\ q[i].items # {}
                /\ q[i].tries < MaxAttempts /\ q[i].wait <= MaxDelay
    /\ \A c \in Channels : backoff[c].fails <= MaxAttempts /\ backoff[c].wait <= MaxDelay
    /\ \A p \in Runs : run[p].to \subseteq Channels /\ run[p].left \subseteq run[p].to

(* runAlertChecks commits a batch although a channel did not take it,      *)
(* because "the queued retry owns delivery": what is committed is on every *)
(* channel, in the queue of that channel, stored or in the hands of a run, *)
(* or was given up: after the last attempt, pushed out of a full queue,    *)
(* with its channel removed, or by a run that died or overwrote another's. *)
CommittedIsAccounted ==
    owed \subseteq got \cup gone \cup InQueue(pending) \cup UNION {InHand(p) : p \in Runs}

(* "A healthy channel never receives duplicates": unless a run died with a *)
(* notice in its hands or runs overlapped, no channel gets a notice twice. *)
NeverTwice == again = {}

(* A row agrees with its target in the end, whatever channels fail and     *)
(* however many rules wait behind maxMessages, as long as one channel is   *)
(* configured: this is what ends the notices of an outage and allows those *)
(* of the next one.                                                        *)
NoChannel == \A c \in Channels : health[c] = "off"
RowFollowsTarget ==
    \A r \in Rules :
        /\ cond[r].is = "bad" ~> (row[r].active \/ cond[r].is # "bad" \/ NoChannel)
        /\ cond[r].is \in {"good", "gone"}
              ~> (~row[r].active \/ cond[r].is \notin {"good", "gone"} \/ NoChannel)

(* What a channel is owed does not stay queued for ever: it is delivered,  *)
(* or given up after CHANNEL_RETRY_MAX_ATTEMPTS.                           *)
DebtIsSettled ==
    \A c \in Channels : (\E d \in owed : d[1] = c)
        ~> (\A d \in owed : d[1] = c => d \in got \cup gone) \/ NoChannel
=============================================================================
