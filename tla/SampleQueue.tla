---------------------------- MODULE SampleQueue ----------------------------
(***************************************************************************)
(* The telemetry sample queue of the Rust Agent: the main loop of `run()`  *)
(* (agent/src/main.rs), the queue-writer thread that mirrors the queue to  *)
(* samples-queue.json (agent/src/queue.rs) and the upload threads it       *)
(* spawns, with process crashes, a panicking writer, failing disk writes,  *)
(* uploads that hang, and late upload results.                             *)
(*                                                                         *)
(* A sample is the natural number of its collection; its content is never  *)
(* inspected by the queue.  An upload is a thread with the batch it took.  *)
(***************************************************************************)
EXTENDS Naturals, Sequences, FiniteSets

CONSTANTS
    QueueMax,      \* cfg.queue_max_samples
    ReportMax,     \* REPORT_MAX_SAMPLES
    Generations,   \* values of upload_generation: only equality is tested
    MaxTaken,      \* bound: samples collected in a behaviour
    MaxChannel,    \* bound: commands waiting for the writer thread
    MaxCrashes,    \* bound: process deaths in a behaviour
    MaxHung,       \* bound: upload threads that never return
    MaxPanics,     \* bound: writer panics in a behaviour
    SaveOutcomes   \* whether a save of the queue file succeeds: BOOLEAN, or
                   \* {TRUE} on a healthy disk

ASSUME QueueMaxAssumption  == QueueMax \in Nat \ {0}
ASSUME ReportMaxAssumption == ReportMax \in Nat \ {0}
ASSUME BoundsAssumption    == /\ MaxTaken \in Nat   /\ MaxChannel \in Nat
                              /\ MaxCrashes \in Nat /\ MaxHung \in Nat
                              /\ MaxPanics \in Nat
ASSUME SaveAssumption      == SaveOutcomes \subseteq BOOLEAN

VARIABLES
    phase,         \* where the main loop is in its iteration
    samples,       \* main.rs `samples`
    uploading,     \* main.rs `uploading`
    generation,    \* main.rs `upload_generation`
    lastFailed,    \* main.rs `last_upload_failed`
    firstReport,   \* main.rs `first_report`
    uploads,       \* upload threads and results not yet received
    channel,       \* mpsc channel of QueueCommands, oldest first
    writerQ,       \* `samples` of run_queue_writer
    dirty,         \* `dirty` of run_queue_writer
    disk,          \* the content of samples-queue.json
    flushReply,    \* the reply channel of flush_sample_queue
    \* History, read by the properties only:
    taken,         \* number of samples collected so far
    accepted,      \* samples the server acknowledged at least once
    evicted,       \* samples dropped by the capacity bound
    ackDropped,    \* samples dropped by an acknowledged upload
    panicLost,     \* appends that were inside a writer when it panicked
    panicked,      \* the writer was rebuilt since the process started
    crashes,       \* process deaths so far
    panics         \* writer panics so far

mainVars   == <<phase, samples, uploading, generation, lastFailed, firstReport>>
writerVars == <<writerQ, dirty, disk>>
history    == <<taken, accepted, evicted, ackDropped, panicLost, panicked,
                crashes, panics>>
vars       == <<mainVars, uploads, channel, writerVars, flushReply, history>>

Phases      == {"sample", "results", "update", "flush", "report", "down"}
UploadState == {"sending", "acked", "hung", "ok", "err"}
Commands    == {"append", "ack", "flush"}

Elements(q) == {q[i] : i \in 1..Len(q)}

\* Operators named after a definition with a suffix are broken variants of it
\* that the properties must tell from the definition; nothing uses them.

\* `push_back` followed by `if len > max { pop_front }`, on both sides of the
\* channel.
PushBounded(q, s) ==
    LET longer == Append(q, s)
    IN  IF Len(longer) > QueueMax THEN Tail(longer) ELSE longer

\* `samples.drain(0..count.min(samples.len()))`
DrainFront(q, count) ==
    IF count >= Len(q) THEN <<>> ELSE SubSeq(q, count + 1, Len(q))

\* `samples.iter().take(n)`
TakeFront(q, n) == IF n >= Len(q) THEN q ELSE SubSeq(q, 1, n)

\* `samples.drain(0..len - max)` of a queue file longer than the bound
KeepNewest(q) == IF Len(q) > QueueMax
                 THEN SubSeq(q, Len(q) - QueueMax + 1, Len(q)) ELSE q

\* A command carries, as history, the main loop's queue after it was sent.
Command(op, arg, after) == [op |-> op, arg |-> arg, after |-> after]

\* What run_queue_writer does to its own queue for a command.
ApplyCommandUnbounded(cmd, q) ==
    CASE cmd.op = "append" -> Append(q, cmd.arg)
      [] cmd.op = "ack"    -> DrainFront(q, cmd.arg)
      [] cmd.op = "flush"  -> q
ApplyCommand(cmd, q) ==
    CASE cmd.op = "append" -> PushBounded(q, cmd.arg)
      [] cmd.op = "ack"    -> DrainFront(q, cmd.arg)
      [] cmd.op = "flush"  -> q

ChannelHasRoom == Len(channel) < MaxChannel

\* The test on a result's generation, and the generations a new upload may
\* get: `wrapping_add(1)` gives one that no upload still alive carries.
IsCurrentAny(u) == TRUE
IsCurrent(u) == u.gen = generation
FreshGenerations == Generations \ ({generation} \cup {u.gen : u \in uploads})

Running(u)     == u.state \in {"sending", "acked", "hung"}
Finished(u)    == u.state \in {"ok", "err"}
Replies(u, st) == (uploads \ {u}) \cup {[u EXCEPT !.state = st]}

Init ==
    /\ phase = "sample"
    /\ samples = <<>>
    /\ uploading = FALSE
    /\ generation \in Generations
    /\ lastFailed = FALSE
    /\ firstReport = TRUE
    /\ uploads = {}
    /\ channel = <<>>
    /\ writerQ = <<>>
    /\ dirty = FALSE
    /\ disk = <<>>
    /\ flushReply = "none"
    /\ taken = 0
    /\ accepted = {}
    /\ evicted = {}
    /\ ackDropped = {}
    /\ panicLost = {}
    /\ panicked = FALSE
    /\ crashes = 0
    /\ panics = 0

-----------------------------------------------------------------------------
(* The main loop, one iteration: sample, results, update, report.          *)

\* Collect a sample, queue it, hand it to the writer, bound the queue.
Sample ==
    /\ phase = "sample"
    /\ taken < MaxTaken
    /\ ChannelHasRoom
    /\ LET s == taken + 1
           q == PushBounded(samples, s)
       IN  /\ taken' = s
           /\ samples' = q
           /\ channel' = Append(channel, Command("append", s, q))
           /\ evicted' = evicted \cup (IF Len(samples) + 1 > QueueMax
                                        THEN {Head(samples)} ELSE {})
    /\ phase' = "results"
    /\ UNCHANGED <<uploading, generation, lastFailed, firstReport, uploads,
                   writerVars, flushReply, accepted, ackDropped, panicLost,
                   panicked, crashes, panics>>

\* The bound on collected samples: the loop goes on without a new one.
SampleBound ==
    /\ phase = "sample"
    /\ taken = MaxTaken
    /\ phase' = "results"
    /\ UNCHANGED <<samples, uploading, generation, lastFailed, firstReport,
                   uploads, channel, writerVars, flushReply, history>>

\* A result of an abandoned upload only gives its buffer back.
IgnoreStaleResult(u) ==
    /\ phase = "results"
    /\ Finished(u)
    /\ ~IsCurrent(u)
    /\ uploads' = uploads \ {u}
    /\ UNCHANGED <<mainVars, channel, writerVars, flushReply, history>>

\* Success: drop as many samples as were sent from the front of the queue.
UploadSucceeded(u) ==
    /\ phase = "results"
    /\ u.state = "ok"
    /\ IsCurrent(u)
    /\ ChannelHasRoom
    /\ uploads' = uploads \ {u}
    /\ uploading' = FALSE
    /\ lastFailed' = FALSE
    /\ LET count == Len(u.batch)
           q     == DrainFront(samples, count)
       IN  /\ samples' = q
           /\ channel' = Append(channel, Command("ack", count, q))
           /\ ackDropped' = ackDropped \cup (Elements(samples) \ Elements(q))
    /\ UNCHANGED <<phase, generation, firstReport, writerVars, flushReply,
                   taken, accepted, evicted, panicLost, panicked, crashes, panics>>

UploadFailed(u) ==
    /\ phase = "results"
    /\ u.state = "err"
    /\ IsCurrent(u)
    /\ uploads' = uploads \ {u}
    /\ uploading' = FALSE
    /\ lastFailed' = TRUE
    /\ UNCHANGED <<phase, samples, generation, firstReport, channel,
                   writerVars, flushReply, history>>

\* `while let Ok(result) = upload_rx.try_recv()` ends on an empty channel.
ResultsDrained ==
    /\ phase = "results"
    /\ \A u \in uploads : Running(u)
    /\ phase' = "update"
    /\ UNCHANGED <<samples, uploading, generation, lastFailed, firstReport,
                   uploads, channel, writerVars, flushReply, history>>

NoUpdateInstalled ==
    /\ phase = "update"
    /\ phase' = "report"
    /\ UNCHANGED <<samples, uploading, generation, lastFailed, firstReport,
                   uploads, channel, writerVars, flushReply, history>>

\* UpdateOutcome::Installed: ask for a flush and block on the reply.
UpdateInstalled ==
    /\ phase = "update"
    /\ ChannelHasRoom
    /\ crashes < MaxCrashes
    /\ phase' = "flush"
    /\ channel' = Append(channel, Command("flush", 0, samples))
    /\ UNCHANGED <<samples, uploading, generation, lastFailed, firstReport,
                   uploads, writerVars, flushReply, history>>

\* upload_report_due; `elapsed` says whether the retry period (after a
\* failure) or the report period has passed since the last report.
ReportDue(elapsed) ==
    IF lastFailed
    THEN samples # <<>> /\ elapsed
    ELSE firstReport \/ Len(samples) > ReportMax \/ elapsed

\* The upload may have passed UPLOAD_STALL_SEC whenever one is in flight.
MayStallNever == FALSE
MayStall == uploading

\* Stall recovery, then a new upload when none is in flight and one is due.
Report ==
    /\ phase = "report"
    /\ phase' = "sample"
    /\ \E stalled, elapsed \in BOOLEAN :
        /\ stalled => MayStall
        /\ IF (uploading /\ ~stalled) \/ ~ReportDue(elapsed)
           THEN /\ uploading' = (uploading /\ ~stalled)
                /\ UNCHANGED <<generation, firstReport, uploads>>
           ELSE \E g \in FreshGenerations :
                /\ uploading' = TRUE
                /\ generation' = g
                /\ firstReport' = FALSE
                /\ uploads' = uploads \cup
                     {[gen |-> g, batch |-> TakeFront(samples, ReportMax),
                       state |-> "sending"]}
    /\ UNCHANGED <<samples, lastFailed, channel, writerVars, flushReply, history>>

-----------------------------------------------------------------------------
(* Upload threads: submit() tries the WebSocket, then HTTP, and reports    *)
(* once.  The server may have accepted a batch whose thread reports an     *)
(* error (an answer that never came); a thread may also hang for ever.     *)

ServerAccepts(u) ==
    /\ u.state = "sending"
    /\ uploads' = Replies(u, "acked")
    /\ accepted' = accepted \cup Elements(u.batch)
    /\ UNCHANGED <<mainVars, channel, writerVars, flushReply, taken, evicted,
                   ackDropped, panicLost, panicked, crashes, panics>>

\* The answer must be the Worker's `ok: true`.
AnsweredOkUnchecked(u) == u.state \in {"sending", "acked"}
AnsweredOk(u) == u.state = "acked"

SubmitReturnsOk(u) ==
    /\ AnsweredOk(u)
    /\ uploads' = Replies(u, "ok")
    /\ UNCHANGED <<mainVars, channel, writerVars, flushReply, history>>

SubmitReturnsErr(u) ==
    /\ u.state \in {"sending", "acked"}
    /\ uploads' = Replies(u, "err")
    /\ UNCHANGED <<mainVars, channel, writerVars, flushReply, history>>

SubmitHangs(u) ==
    /\ u.state \in {"sending", "acked"}
    /\ Cardinality({v \in uploads : v.state = "hung"}) < MaxHung
    /\ uploads' = Replies(u, "hung")
    /\ UNCHANGED <<mainVars, channel, writerVars, flushReply, history>>

-----------------------------------------------------------------------------
(* The queue-writer thread.  Saving writes a temporary file, syncs it and   *)
(* renames it over the queue file, so the file is the old queue or the new  *)
(* one; an error after the rename leaves the new one with the error.        *)

Up == phase # "down"

SaveQueue(q, saved) ==
    IF saved THEN disk' = q ELSE disk' \in {disk, q}

WriterAppendClean ==
    /\ Up
    /\ channel # <<>>
    /\ Head(channel).op = "append"
    /\ channel' = Tail(channel)
    /\ writerQ' = ApplyCommand(Head(channel), writerQ)
    /\ UNCHANGED <<mainVars, uploads, dirty, disk, flushReply, history>>
WriterAppend ==
    /\ Up
    /\ channel # <<>>
    /\ Head(channel).op = "append"
    /\ channel' = Tail(channel)
    /\ writerQ' = ApplyCommand(Head(channel), writerQ)
    /\ dirty' = TRUE
    /\ UNCHANGED <<mainVars, uploads, disk, flushReply, history>>

WriterAcknowledge ==
    /\ Up
    /\ channel # <<>>
    /\ Head(channel).op = "ack"
    /\ channel' = Tail(channel)
    /\ writerQ' = ApplyCommand(Head(channel), writerQ)
    /\ \E saved \in SaveOutcomes : /\ SaveQueue(writerQ', saved)
                              /\ dirty' = ~saved
    /\ UNCHANGED <<mainVars, uploads, flushReply, history>>

WriterFlushUnsaved ==
    /\ Up
    /\ channel # <<>>
    /\ Head(channel).op = "flush"
    /\ channel' = Tail(channel)
    /\ flushReply' = "ok"
    /\ UNCHANGED <<mainVars, uploads, writerVars, history>>
WriterFlush ==
    /\ Up
    /\ channel # <<>>
    /\ Head(channel).op = "flush"
    /\ channel' = Tail(channel)
    /\ \E saved \in SaveOutcomes : /\ SaveQueue(writerQ, saved)
                              /\ dirty' = ~saved
                              /\ flushReply' = IF saved THEN "ok" ELSE "err"
    /\ UNCHANGED <<mainVars, uploads, writerQ, history>>

\* The periodic save, QUEUE_FLUSH_SEC after the last one.
WriterPersist ==
    /\ Up
    /\ dirty
    /\ \E saved \in SaveOutcomes : /\ SaveQueue(writerQ, saved)
                              /\ dirty' = ~saved
    /\ UNCHANGED <<mainVars, uploads, channel, writerQ, flushReply, history>>

\* The writer panics, at rest or while it handles a command; the supervisor
\* rebuilds it from the queue file (or from nothing when that fails to load).
\* A Flush it was handling drops its reply channel.
WriterPanics ==
    /\ Up
    /\ panics < MaxPanics
    /\ \E handling, loaded \in BOOLEAN :
        /\ handling => channel # <<>>
        /\ channel' = IF handling THEN Tail(channel) ELSE channel
        /\ writerQ' = IF loaded THEN disk ELSE <<>>
        /\ panicLost' = panicLost \cup (Elements(writerQ) \ Elements(writerQ'))
             \cup (IF handling /\ Head(channel).op = "append"
                   THEN {Head(channel).arg} ELSE {})
        /\ flushReply' = IF handling /\ Head(channel).op = "flush"
                         THEN "err" ELSE flushReply
    /\ dirty' = FALSE
    /\ panicked' = TRUE
    /\ panics' = panics + 1
    /\ UNCHANGED <<mainVars, uploads, disk, taken, accepted, evicted,
                   ackDropped, crashes>>

-----------------------------------------------------------------------------
(* Process death and start.                                                *)

Die ==
    /\ phase' = "down"
    /\ uploads' = {}
    /\ channel' = <<>>
    /\ samples' = <<>>
    /\ writerQ' = <<>>
    /\ dirty' = FALSE
    /\ uploading' = FALSE
    /\ lastFailed' = FALSE
    /\ firstReport' = TRUE
    /\ flushReply' = "none"
    /\ panicked' = FALSE
    /\ crashes' = crashes + 1
    /\ UNCHANGED <<generation, disk, taken, accepted, evicted, ackDropped,
                   panicLost, panics>>

\* A kill, a power loss, or the watchdog's exit(1).
Crash == /\ Up
         /\ crashes < MaxCrashes
         /\ Die

\* The flush succeeded: restart_after_update replaces the process.
RestartAfterUpdate == /\ phase = "flush"
                      /\ flushReply = "ok"
                      /\ Die

\* The flush failed or took longer than 30 s: run() returns the error.
FlushFailed == /\ phase = "flush"
               /\ flushReply # "ok"
               /\ Die

\* load_sample_queue, trimmed to the bound; an unreadable file is empty.
Start ==
    /\ phase = "down"
    /\ \E loaded \in BOOLEAN :
         samples' = IF loaded THEN KeepNewest(disk) ELSE <<>>
    /\ writerQ' = samples'
    /\ phase' = "sample"
    /\ UNCHANGED <<uploading, generation, lastFailed, firstReport, uploads,
                   channel, dirty, disk, flushReply, history>>

-----------------------------------------------------------------------------
MainStep ==
    \/ Sample
    \/ SampleBound
    \/ \E u \in uploads : \/ IgnoreStaleResult(u)
                          \/ UploadSucceeded(u)
                          \/ UploadFailed(u)
    \/ ResultsDrained
    \/ NoUpdateInstalled
    \/ UpdateInstalled
    \/ Report
    \/ RestartAfterUpdate
    \/ FlushFailed

UploadStep ==
    \E u \in uploads : \/ ServerAccepts(u)
                       \/ SubmitReturnsOk(u)
                       \/ SubmitReturnsErr(u)
                       \/ SubmitHangs(u)

WriterStep ==
    \/ WriterAppend
    \/ WriterAcknowledge
    \/ WriterFlush
    \/ WriterPersist

Next ==
    \/ MainStep
    \/ UploadStep
    \/ WriterStep
    \/ WriterPanics
    \/ Crash
    \/ Start

Spec == Init /\ [][Next]_vars

(* Fairness.  Main loop and writer keep running and a dead process is      *)
(* started again by its service manager.  Every transport call has a       *)
(* timeout, so an upload thread that does not hang returns.  The report,   *)
(* retry and stall periods do elapse (SF: the choice is made anew in each  *)
(* iteration).  The network is not for ever too slow: again and again the  *)
(* current upload is accepted and answered in good time, while the loop    *)
(* sleeps, rather than in the iteration that abandons it as stalled.       *)
CurrentUpload(Step(_)) == \E u \in uploads : IsCurrent(u) /\ Step(u)

Fairness ==
    /\ WF_vars(MainStep)
    /\ WF_vars(WriterStep)
    /\ WF_vars(Start)
    /\ \A g \in Generations :
         WF_vars(\E u \in uploads : /\ u.gen = g
                                   /\ (SubmitReturnsOk(u) \/ SubmitReturnsErr(u)))
    /\ SF_vars(Report /\ uploads' # uploads)
    /\ SF_vars(phase = "sample" /\ CurrentUpload(ServerAccepts))
    /\ SF_vars(phase = "sample" /\ CurrentUpload(SubmitReturnsOk))
    /\ SF_vars(CurrentUpload(UploadSucceeded))

FairSpec == Spec /\ Fairness

-----------------------------------------------------------------------------
(* Properties.                                                             *)

Queue == {q \in Seq(Nat) : Len(q) <= QueueMax}
UploadSet == [gen : Generations, batch : Seq(Nat), state : UploadState]
CommandSet == [op : Commands, arg : Nat, after : Seq(Nat)]

\* Every variable has its type, and memory and file are bounded by the
\* configured capacity (docs/en/04-agent.md: "a bounded local queue").
TypeOK ==
    /\ phase \in Phases
    /\ samples \in Queue
    /\ uploading \in BOOLEAN
    /\ generation \in Generations
    /\ lastFailed \in BOOLEAN
    /\ firstReport \in BOOLEAN
    /\ uploads \subseteq UploadSet
    /\ channel \in Seq(CommandSet)
    /\ writerQ \in Queue
    /\ dirty \in BOOLEAN
    /\ disk \in Queue
    /\ flushReply \in {"none", "ok", "err"}
    /\ taken \in Nat
    /\ accepted \subseteq Nat
    /\ evicted \subseteq Nat
    /\ ackDropped \subseteq Nat
    /\ panicLost \subseteq Nat
    /\ panicked \in BOOLEAN
    /\ crashes \in Nat
    /\ panics \in Nat

\* The queue the writer holds once it has handled the first i commands.
MirrorAt(i) == IF i = 0 THEN writerQ ELSE channel[i].after

\* Writer and main loop never disagree: replaying the waiting commands on the
\* writer's queue gives, command by command, the queue the main loop had when
\* it sent them, and its present queue after the last one.  Both sides count
\* (acknowledge n, drop the oldest), so one lost or doubled command would
\* shift every later drop (agent/src/queue.rs run_queue_writer).
WriterMirrorsQueue ==
    (Up /\ ~panicked) =>
        /\ \A i \in 1..Len(channel) :
              channel[i].after = ApplyCommand(channel[i], MirrorAt(i - 1))
        /\ samples = MirrorAt(Len(channel))

\* With nothing waiting and nothing dirty, a crash loses no sample.
CleanMeansDurable ==
    (Up /\ ~panicked /\ ~dirty /\ channel = <<>>) =>
        Elements(samples) \subseteq Elements(disk)

\* As long as the capacity bound never evicted a sample, an acknowledgement
\* only removes samples the server accepted: no hang, late result, retry,
\* crash or resend makes a counted drop hit an unsent sample.
AckDropsOnlySentBelowCapacity ==
    evicted = {} => ackDropped \subseteq accepted

\* Without a crash or an eviction no collected sample is ever lost: it waits
\* in the queue or the server has accepted it.
NoSilentLoss ==
    (evicted = {} /\ crashes = 0) => 1..taken \subseteq accepted \cup Elements(samples)

\* A restart after a successful flush finds every queued sample in the file
\* (main.rs UpdateOutcome::Installed: flush before restart_after_update).
UpdateKeepsQueue ==
    [][(phase = "flush" /\ flushReply = "ok" /\ phase' = "down" /\ ~panicked)
         => Elements(samples) \subseteq Elements(disk)]_vars

\* Every queued sample reaches the server, although uploads fail, are lost on
\* the way, hang for ever or answer too late (no crash, room in the queue):
\* the retry and the stall recovery never leave the loop without an upload.
QueuedSampleIsReported ==
    \A s \in 1..MaxTaken : (s \in Elements(samples)) ~> (s \in accepted)

-----------------------------------------------------------------------------
(* What the repository says of the queue and the code does not keep.       *)

\* CHANGELOG.md:798: samples are removed from the local queue only after the
\* Worker confirmed them.  The drop counts from the front of a queue whose
\* front may have been evicted since the batch was taken.
AckDropsOnlySent == ackDropped \subseteq accepted

\* queue.rs:226: after a writer is rebuilt only appends still inside the
\* panicked thread can be lost.  A later acknowledgement counts samples the
\* rebuilt writer does not hold and drops newer ones instead.
OnlyPanickedAppendsLost ==
    Up => Elements(samples) \subseteq
              Elements(writerQ) \cup panicLost
              \cup {c.arg : c \in {d \in Elements(channel) : d.op = "append"}}
=============================================================================
