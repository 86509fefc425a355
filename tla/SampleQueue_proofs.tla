------------------------- MODULE SampleQueue_proofs -------------------------
(* Theorems about SampleQueue, for every value of its constants.           *)
EXTENDS SampleQueue, TLAPS

(* What the queue operators return: queues within the capacity.            *)

LEMMA QueueType ==
    ASSUME NEW q \in Queue
    PROVE  q \in Seq(Nat) /\ Elements(q) \subseteq Nat
  BY DEF Queue, Elements

\* Appending with the capacity bound stays within the capacity.
LEMMA PushBoundedType ==
    ASSUME NEW q \in Queue, NEW s \in Nat
    PROVE  PushBounded(q, s) \in Queue
  BY QueueMaxAssumption DEF PushBounded, Queue

\* Dropping a counted prefix stays within the capacity.
LEMMA DrainFrontType ==
    ASSUME NEW q \in Queue, NEW count \in Nat
    PROVE  DrainFront(q, count) \in Queue
  BY QueueMaxAssumption DEF DrainFront, Queue

\* A batch is a sequence of samples.
LEMMA TakeFrontType ==
    ASSUME NEW q \in Queue, NEW n \in Nat
    PROVE  TakeFront(q, n) \in Seq(Nat)
  BY DEF TakeFront, Queue

\* A loaded file is trimmed to the capacity.
LEMMA KeepNewestType ==
    ASSUME NEW q \in Queue
    PROVE  KeepNewest(q) \in Queue
  BY QueueMaxAssumption DEF KeepNewest, Queue

LEMMA ElementsType ==
    ASSUME NEW q \in Seq(Nat)
    PROVE  Elements(q) \subseteq Nat
  BY DEF Elements

\* A command leaves the writer's queue within the capacity.
LEMMA ApplyCommandType ==
    ASSUME NEW cmd \in CommandSet, NEW q \in Queue
    PROVE  ApplyCommand(cmd, q) \in Queue
  BY PushBoundedType, DrainFrontType DEF ApplyCommand, CommandSet, Commands

\* A command is well formed, and so is the channel it is sent on.
LEMMA SendType ==
    ASSUME channel \in Seq(CommandSet),
           NEW op \in Commands, NEW arg \in Nat, NEW after \in Seq(Nat)
    PROVE  Append(channel, Command(op, arg, after)) \in Seq(CommandSet)
<1>1. Command(op, arg, after) \in CommandSet
  BY DEF Command, CommandSet
<1> QED
  BY <1>1

LEMMA EmptyType == <<>> \in Queue /\ <<>> \in Seq(CommandSet)
  BY QueueMaxAssumption DEF Queue

LEMMA ChannelType ==
    ASSUME channel \in Seq(CommandSet), channel # <<>>
    PROVE  /\ Head(channel) \in CommandSet
           /\ Tail(channel) \in Seq(CommandSet)
  OBVIOUS

-----------------------------------------------------------------------------
\* Every variable keeps its type, whatever is lost, delayed or reloaded.
THEOREM TypeCorrect == Spec => []TypeOK
<1>1. Init => TypeOK
  <2> SUFFICES ASSUME Init PROVE TypeOK
    OBVIOUS
  <2>1. /\ phase \in Phases /\ flushReply \in {"none", "ok", "err"}
        /\ uploading \in BOOLEAN /\ lastFailed \in BOOLEAN /\ firstReport \in BOOLEAN
        /\ dirty \in BOOLEAN /\ panicked \in BOOLEAN
    BY DEF Init, Phases
  <2>2. /\ samples \in Queue /\ writerQ \in Queue /\ disk \in Queue
        /\ channel \in Seq(CommandSet)
    BY EmptyType DEF Init
  <2> QED
    BY <2>1, <2>2 DEF Init, TypeOK
<1>2. TypeOK /\ [Next]_vars => TypeOK'
  <2> SUFFICES ASSUME TypeOK, [Next]_vars PROVE TypeOK'
    OBVIOUS
  <2> USE DEF TypeOK
  <2>1. CASE Sample
    <3>1. taken' \in Nat /\ PushBounded(samples, taken + 1) \in Queue
      BY <2>1, PushBoundedType DEF Sample
    <3>2. evicted' \subseteq Nat
      <4>1. Len(samples) + 1 > QueueMax => Head(samples) \in Nat
        BY QueueMaxAssumption DEF Queue
      <4> QED
        BY <2>1, <4>1 DEF Sample
    <3>3. channel' \in Seq(CommandSet)
      BY <2>1, <3>1, QueueType, SendType DEF Sample, Commands
    <3> QED
      BY <2>1, <3>1, <3>2, <3>3 DEF Sample, Phases, writerVars
  <2>2. CASE SampleBound
    BY <2>2 DEF SampleBound, Phases, writerVars, history
  <2>3. ASSUME NEW u \in uploads, IgnoreStaleResult(u) PROVE TypeOK'
    BY <2>3 DEF IgnoreStaleResult, mainVars, writerVars, history
  <2>4. ASSUME NEW u \in uploads, UploadSucceeded(u) PROVE TypeOK'
    <3>1. Len(u.batch) \in Nat
      BY DEF UploadSet
    <3>2. DrainFront(samples, Len(u.batch)) \in Queue
      BY <3>1, DrainFrontType
    <3>3. channel' \in Seq(CommandSet)
      BY <2>4, <3>1, <3>2, QueueType, SendType DEF UploadSucceeded, Commands
    <3>4. ackDropped' \subseteq Nat
      BY <2>4, QueueType DEF UploadSucceeded
    <3> QED
      BY <2>4, <3>2, <3>3, <3>4 DEF UploadSucceeded, writerVars
  <2>5. ASSUME NEW u \in uploads, UploadFailed(u) PROVE TypeOK'
    BY <2>5 DEF UploadFailed, writerVars, history
  <2>6. CASE ResultsDrained
    BY <2>6 DEF ResultsDrained, Phases, writerVars, history
  <2>7. CASE NoUpdateInstalled
    BY <2>7 DEF NoUpdateInstalled, Phases, writerVars, history
  <2>8. CASE UpdateInstalled
    <3>1. channel' \in Seq(CommandSet)
      BY <2>8, QueueType, SendType DEF UpdateInstalled, Commands
    <3> QED
      BY <2>8, <3>1 DEF UpdateInstalled, Phases, writerVars, history
  <2>9. CASE Report
    <3>1. TakeFront(samples, ReportMax) \in Seq(Nat)
      BY TakeFrontType, ReportMaxAssumption
    <3>2. PICK stalled, elapsed \in BOOLEAN : Report!3!(stalled, elapsed)
      BY <2>9 DEF Report
    <3>3. CASE (uploading /\ ~stalled) \/ ~ReportDue(elapsed)
      BY <2>9, <3>2, <3>3 DEF Report, Phases, writerVars, history
    <3>4. CASE ~((uploading /\ ~stalled) \/ ~ReportDue(elapsed))
      <4>1. PICK g \in Generations :
              /\ uploading' = TRUE
              /\ generation' = g
              /\ firstReport' = FALSE
              /\ uploads' = uploads \cup
                   {[gen |-> g, batch |-> TakeFront(samples, ReportMax), state |-> "sending"]}
        BY <3>2, <3>4 DEF FreshGenerations
      <4>2. uploads' \subseteq UploadSet
        BY <3>1, <4>1 DEF UploadSet, UploadState
      <4> QED
        BY <2>9, <4>1, <4>2 DEF Report, Phases, writerVars, history
    <3> QED
      BY <3>3, <3>4
  <2>10. ASSUME Die PROVE TypeOK'
    <3>1. /\ phase' \in Phases /\ flushReply' \in {"none", "ok", "err"}
          /\ uploading' \in BOOLEAN /\ lastFailed' \in BOOLEAN /\ firstReport' \in BOOLEAN
          /\ dirty' \in BOOLEAN /\ panicked' \in BOOLEAN
      BY <2>10 DEF Die, Phases
    <3>2. samples' \in Queue /\ writerQ' \in Queue /\ channel' \in Seq(CommandSet)
      BY <2>10, EmptyType DEF Die
    <3> QED
      BY <2>10, <3>1, <3>2 DEF Die
  <2>11. ASSUME NEW u \in uploads, ServerAccepts(u) PROVE TypeOK'
    <3>1. Elements(u.batch) \subseteq Nat
      BY ElementsType DEF UploadSet
    <3> QED
      BY <2>11, <3>1 DEF ServerAccepts, Replies, UploadSet, UploadState, mainVars, writerVars
  <2>12. ASSUME NEW u \in uploads, SubmitReturnsOk(u) \/ SubmitReturnsErr(u) \/ SubmitHangs(u)
         PROVE TypeOK'
    BY <2>12 DEF SubmitReturnsOk, SubmitReturnsErr, SubmitHangs, Replies,
                 UploadSet, UploadState, mainVars, writerVars, history
  <2>13. CASE WriterAppend
    BY <2>13, ChannelType, ApplyCommandType DEF WriterAppend, mainVars, history
  <2>14. CASE WriterAcknowledge
    BY <2>14, ChannelType, ApplyCommandType, SaveAssumption
    DEF WriterAcknowledge, SaveQueue, mainVars, history
  <2>15. CASE WriterFlush
    BY <2>15, ChannelType, SaveAssumption DEF WriterFlush, SaveQueue, mainVars, history
  <2>16. CASE WriterPersist
    BY <2>16, SaveAssumption DEF WriterPersist, SaveQueue, mainVars, history
  <2>17. CASE WriterPanics
    <3>1. PICK handling, loaded \in BOOLEAN : WriterPanics!3!(handling, loaded)
      BY <2>17 DEF WriterPanics
    <3>2. channel' \in Seq(CommandSet)
      BY <3>1, ChannelType
    <3>3. writerQ' \in Queue
      BY <3>1, EmptyType
    <3>4. handling => Head(channel).arg \in Nat
      BY <3>1, ChannelType DEF CommandSet
    <3>5. panicLost' \subseteq Nat
      BY <3>1, <3>3, <3>4, QueueType
    <3>6. flushReply' \in {"none", "ok", "err"}
      BY <3>1
    <3>7. dirty' = FALSE /\ panicked' = TRUE /\ panics' = panics + 1
      BY <2>17, Zenon DEF WriterPanics
    <3>8. UNCHANGED <<mainVars, uploads, disk, taken, accepted, evicted, ackDropped, crashes>>
      BY <2>17, Zenon DEF WriterPanics
    <3>9. /\ phase' \in Phases /\ samples' \in Queue /\ uploading' \in BOOLEAN
          /\ generation' \in Generations /\ lastFailed' \in BOOLEAN
          /\ firstReport' \in BOOLEAN /\ uploads' \subseteq UploadSet
          /\ disk' \in Queue /\ taken' \in Nat /\ crashes' \in Nat
          /\ accepted' \subseteq Nat /\ evicted' \subseteq Nat /\ ackDropped' \subseteq Nat
      BY <3>8 DEF mainVars
    <3>10. panics' \in Nat
      BY <3>7
    <3>11. dirty' \in BOOLEAN /\ panicked' \in BOOLEAN
      BY <3>7
    <3> QED
      BY <3>2, <3>3, <3>5, <3>6, <3>9, <3>10, <3>11
  <2>18. CASE Start
    <3>1. samples' \in Queue /\ writerQ' \in Queue /\ phase' \in Phases
      BY <2>18, KeepNewestType, EmptyType DEF Start, Phases
    <3> QED
      BY <2>18, <3>1 DEF Start, history
  <2>19. CASE UNCHANGED vars
    BY <2>19 DEF vars, mainVars, writerVars, history
  <2> QED
    BY <2>1, <2>2, <2>3, <2>4, <2>5, <2>6, <2>7, <2>8, <2>9, <2>10, <2>11, <2>12,
       <2>13, <2>14, <2>15, <2>16, <2>17, <2>18, <2>19
    DEF Next, MainStep, UploadStep, WriterStep, Crash, RestartAfterUpdate, FlushFailed
<1> QED
  BY <1>1, <1>2, PTL DEF Spec

-----------------------------------------------------------------------------
(* What the queue operators keep of their argument.                        *)

\* A batch is the front of the queue it was taken from.
Front(b, q) == Len(b) <= Len(q) /\ \A i \in 1..Len(b) : b[i] = q[i]

LEMMA BatchIsFront ==
    ASSUME NEW q \in Queue, NEW n \in Nat
    PROVE  Front(TakeFront(q, n), q)
  BY DEF TakeFront, Front, Queue

\* Without an eviction, a front stays one when a sample is added, and no
\* sample leaves the queue.
LEMMA PushKeeps ==
    ASSUME NEW q \in Queue, NEW s \in Nat, Len(q) + 1 <= QueueMax
    PROVE  /\ Elements(PushBounded(q, s)) = Elements(q) \cup {s}
           /\ \A b \in Seq(Nat) : Front(b, q) => Front(b, PushBounded(q, s))
<1>1. PushBounded(q, s) = Append(q, s)
  BY QueueMaxAssumption DEF PushBounded, Queue
<1>2. /\ Len(Append(q, s)) = Len(q) + 1 /\ Len(q) \in Nat
      /\ Append(q, s)[Len(q) + 1] = s
      /\ \A i \in 1..Len(q) : Append(q, s)[i] = q[i]
  BY DEF Queue
<1> QED
  BY <1>1, <1>2 DEF Elements, Front

\* A drop by count removes samples of the batch only, if this is the front.
LEMMA DrainDropsBatch ==
    ASSUME NEW q \in Queue, NEW b \in Seq(Nat), Front(b, q)
    PROVE  Elements(q) \ Elements(DrainFront(q, Len(b))) \subseteq Elements(b)
<1> DEFINE d == DrainFront(q, Len(b))
<1>1. /\ q \in Seq(Nat) /\ Len(b) \in Nat /\ Len(q) \in Nat /\ Len(b) <= Len(q)
  BY DEF Queue, Front
<1>2. ASSUME NEW i \in 1..Len(q), i > Len(b)
      PROVE  q[i] \in Elements(d)
  <2>1. d = SubSeq(q, Len(b) + 1, Len(q))
    BY <1>1, <1>2 DEF DrainFront
  <2>2. Len(d) = Len(q) - Len(b) /\ d[i - Len(b)] = q[i]
    BY <1>1, <1>2, <2>1
  <2>3. i - Len(b) \in 1..Len(d)
    BY <1>1, <1>2, <2>2
  <2> HIDE DEF d
  <2> QED
    BY <2>2, <2>3 DEF Elements
<1>3. ASSUME NEW i \in 1..Len(q), ~(i > Len(b))
      PROVE  q[i] \in Elements(b)
  <2>1. i \in 1..Len(b)
    BY <1>1, <1>3
  <2> QED
    BY <2>1 DEF Elements, Front
<1> HIDE DEF d
<1>4. \A x \in Elements(q) : x \in Elements(d) \/ x \in Elements(b)
  BY <1>2, <1>3 DEF Elements
<1> QED
  BY <1>4 DEF d

LEMMA KeepNewestKeeps ==
    ASSUME NEW q \in Queue
    PROVE  KeepNewest(q) = q
  BY QueueMaxAssumption DEF KeepNewest, Queue

-----------------------------------------------------------------------------
(* The invariant behind the safety theorems.                               *)

\* A dead process leaves nothing but the file.
DownIsEmpty ==
    ~Up => /\ channel = <<>> /\ uploads = {} /\ samples = <<>> /\ ~dirty
           /\ flushReply = "none" /\ crashes > 0

\* What the writer holds is in the file unless it is dirty.
CleanWriter ==
    (Up /\ ~panicked /\ ~dirty) => Elements(writerQ) \subseteq Elements(disk)

\* A flush is the last command of its process, which waits for the reply.
FlushIsLast ==
    /\ \A i \in 1..Len(channel) :
          channel[i].op = "flush" =>
              phase = "flush" /\ i = Len(channel) /\ flushReply = "none"
    /\ phase # "flush" => flushReply = "none"
    /\ (flushReply = "ok" /\ ~panicked) => channel = <<>> /\ ~dirty

\* An upload is known by its generation.
GenerationsDiffer == \A u, v \in uploads : u.gen = v.gen => u = v

\* As long as nothing was evicted the current upload carries the front of
\* the queue: only its result may consume samples.
CurrentIsFront ==
    evicted = {} => \A u \in uploads : IsCurrent(u) => Front(u.batch, samples)

\* A positive answer is the server's.
AnsweredIsAccepted ==
    \A u \in uploads : u.state \in {"acked", "ok"} => Elements(u.batch) \subseteq accepted

Uploads == /\ GenerationsDiffer /\ CurrentIsFront /\ AnsweredIsAccepted
           /\ AckDropsOnlySentBelowCapacity /\ NoSilentLoss

Inv == DownIsEmpty /\ WriterMirrorsQueue /\ CleanWriter /\ FlushIsLast /\ Uploads

-----------------------------------------------------------------------------
(* Memory, writer and file.                                                *)

\* A sent command carries what the main loop made of its queue.
LEMMA SendMirrored ==
    ASSUME TypeOK, WriterMirrorsQueue, Up, ~panicked,
           NEW op \in Commands, NEW arg \in Nat,
           samples' = ApplyCommand(Command(op, arg, samples'), samples),
           samples' \in Queue,
           channel' = Append(channel, Command(op, arg, samples')),
           writerQ' = writerQ
    PROVE  WriterMirrorsQueue'
<1> DEFINE c == Command(op, arg, samples')
<1>1. channel \in Seq(CommandSet) /\ c \in CommandSet
  BY DEF TypeOK, Command, CommandSet, Queue
<1>2. PICK n \in Nat : n = Len(channel)
  BY <1>1
<1>3. /\ Len(channel') = n + 1
      /\ channel'[n + 1] = c
      /\ \A i \in 1..n : channel'[i] = channel[i]
  BY <1>1, <1>2
<1>4. \A i \in 0..n : MirrorAt(i)' = MirrorAt(i)
  BY <1>2, <1>3 DEF MirrorAt
<1>5. c.after = samples' /\ MirrorAt(n + 1)' = samples'
  BY <1>2, <1>3 DEF MirrorAt, Command
<1>6. MirrorAt(n)' = samples
  BY <1>2, <1>4 DEF WriterMirrorsQueue
<1>7. ASSUME NEW i \in 1..n
      PROVE  channel'[i].after = ApplyCommand(channel'[i], MirrorAt(i - 1)')
  <2>1. i - 1 \in 0..n
    BY <1>2
  <2> QED
    BY <1>2, <1>3, <1>4, <2>1 DEF WriterMirrorsQueue
<1>8. channel'[n + 1].after = ApplyCommand(channel'[n + 1], MirrorAt((n + 1) - 1)')
  BY <1>2, <1>3, <1>5, <1>6
<1>9. \A i \in 1..Len(channel') :
        channel'[i].after = ApplyCommand(channel'[i], MirrorAt(i - 1)')
  <2>1. \A i \in 1..(n + 1) : i \in 1..n \/ i = n + 1
    BY <1>2
  <2> QED
    BY <1>3, <1>7, <1>8, <2>1
<1> QED
  BY <1>3, <1>5, <1>9 DEF WriterMirrorsQueue

\* The writer makes of a command what the main loop made of it.
LEMMA HandleMirrored ==
    ASSUME TypeOK, WriterMirrorsQueue, Up, ~panicked,
           channel # <<>>, channel' = Tail(channel),
           writerQ' = ApplyCommand(Head(channel), writerQ),
           samples' = samples
    PROVE  WriterMirrorsQueue'
<1>1. channel \in Seq(CommandSet)
  BY DEF TypeOK
<1>2. PICK n \in Nat : n + 1 = Len(channel)
  <2>1. Len(channel) \in Nat /\ Len(channel) # 0
    BY <1>1
  <2>2. Len(channel) - 1 \in Nat /\ (Len(channel) - 1) + 1 = Len(channel)
    BY <2>1
  <2> QED
    BY <2>2
<1>3. /\ Head(channel) = channel[1] /\ Len(channel') = n
      /\ \A i \in 1..n : channel'[i] = channel[i + 1]
  BY <1>1, <1>2
<1>4. writerQ' = channel[1].after
  BY <1>2, <1>3 DEF WriterMirrorsQueue, MirrorAt
<1>5. \A i \in 0..n : MirrorAt(i)' = MirrorAt(i + 1)
  BY <1>2, <1>3, <1>4 DEF MirrorAt
<1>6. samples' = MirrorAt(n)'
  BY <1>2, <1>5 DEF WriterMirrorsQueue
<1>7. ASSUME NEW i \in 1..n
      PROVE  channel'[i].after = ApplyCommand(channel'[i], MirrorAt(i - 1)')
  <2>1. /\ i - 1 \in 0..n /\ (i - 1) + 1 = i
        /\ i + 1 \in 1..(n + 1) /\ (i + 1) - 1 = i
    BY <1>2
  <2>2. MirrorAt(i - 1)' = MirrorAt(i)
    BY <1>5, <2>1
  <2>3. channel[i + 1].after = ApplyCommand(channel[i + 1], MirrorAt(i))
    BY <1>2, <2>1 DEF WriterMirrorsQueue
  <2> QED
    BY <1>3, <2>2, <2>3
<1>8. n = Len(channel')
  BY <1>3
<1> QED
  BY <1>6, <1>7, <1>8 DEF WriterMirrorsQueue

\* A step of the loop that leaves queue, writer and file alone.
LEMMA StoreUntouched ==
    ASSUME WriterMirrorsQueue, CleanWriter, FlushIsLast, Up,
           phase = "flush" <=> phase' = "flush",
           UNCHANGED <<samples, channel, writerQ, dirty, disk, flushReply, panicked>>
    PROVE  WriterMirrorsQueue' /\ CleanWriter' /\ FlushIsLast'
  BY DEF WriterMirrorsQueue, CleanWriter, FlushIsLast, MirrorAt, Up

\* Only a loop that sends its last command waits.
LEMMA SendFlushIsLast ==
    ASSUME TypeOK, FlushIsLast, phase # "flush",
           NEW op \in Commands, NEW arg \in Nat, NEW after \in Seq(Nat),
           phase' = "flush" <=> op = "flush",
           channel' = Append(channel, Command(op, arg, after)),
           flushReply' = flushReply
    PROVE  FlushIsLast'
<1>1. /\ channel \in Seq(CommandSet) /\ Command(op, arg, after) \in CommandSet
      /\ Command(op, arg, after).op = op
  BY DEF TypeOK, Command, CommandSet
<1>2. /\ Len(channel') = Len(channel) + 1 /\ Len(channel) \in Nat
      /\ channel'[Len(channel) + 1].op = op
      /\ \A i \in 1..Len(channel) : channel'[i] = channel[i]
  BY <1>1
<1>3. \A i \in 1..Len(channel) : channel'[i].op # "flush"
  BY <1>2 DEF FlushIsLast
<1>4. \A i \in 1..Len(channel') : i \in 1..Len(channel) \/ i = Len(channel')
  BY <1>2
<1>5. flushReply' = "none"
  BY DEF FlushIsLast
<1>6. ASSUME NEW i \in 1..Len(channel'), channel'[i].op = "flush"
      PROVE  phase' = "flush" /\ i = Len(channel')
  <2>1. CASE i \in 1..Len(channel)
    BY <1>2, <1>3, <1>6, <2>1
  <2>2. CASE i = Len(channel')
    BY <1>2, <1>6, <2>2
  <2> QED
    BY <1>4, <2>1, <2>2
<1> QED
  BY <1>5, <1>6 DEF FlushIsLast

\* A command that is not a flush leaves the channel.
LEMMA HandleFlushIsLast ==
    ASSUME TypeOK, FlushIsLast,
           channel # <<>>, channel' = Tail(channel), phase' = phase,
           flushReply' \in {flushReply, "err"},
           Head(channel).op # "flush" => flushReply' = flushReply,
           panicked => panicked'
    PROVE  FlushIsLast'
<1>1. channel \in Seq(CommandSet)
  BY DEF TypeOK
<1>2. PICK n \in Nat : n + 1 = Len(channel)
  <2>1. Len(channel) \in Nat /\ Len(channel) # 0
    BY <1>1
  <2>2. Len(channel) - 1 \in Nat /\ (Len(channel) - 1) + 1 = Len(channel)
    BY <2>1
  <2> QED
    BY <2>2
<1>3. /\ Head(channel) = channel[1] /\ Len(channel') = n
      /\ \A i \in 1..n : channel'[i] = channel[i + 1]
  BY <1>1, <1>2
<1>4. \A i \in 1..(n + 1) : channel[i].op = "flush" =>
         phase = "flush" /\ i = n + 1 /\ flushReply = "none"
  BY <1>2 DEF FlushIsLast
<1>5. ASSUME NEW i \in 1..n, channel'[i].op = "flush"
      PROVE  phase' = "flush" /\ i = n /\ flushReply' = "none"
  <2>1. i + 1 \in 1..(n + 1) /\ 1 \in 1..(n + 1) /\ i + 1 # 1
    BY <1>2
  <2>2. phase = "flush" /\ i + 1 = n + 1 /\ flushReply = "none"
    BY <1>3, <1>4, <1>5, <2>1
  <2>3. Head(channel).op # "flush"
    <3>1. 1 # n + 1
      BY <1>2, <2>1, <2>2
    <3> QED
      BY <1>3, <1>4, <2>1, <3>1
  <2> QED
    BY <1>2, <2>2, <2>3
<1>6. phase' # "flush" => flushReply' = "none"
  <2>1. Head(channel).op = "flush" => phase = "flush"
    BY <1>2, <1>3, <1>4
  <2> QED
    BY <2>1 DEF FlushIsLast
<1>7. ~(flushReply' = "ok" /\ ~panicked')
  BY DEF FlushIsLast
<1> QED
  BY <1>3, <1>5, <1>6, <1>7 DEF FlushIsLast

-----------------------------------------------------------------------------
(* Uploads.                                                                *)

\* Results may leave and new answers come: what holds of uploads holds still.
LEMMA UploadsRemain ==
    ASSUME TypeOK, Uploads,
           \A u \in uploads' : \E v \in uploads :
              /\ u.gen = v.gen /\ u.batch = v.batch
              /\ u.state \in {"acked", "ok"} =>
                    v.state \in {"acked", "ok"} \/ Elements(u.batch) \subseteq accepted',
           GenerationsDiffer',
           UNCHANGED <<samples, generation, evicted, ackDropped, taken, crashes>>,
           accepted \subseteq accepted'
    PROVE  Uploads'
<1>1. CurrentIsFront'
  BY DEF Uploads, CurrentIsFront, IsCurrent
<1>2. AnsweredIsAccepted'
  BY DEF Uploads, AnsweredIsAccepted
<1>3. AckDropsOnlySentBelowCapacity' /\ NoSilentLoss'
  BY DEF Uploads, AckDropsOnlySentBelowCapacity, NoSilentLoss
<1> QED
  BY <1>1, <1>2, <1>3 DEF Uploads

LEMMA UploadsLeave ==
    ASSUME TypeOK, Uploads, uploads' \subseteq uploads,
           UNCHANGED <<samples, generation, evicted, ackDropped, accepted, taken, crashes>>
    PROVE  Uploads'
<1>1. GenerationsDiffer'
  BY DEF Uploads, GenerationsDiffer
<1>2. \A u \in uploads' : \E v \in uploads :
         u.gen = v.gen /\ u.batch = v.batch /\ (u.state \in {"acked", "ok"} => v.state \in {"acked", "ok"})
  OBVIOUS
<1> QED
  BY <1>1, <1>2, UploadsRemain

\* An upload's state changes.
LEMMA UploadsReply ==
    ASSUME TypeOK, Uploads, NEW u \in uploads, NEW st \in UploadState,
           uploads' = Replies(u, st),
           st \in {"acked", "ok"} =>
              u.state \in {"acked", "ok"} \/ Elements(u.batch) \subseteq accepted',
           UNCHANGED <<samples, generation, evicted, ackDropped, taken, crashes>>,
           accepted \subseteq accepted'
    PROVE  Uploads'
<1> DEFINE w == [u EXCEPT !.state = st]
<1>1. w.gen = u.gen /\ w.batch = u.batch /\ w.state = st
  BY DEF TypeOK, UploadSet
<1>2. uploads' = (uploads \ {u}) \cup {w}
  BY DEF Replies
<1> HIDE DEF w
<1>3. GenerationsDiffer'
  BY <1>1, <1>2 DEF Uploads, GenerationsDiffer
<1>4. \A x \in uploads' : \E v \in uploads :
         /\ x.gen = v.gen /\ x.batch = v.batch
         /\ x.state \in {"acked", "ok"} =>
               v.state \in {"acked", "ok"} \/ Elements(x.batch) \subseteq accepted'
  BY <1>1, <1>2
<1> QED
  BY <1>3, <1>4, UploadsRemain

-----------------------------------------------------------------------------
(* The actions.                                                            *)

LEMMA InvInit == Init => Inv
<1> SUFFICES ASSUME Init PROVE Inv
  OBVIOUS
<1>1. Len(channel) = 0 /\ Elements(writerQ) = {} /\ Up
  BY DEF Init, Elements, Up
<1>2. DownIsEmpty /\ WriterMirrorsQueue /\ CleanWriter /\ FlushIsLast
  BY <1>1 DEF Init, DownIsEmpty, WriterMirrorsQueue, MirrorAt, CleanWriter, FlushIsLast
<1>3. NoSilentLoss
  BY DEF Init, NoSilentLoss
<1>4. GenerationsDiffer /\ CurrentIsFront /\ AnsweredIsAccepted /\ AckDropsOnlySentBelowCapacity
  BY DEF Init, GenerationsDiffer, CurrentIsFront, AnsweredIsAccepted, AckDropsOnlySentBelowCapacity
<1> QED
  BY <1>2, <1>3, <1>4 DEF Inv, Uploads

LEMMA SampleKeeps ==
    ASSUME TypeOK, TypeOK', Inv, Sample
    PROVE  Inv'
<1> DEFINE s == taken + 1
<1>1. /\ s \in Nat /\ samples \in Queue /\ Up /\ Up' /\ phase # "flush" /\ phase' # "flush"
      /\ samples' = PushBounded(samples, s) /\ samples' \in Queue /\ samples' \in Seq(Nat)
      /\ channel' = Append(channel, Command("append", s, samples'))
      /\ UNCHANGED <<writerQ, dirty, disk, flushReply, panicked>>
  BY DEF Sample, TypeOK, Up, writerVars, Queue
<1> HIDE DEF s
<1>2. DownIsEmpty'
  BY <1>1 DEF DownIsEmpty
<1>3. WriterMirrorsQueue'
  <2>1. CASE panicked
    BY <1>1, <2>1 DEF WriterMirrorsQueue
  <2>2. CASE ~panicked
    <3>1. samples' = ApplyCommand(Command("append", s, samples'), samples)
      BY <1>1 DEF ApplyCommand, Command
    <3> QED
      BY <1>1, <2>2, <3>1, SendMirrored DEF Inv, Commands
  <2> QED
    BY <2>1, <2>2
<1>4. CleanWriter'
  BY <1>1 DEF Inv, CleanWriter
<1>5. FlushIsLast'
  BY <1>1, SendFlushIsLast DEF Inv, Commands
<1>6. Uploads'
  <2>1. UNCHANGED <<uploads, generation, accepted, ackDropped, crashes>> /\ taken' = s
    BY DEF Sample, s
  <2>2. evicted' = {} => /\ evicted = {} /\ Len(samples) + 1 <= QueueMax
    <3>1. evicted' = evicted \cup (IF Len(samples) + 1 > QueueMax THEN {Head(samples)} ELSE {})
      BY DEF Sample
    <3>2. Len(samples) + 1 > QueueMax => Head(samples) \in evicted'
      BY <3>1
    <3>3. Len(samples) \in Nat /\ QueueMax \in Nat
      BY <1>1, QueueMaxAssumption DEF Queue
    <3> QED
      BY <3>1, <3>2, <3>3
  <2>3. evicted' = {} =>
          /\ Elements(samples') = Elements(samples) \cup {s}
          /\ \A b \in Seq(Nat) : Front(b, samples) => Front(b, samples')
    BY <1>1, <2>2, PushKeeps
  <2>4. \A u \in uploads : u.batch \in Seq(Nat)
    BY DEF TypeOK, UploadSet
  <2>5. CurrentIsFront'
    BY <2>1, <2>2, <2>3, <2>4 DEF Inv, Uploads, CurrentIsFront, IsCurrent
  <2>6. GenerationsDiffer' /\ AnsweredIsAccepted' /\ AckDropsOnlySentBelowCapacity'
    BY <2>1, <2>2 DEF Inv, Uploads, GenerationsDiffer, AnsweredIsAccepted, AckDropsOnlySentBelowCapacity
  <2>7. NoSilentLoss'
    <3>1. 1..s \subseteq 1..taken \cup {s}
      BY DEF s, TypeOK
    <3> QED
      BY <2>1, <2>2, <2>3, <3>1 DEF Inv, Uploads, NoSilentLoss
  <2> QED
    BY <2>5, <2>6, <2>7 DEF Uploads
<1> QED
  BY <1>2, <1>3, <1>4, <1>5, <1>6 DEF Inv

LEMMA SuccessKeeps ==
    ASSUME TypeOK, TypeOK', Inv, NEW u \in uploads, UploadSucceeded(u)
    PROVE  Inv'
<1> DEFINE n == Len(u.batch)
<1>1. /\ n \in Nat /\ u.batch \in Seq(Nat)
  BY DEF TypeOK, UploadSet
<1>2. /\ samples \in Queue /\ Up /\ Up' /\ phase # "flush" /\ phase' # "flush"
      /\ samples' = DrainFront(samples, n) /\ samples' \in Queue /\ samples' \in Seq(Nat)
      /\ channel' = Append(channel, Command("ack", n, samples'))
      /\ UNCHANGED <<writerQ, dirty, disk, flushReply, panicked>>
  BY DEF UploadSucceeded, TypeOK, Up, writerVars, Queue
<1> HIDE DEF n
<1>3. DownIsEmpty'
  BY <1>2 DEF DownIsEmpty
<1>4. WriterMirrorsQueue'
  <2>1. CASE panicked
    BY <1>2, <2>1 DEF WriterMirrorsQueue
  <2>2. CASE ~panicked
    <3>1. samples' = ApplyCommand(Command("ack", n, samples'), samples)
      BY <1>2 DEF ApplyCommand, Command
    <3> QED
      BY <1>1, <1>2, <2>2, <3>1, SendMirrored DEF Inv, Commands
  <2> QED
    BY <2>1, <2>2
<1>5. CleanWriter'
  BY <1>2 DEF Inv, CleanWriter
<1>6. FlushIsLast'
  BY <1>1, <1>2, SendFlushIsLast DEF Inv, Commands
<1>7. Uploads'
  <2>1. /\ UNCHANGED <<generation, accepted, evicted, taken, crashes>>
        /\ uploads' = uploads \ {u} /\ u.state = "ok" /\ IsCurrent(u)
        /\ ackDropped' = ackDropped \cup (Elements(samples) \ Elements(samples'))
    BY DEF UploadSucceeded
  <2>2. evicted = {} => Elements(samples) \ Elements(samples') \subseteq accepted
    <3> SUFFICES ASSUME evicted = {}
                 PROVE  Elements(samples) \ Elements(samples') \subseteq accepted
      OBVIOUS
    <3>1. Front(u.batch, samples)
      BY <2>1 DEF Inv, Uploads, CurrentIsFront
    <3>2. Elements(u.batch) \subseteq accepted
      BY <2>1 DEF Inv, Uploads, AnsweredIsAccepted
    <3> QED
      BY <1>1, <1>2, <3>1, <3>2, DrainDropsBatch DEF n
  <2>3. CurrentIsFront'
    BY <2>1 DEF Inv, Uploads, CurrentIsFront, IsCurrent, GenerationsDiffer
  <2>4. GenerationsDiffer' /\ AnsweredIsAccepted'
    BY <2>1 DEF Inv, Uploads, GenerationsDiffer, AnsweredIsAccepted
  <2>5. AckDropsOnlySentBelowCapacity' /\ NoSilentLoss'
    BY <2>1, <2>2 DEF Inv, Uploads, AckDropsOnlySentBelowCapacity, NoSilentLoss
  <2> QED
    BY <2>3, <2>4, <2>5 DEF Uploads
<1> QED
  BY <1>3, <1>4, <1>5, <1>6, <1>7 DEF Inv

\* The steps of the loop that touch neither the queue nor the writer.
LEMMA LoopKeeps ==
    ASSUME TypeOK, Inv, Up, Up', phase = "flush" <=> phase' = "flush",
           UNCHANGED <<samples, channel, writerQ, dirty, disk, flushReply, panicked>>,
           Uploads'
    PROVE  Inv'
  BY StoreUntouched DEF Inv, DownIsEmpty

LEMMA ReportKeeps ==
    ASSUME TypeOK, TypeOK', Inv, Report
    PROVE  Inv'
<1>1. /\ Up /\ Up' /\ (phase = "flush" <=> phase' = "flush")
      /\ UNCHANGED <<samples, channel, writerQ, dirty, disk, flushReply, panicked,
                     accepted, evicted, ackDropped, taken, crashes>>
  BY DEF Report, Up, writerVars, history
<1>2. CASE UNCHANGED <<generation, uploads>>
  BY <1>1, <1>2, UploadsLeave, LoopKeeps DEF Inv
<1>3. CASE \E g \in FreshGenerations :
              /\ generation' = g
              /\ uploads' = uploads \cup
                   {[gen |-> g, batch |-> TakeFront(samples, ReportMax), state |-> "sending"]}
  <2>1. PICK g \in FreshGenerations :
              /\ generation' = g
              /\ uploads' = uploads \cup
                   {[gen |-> g, batch |-> TakeFront(samples, ReportMax), state |-> "sending"]}
    BY <1>3
  <2>2. Front(TakeFront(samples, ReportMax), samples)
    BY BatchIsFront, ReportMaxAssumption DEF TypeOK
  <2>3. \A u \in uploads : u.gen # g
    BY DEF FreshGenerations
  <2>4. GenerationsDiffer' /\ CurrentIsFront' /\ AnsweredIsAccepted'
    BY <1>1, <2>1, <2>2, <2>3
    DEF Inv, Uploads, GenerationsDiffer, CurrentIsFront, IsCurrent, AnsweredIsAccepted
  <2>5. AckDropsOnlySentBelowCapacity' /\ NoSilentLoss'
    BY <1>1 DEF Inv, Uploads, AckDropsOnlySentBelowCapacity, NoSilentLoss
  <2> QED
    BY <1>1, <2>4, <2>5, LoopKeeps DEF Uploads
<1> QED
  BY <1>2, <1>3 DEF Report

LEMMA UpdateKeeps ==
    ASSUME TypeOK, TypeOK', Inv, UpdateInstalled
    PROVE  Inv'
<1>1. /\ Up /\ Up' /\ phase # "flush" /\ phase' = "flush"
      /\ samples \in Queue /\ samples \in Seq(Nat)
      /\ channel' = Append(channel, Command("flush", 0, samples))
      /\ UNCHANGED <<samples, writerQ, dirty, disk, flushReply, panicked, uploads,
                     generation, accepted, evicted, ackDropped, taken, crashes>>
  BY DEF UpdateInstalled, TypeOK, Up, writerVars, history, Queue
<1>2. DownIsEmpty'
  BY <1>1 DEF DownIsEmpty
<1>3. WriterMirrorsQueue'
  <2>1. CASE panicked
    BY <1>1, <2>1 DEF WriterMirrorsQueue
  <2>2. CASE ~panicked
    <3>1. samples' = ApplyCommand(Command("flush", 0, samples'), samples)
      BY <1>1 DEF ApplyCommand, Command
    <3> QED
      BY <1>1, <2>2, <3>1, SendMirrored DEF Inv, Commands
  <2> QED
    BY <2>1, <2>2
<1>4. CleanWriter'
  BY <1>1 DEF Inv, CleanWriter
<1>5. FlushIsLast'
  BY <1>1, SendFlushIsLast DEF Inv, Commands
<1>6. Uploads'
  BY <1>1, UploadsLeave DEF Inv
<1> QED
  BY <1>2, <1>3, <1>4, <1>5, <1>6 DEF Inv

LEMMA WriterKeeps ==
    ASSUME TypeOK, TypeOK', Inv, WriterStep \/ WriterPanics
    PROVE  Inv'
<1>1. /\ Up /\ Up' /\ phase' = phase /\ samples' = samples /\ writerQ \in Queue
      /\ Uploads'
  <2>1. /\ Up /\ UNCHANGED <<phase, samples, uploads, generation, accepted, evicted,
                             ackDropped, taken, crashes>>
    BY DEF WriterStep, WriterAppend, WriterAcknowledge, WriterFlush, WriterPersist,
           WriterPanics, mainVars, history
  <2> QED
    BY <2>1, UploadsLeave DEF Inv, Up, TypeOK
<1>2. DownIsEmpty'
  BY <1>1 DEF DownIsEmpty
<1>3. CASE WriterAppend
  <2>1. /\ channel # <<>> /\ channel' = Tail(channel) /\ Head(channel).op = "append"
        /\ writerQ' = ApplyCommand(Head(channel), writerQ)
        /\ dirty' = TRUE /\ UNCHANGED <<flushReply, panicked>>
    BY <1>3 DEF WriterAppend, history
  <2>2. WriterMirrorsQueue'
    <3>1. panicked => WriterMirrorsQueue'
      BY <2>1 DEF WriterMirrorsQueue
    <3> QED
      BY <1>1, <2>1, <3>1, HandleMirrored DEF Inv
  <2>3. CleanWriter'
    BY <2>1 DEF CleanWriter
  <2>4. FlushIsLast'
    BY <1>1, <2>1, HandleFlushIsLast DEF Inv
  <2> QED
    BY <1>1, <1>2, <2>2, <2>3, <2>4 DEF Inv
<1>4. CASE WriterAcknowledge
  <2>1. /\ channel # <<>> /\ channel' = Tail(channel) /\ Head(channel).op = "ack"
        /\ writerQ' = ApplyCommand(Head(channel), writerQ)
        /\ UNCHANGED <<flushReply, panicked>>
        /\ ~dirty' => disk' = writerQ'
    BY <1>4 DEF WriterAcknowledge, SaveQueue, history
  <2>2. WriterMirrorsQueue'
    <3>1. panicked => WriterMirrorsQueue'
      BY <2>1 DEF WriterMirrorsQueue
    <3> QED
      BY <1>1, <2>1, <3>1, HandleMirrored DEF Inv
  <2>3. CleanWriter'
    BY <2>1 DEF CleanWriter
  <2>4. FlushIsLast'
    BY <1>1, <2>1, HandleFlushIsLast DEF Inv
  <2> QED
    BY <1>1, <1>2, <2>2, <2>3, <2>4 DEF Inv
<1>5. CASE WriterFlush
  <2>1. /\ channel # <<>> /\ channel' = Tail(channel) /\ Head(channel).op = "flush"
        /\ UNCHANGED <<writerQ, panicked>>
        /\ ~dirty' => disk' = writerQ'
        /\ flushReply' = "err" \/ (flushReply' = "ok" /\ ~dirty')
    BY <1>5 DEF WriterFlush, SaveQueue, history
  <2>2. WriterMirrorsQueue'
    <3>1. panicked => WriterMirrorsQueue'
      BY <2>1 DEF WriterMirrorsQueue
    <3>2. writerQ' = ApplyCommand(Head(channel), writerQ)
      BY <2>1 DEF ApplyCommand
    <3> QED
      BY <1>1, <2>1, <3>1, <3>2, HandleMirrored DEF Inv
  <2>3. CleanWriter'
    BY <2>1 DEF CleanWriter
  <2>4. FlushIsLast'
    <3>1. channel \in Seq(CommandSet)
      BY DEF TypeOK
    <3>2. Len(channel) \in Nat \ {0} /\ channel[1].op = "flush"
      BY <2>1, <3>1
    <3>3. 1 \in 1..Len(channel)
      BY <3>2
    <3>4. phase = "flush" /\ 1 = Len(channel)
      BY <3>2, <3>3 DEF Inv, FlushIsLast
    <3>5. channel' = <<>>
      BY <2>1, <3>1, <3>4
    <3>6. 1..Len(channel') = {}
      BY <3>5
    <3> QED
      BY <1>1, <2>1, <3>4, <3>5, <3>6 DEF FlushIsLast
  <2> QED
    BY <1>1, <1>2, <2>2, <2>3, <2>4 DEF Inv
<1>6. CASE WriterPersist
  <2>1. /\ dirty /\ UNCHANGED <<channel, writerQ, flushReply, panicked>>
        /\ ~dirty' => disk' = writerQ'
    BY <1>6 DEF WriterPersist, SaveQueue, history
  <2>2. WriterMirrorsQueue'
    BY <1>1, <2>1 DEF Inv, WriterMirrorsQueue, MirrorAt
  <2>3. CleanWriter'
    BY <2>1 DEF CleanWriter
  <2>4. FlushIsLast'
    BY <1>1, <2>1 DEF Inv, FlushIsLast
  <2> QED
    BY <1>1, <1>2, <2>2, <2>3, <2>4 DEF Inv
<1>7. CASE WriterPanics
  <2>1. PICK handling, loaded \in BOOLEAN : WriterPanics!3!(handling, loaded)
    BY <1>7 DEF WriterPanics
  <2>2. panicked' = TRUE
    BY <1>7, Zenon DEF WriterPanics
  <2>3. WriterMirrorsQueue' /\ CleanWriter'
    BY <2>2 DEF WriterMirrorsQueue, CleanWriter
  <2>4. FlushIsLast'
    <3>1. CASE handling
      <4>1. /\ channel # <<>> /\ channel' = Tail(channel)
            /\ flushReply' = IF Head(channel).op = "flush" THEN "err" ELSE flushReply
        BY <2>1, <3>1
      <4> QED
        BY <1>1, <2>2, <4>1, HandleFlushIsLast DEF Inv
    <3>2. CASE ~handling
      <4>1. UNCHANGED <<channel, flushReply>>
        BY <2>1, <3>2
      <4> QED
        BY <1>1, <2>2, <4>1 DEF Inv, FlushIsLast
    <3> QED
      BY <3>1, <3>2
  <2> QED
    BY <1>1, <1>2, <2>3, <2>4 DEF Inv
<1> QED
  BY <1>3, <1>4, <1>5, <1>6, <1>7 DEF WriterStep

LEMMA DieKeeps ==
    ASSUME TypeOK, TypeOK', Inv, Die
    PROVE  Inv'
<1>1. /\ ~Up' /\ phase' # "flush" /\ channel' = <<>> /\ uploads' = {} /\ samples' = <<>>
      /\ dirty' = FALSE /\ flushReply' = "none" /\ crashes' = crashes + 1
      /\ UNCHANGED <<accepted, evicted, ackDropped>>
  BY DEF Die, Up
<1>2. crashes \in Nat /\ crashes' > 0
  BY <1>1 DEF TypeOK
<1>3. DownIsEmpty' /\ WriterMirrorsQueue' /\ CleanWriter'
  BY <1>1, <1>2 DEF DownIsEmpty, WriterMirrorsQueue, CleanWriter
<1>4. 1..Len(channel') = {}
  BY <1>1
<1>5. FlushIsLast'
  BY <1>1, <1>4 DEF FlushIsLast
<1>6. GenerationsDiffer' /\ CurrentIsFront' /\ AnsweredIsAccepted'
  BY <1>1 DEF GenerationsDiffer, CurrentIsFront, AnsweredIsAccepted
<1>7. AckDropsOnlySentBelowCapacity' /\ NoSilentLoss'
  BY <1>1, <1>2 DEF Inv, Uploads, AckDropsOnlySentBelowCapacity, NoSilentLoss
<1> QED
  BY <1>3, <1>5, <1>6, <1>7 DEF Inv, Uploads

LEMMA StartKeeps ==
    ASSUME TypeOK, TypeOK', Inv, Start
    PROVE  Inv'
<1>1. /\ ~Up /\ Up' /\ phase' = "sample" /\ writerQ' = samples'
      /\ samples' = disk \/ samples' = <<>>
      /\ UNCHANGED <<generation, uploads, channel, disk, flushReply, accepted, evicted,
                     ackDropped, taken, crashes>>
  BY KeepNewestKeeps DEF Start, Up, history, TypeOK
<1>2. channel = <<>> /\ uploads = {} /\ flushReply = "none" /\ crashes > 0
  BY <1>1 DEF Inv, DownIsEmpty
<1>3. Len(channel') = 0 /\ 1..Len(channel') = {}
  BY <1>1, <1>2
<1>4. DownIsEmpty' /\ WriterMirrorsQueue'
  BY <1>1, <1>3 DEF DownIsEmpty, WriterMirrorsQueue, MirrorAt
<1>5. CleanWriter'
  <2>1. Elements(<<>>) = {}
    BY DEF Elements
  <2> QED
    BY <1>1, <2>1 DEF CleanWriter
<1>6. FlushIsLast'
  BY <1>1, <1>2, <1>3 DEF FlushIsLast
<1>7. GenerationsDiffer' /\ CurrentIsFront' /\ AnsweredIsAccepted'
  BY <1>1, <1>2 DEF GenerationsDiffer, CurrentIsFront, AnsweredIsAccepted
<1>8. AckDropsOnlySentBelowCapacity' /\ NoSilentLoss'
  BY <1>1, <1>2 DEF Inv, Uploads, AckDropsOnlySentBelowCapacity, NoSilentLoss, TypeOK
<1> QED
  BY <1>4, <1>5, <1>6, <1>7, <1>8 DEF Inv, Uploads

LEMMA UploadKeeps ==
    ASSUME TypeOK, TypeOK', Inv, NEW u \in uploads,
           \/ ServerAccepts(u) \/ SubmitReturnsOk(u)
           \/ SubmitReturnsErr(u) \/ SubmitHangs(u)
    PROVE  Inv'
<1>1. /\ UNCHANGED <<phase, samples, generation, channel, writerQ, dirty, disk, flushReply,
                     panicked, evicted, ackDropped, taken, crashes>>
      /\ accepted \subseteq accepted'
  BY DEF ServerAccepts, SubmitReturnsOk, SubmitReturnsErr, SubmitHangs,
         mainVars, writerVars, history
<1>2. Up
  BY DEF Inv, DownIsEmpty
<1>3. PICK st \in UploadState :
         /\ uploads' = Replies(u, st)
         /\ st \in {"acked", "ok"} =>
               u.state \in {"acked", "ok"} \/ Elements(u.batch) \subseteq accepted'
  <2>1. ServerAccepts(u) => uploads' = Replies(u, "acked") /\ Elements(u.batch) \subseteq accepted'
    BY DEF ServerAccepts
  <2>2. SubmitReturnsOk(u) => uploads' = Replies(u, "ok") /\ u.state = "acked"
    BY DEF SubmitReturnsOk, AnsweredOk
  <2>3. SubmitReturnsErr(u) => uploads' = Replies(u, "err")
    BY DEF SubmitReturnsErr
  <2>4. SubmitHangs(u) => uploads' = Replies(u, "hung")
    BY DEF SubmitHangs
  <2> QED
    BY <2>1, <2>2, <2>3, <2>4 DEF UploadState
<1>4. Uploads'
  BY <1>1, <1>3, UploadsReply DEF Inv
<1> QED
  BY <1>1, <1>2, <1>4, LoopKeeps DEF Up

LEMMA InvNext == TypeOK /\ TypeOK' /\ Inv /\ [Next]_vars => Inv'
<1> SUFFICES ASSUME TypeOK, TypeOK', Inv, [Next]_vars PROVE Inv'
  OBVIOUS
<1>1. ASSUME NEW u \in uploads, IgnoreStaleResult(u) \/ UploadFailed(u)
      PROVE  Inv'
  <2>1. /\ Up /\ Up' /\ (phase = "flush" <=> phase' = "flush") /\ uploads' \subseteq uploads
        /\ UNCHANGED <<samples, generation, channel, writerQ, dirty, disk, flushReply,
                       panicked, accepted, evicted, ackDropped, taken, crashes>>
    BY <1>1 DEF IgnoreStaleResult, UploadFailed, Up, mainVars, writerVars, history
  <2> QED
    BY <2>1, UploadsLeave, LoopKeeps DEF Inv
<1>2. CASE SampleBound \/ ResultsDrained \/ NoUpdateInstalled
  <2>1. /\ Up /\ Up' /\ (phase = "flush" <=> phase' = "flush") /\ uploads' \subseteq uploads
        /\ UNCHANGED <<samples, generation, channel, writerQ, dirty, disk, flushReply,
                       panicked, accepted, evicted, ackDropped, taken, crashes>>
    BY <1>2 DEF SampleBound, ResultsDrained, NoUpdateInstalled, Up, writerVars, history
  <2> QED
    BY <2>1, UploadsLeave, LoopKeeps DEF Inv
<1>3. CASE UNCHANGED vars
  BY <1>3 DEF vars, mainVars, writerVars, history, Inv, DownIsEmpty, WriterMirrorsQueue,
     MirrorAt, CleanWriter, FlushIsLast, Uploads, GenerationsDiffer, CurrentIsFront,
     IsCurrent, AnsweredIsAccepted, AckDropsOnlySentBelowCapacity, NoSilentLoss, Up
<1> QED
  BY <1>1, <1>2, <1>3, SampleKeeps, SuccessKeeps, ReportKeeps, UpdateKeeps, WriterKeeps,
     DieKeeps, StartKeeps, UploadKeeps
  DEF Next, MainStep, UploadStep, WriterStep, Crash, RestartAfterUpdate, FlushFailed

-----------------------------------------------------------------------------
(* The safety properties.                                                  *)

LEMMA InvCorrect == Spec => []Inv
  BY InvInit, InvNext, TypeCorrect, PTL DEF Spec

\* The writer's copy never diverges from the queue of the main loop
\* (run_queue_writer), whatever is uploaded, evicted, flushed or restarted.
THEOREM WriterMirrors == Spec => []WriterMirrorsQueue
<1>1. Inv => WriterMirrorsQueue
  BY DEF Inv
<1> QED
  BY <1>1, InvCorrect, PTL

\* Nothing waiting and nothing dirty means that the queue file is complete
\* (persist_sample_queue).
THEOREM CleanIsDurable == Spec => []CleanMeansDurable
<1>1. TypeOK /\ Inv => CleanMeansDurable
  <2> SUFFICES ASSUME TypeOK, Inv, Up, ~panicked, ~dirty, channel = <<>>
               PROVE  Elements(samples) \subseteq Elements(disk)
    BY DEF CleanMeansDurable
  <2>1. samples = writerQ
    BY DEF Inv, WriterMirrorsQueue, MirrorAt
  <2> QED
    BY <2>1 DEF Inv, CleanWriter
<1> QED
  BY <1>1, InvCorrect, TypeCorrect, PTL

\* An acknowledgement by count drops only what the server accepted, as long as
\* the capacity bound evicted nothing (upload results of run()).
THEOREM AcksDropOnlySent == Spec => []AckDropsOnlySentBelowCapacity
<1>1. Inv => AckDropsOnlySentBelowCapacity
  BY DEF Inv, Uploads
<1> QED
  BY <1>1, InvCorrect, PTL

\* Without an eviction or a crash every collected sample waits in the queue or
\* was accepted (upload results of run()).
THEOREM NothingLostSilently == Spec => []NoSilentLoss
<1>1. Inv => NoSilentLoss
  BY DEF Inv, Uploads
<1> QED
  BY <1>1, InvCorrect, PTL

\* A restart after a successful flush finds the queue in the file
\* (UpdateOutcome::Installed).
THEOREM UpdatesKeepQueue == Spec => UpdateKeepsQueue
<1>1. TypeOK /\ Inv /\ [Next]_vars =>
        [(phase = "flush" /\ flushReply = "ok" /\ phase' = "down" /\ ~panicked)
           => Elements(samples) \subseteq Elements(disk)]_vars
  <2> SUFFICES ASSUME TypeOK, Inv, phase = "flush", flushReply = "ok", ~panicked
               PROVE  Elements(samples) \subseteq Elements(disk)
    OBVIOUS
  <2>1. Up /\ channel = <<>> /\ ~dirty
    BY DEF Inv, FlushIsLast, Up
  <2>2. samples = writerQ
    BY <2>1 DEF Inv, WriterMirrorsQueue, MirrorAt
  <2> QED
    BY <2>1, <2>2 DEF Inv, CleanWriter
<1> QED
  BY <1>1, InvCorrect, TypeCorrect, PTL DEF Spec, UpdateKeepsQueue
=============================================================================
