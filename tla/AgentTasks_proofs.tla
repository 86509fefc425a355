------------------------- MODULE AgentTasks_proofs -------------------------
(* Theorems about AgentTasks, for any set of tasks and of concurrent         *)
(* requests, any number of delivery attempts and any number of faults.       *)
EXTENDS AgentTasks, TLAPS

(* The type invariant is not inductive: a request must name a task in the    *)
(* steps that write its row and an instance in those of a claim, the thread  *)
(* must name the task it executes, and attempts and instances must be below  *)
(* their bounds.                                                             *)

TableOK ==
    /\ status \in [Tasks -> Active \cup Finished \cup {"absent", "deleted"}]
    /\ owner \in [Tasks -> Instances \cup {None}]
    /\ cancelled \subseteq Tasks /\ lapsed \subseteq Tasks /\ quiet \subseteq Tasks
    /\ given \in [Tasks -> Nat]
    /\ target \in Tasks \cup {None}

RowOps == {"insert", "cancelQueued", "cancelRunning", "claim", "complete",
           "store", "apply"}

ClaimOps == {"claimExpire", "claimStale", "recover", "select", "claim"}

NamesRow(q) ==
    /\ q.op \in RowOps => q.task \in Tasks
    /\ q.op \in ClaimOps => q.instance \in Instances

RequestsOK ==
    /\ req \in [Requests -> RequestRecord]
    /\ \A r \in Requests : NamesRow(req[r])

ThreadOK ==
    /\ runner \in RunnerRecord
    /\ runner.phase \in {"execute", "deliver"} => runner.task \in Tasks
    /\ runner.phase # "deliver" => runner.attempt = 0
    /\ runner.phase = "deliver" /\ runner.waiting = None => runner.attempt < Attempts
    /\ runner.instance <= faults + 1
    /\ pending \in Results \cup {None}
    /\ faults \in 0..MaxFaults
    /\ made \subseteq Tasks /\ dropped \subseteq Tasks

Typed == TableOK /\ RequestsOK /\ ThreadOK

-----------------------------------------------------------------------------
(* What one handler step makes of the requests.                              *)

LEMMA FreeType == Free \in RequestRecord /\ NamesRow(Free)
  BY ConstantsAssumption
     DEF Free, RequestRecord, NamesRow, RowOps, ClaimOps, Ops, Answers

LEMMA ReplyKeeps ==
    ASSUME RequestsOK, NEW r \in Requests, NEW a \in Answers, Reply(r, a)
    PROVE  RequestsOK'
<1> DEFINE q == [Free EXCEPT !.op = "reply", !.answer = a]
<1>1. q \in RequestRecord /\ NamesRow(q)
  BY FreeType DEF Free, RequestRecord, NamesRow, RowOps, ClaimOps, Ops
<1>2. req' = [req EXCEPT ![r] = q]
  BY DEF Reply
<1> HIDE DEF q
<1> QED
  BY <1>1, <1>2 DEF RequestsOK

LEMMA StepKeeps ==
    ASSUME RequestsOK, NEW r \in Requests, NEW op \in Ops,
           op \in RowOps => req[r].task \in Tasks,
           op \in ClaimOps => req[r].instance \in Instances, Step(r, op)
    PROVE  RequestsOK'
<1> DEFINE q == [req[r] EXCEPT !.op = op]
<1>1. q \in RequestRecord /\ NamesRow(q)
  BY DEF RequestsOK, RequestRecord, NamesRow
<1>2. req' = [req EXCEPT ![r] = q]
  BY DEF Step, RequestsOK
<1> HIDE DEF q
<1> QED
  BY <1>1, <1>2 DEF RequestsOK

LEMMA StartKeeps ==
    ASSUME RequestsOK, NEW r \in Requests, NEW op \in Ops,
           NEW t \in Tasks \cup {None}, op \in RowOps => t \in Tasks,
           op \notin ClaimOps, Start(r, op, t)
    PROVE  RequestsOK'
<1> DEFINE q == [req[r] EXCEPT !.op = op, !.task = t]
<1>1. q \in RequestRecord /\ NamesRow(q)
  BY DEF RequestsOK, RequestRecord, NamesRow
<1>2. req' = [req EXCEPT ![r] = q]
  BY DEF Start, RequestsOK
<1> HIDE DEF q
<1> QED
  BY <1>1, <1>2 DEF RequestsOK

LEMMA SendKeeps ==
    ASSUME RequestsOK, ThreadOK, NEW r \in Requests, NEW op \in Ops,
           NEW t \in Tasks \cup {None}, op \in RowOps => t \in Tasks,
           NEW ok \in BOOLEAN, Send(r, op, t, ok)
    PROVE  RequestsOK'
<1> DEFINE q == [Free EXCEPT !.op = op, !.task = t, !.ok = ok,
                             !.instance = runner.instance]
<1>1. q \in RequestRecord /\ NamesRow(q)
  BY FreeType DEF Free, RequestRecord, NamesRow, ThreadOK, RunnerRecord
<1>2. req' = [req EXCEPT ![r] = q]
  BY DEF Send
<1> HIDE DEF q
<1> QED
  BY <1>1, <1>2 DEF RequestsOK

LEMMA ReleaseKeeps ==
    ASSUME RequestsOK, NEW r \in Requests, req' = [req EXCEPT ![r] = Free]
    PROVE  RequestsOK'
  BY FreeType DEF RequestsOK

LEMMA AnswerTypes ==
    /\ None \in Answers /\ "ok" \in Answers /\ "rejected" \in Answers
    /\ "lost" \in Answers /\ \A t \in Tasks : t \in Answers
  BY DEF Answers

\* Rows that end keep the table's type.
LEMMA EndKeeps ==
    ASSUME TableOK, NEW ts, NEW s \in Finished, End(ts, s)
    PROVE  status' \in [Tasks -> Active \cup Finished \cup {"absent", "deleted"}]
  BY DEF TableOK, End, Ended, Finished

LEMMA AgesKeep ==
    ASSUME TableOK, Ages
    PROVE  lapsed' \subseteq Tasks /\ quiet' \subseteq Tasks
  BY DEF TableOK, Ages

LEMMA AsleepType ==
    ASSUME NEW i \in Instances
    PROVE  /\ Asleep(i) \in RunnerRecord
           /\ Asleep(i).phase = "sleep" /\ Asleep(i).attempt = 0
           /\ Asleep(i).instance = i
  BY ConstantsAssumption DEF Asleep, RunnerRecord

\* What the thread is about: the parts of ThreadOK that concern `runner`.
WellKept(rn, n) ==
    /\ rn \in RunnerRecord
    /\ rn.phase \in {"execute", "deliver"} => rn.task \in Tasks
    /\ rn.phase # "deliver" => rn.attempt = 0
    /\ rn.phase = "deliver" /\ rn.waiting = None => rn.attempt < Attempts
    /\ rn.instance <= n + 1

LEMMA AsleepWellKept ==
    ASSUME NEW i \in Instances, NEW n \in Nat, i <= n + 1
    PROVE  WellKept(Asleep(i), n)
  BY AsleepType DEF WellKept

\* Whatever the thread hears, it stays well formed.
LEMMA HearKeeps ==
    ASSUME ThreadOK, NEW a \in Answers, Hear(a), made' = made,
           faults' \in {faults, faults + 1}, faults' \in 0..MaxFaults
    PROVE  ThreadOK'
<1>0. /\ faults \in Nat /\ faults' \in Nat /\ faults <= faults'
      /\ runner.instance \in Instances /\ runner.instance \in Nat
      /\ runner.instance <= faults + 1
  BY ConstantsAssumption DEF ThreadOK, RunnerRecord, Instances
<1>1. runner.instance <= faults' + 1
  BY <1>0
<1>2. WellKept(Asleep(runner.instance), faults')
  BY <1>0, <1>1, AsleepWellKept
<1>3. SUFFICES /\ WellKept(runner', faults')
               /\ pending' \in Results \cup {None} /\ dropped' \subseteq Tasks
  BY DEF ThreadOK, WellKept
<1>4. CASE HearFlush(a)
  BY <1>2, <1>4 DEF HearFlush, ThreadOK
<1>5. CASE HearClaim(a)
  <2>1. pending' = pending /\ dropped' = dropped
    BY <1>5 DEF HearClaim
  <2>2. CASE a \in Tasks
    <3> DEFINE rn == [runner EXCEPT !.phase = "execute", !.task = a, !.waiting = None]
    <3>1. runner' = rn
      BY <1>5, <2>2 DEF HearClaim
    <3>2. rn \in RunnerRecord /\ rn.phase = "execute" /\ rn.task \in Tasks
          /\ rn.attempt = runner.attempt /\ rn.instance = runner.instance
      BY <2>2 DEF ThreadOK, RunnerRecord
    <3>3. runner.attempt = 0
      BY <1>5 DEF HearClaim, ThreadOK
    <3> HIDE DEF rn
    <3>4. WellKept(rn, faults')
      BY <1>1, <3>2, <3>3 DEF WellKept
    <3> QED
      BY <2>1, <3>1, <3>4 DEF ThreadOK
  <2>3. CASE a \notin Tasks
    BY <1>2, <1>5, <2>1, <2>3 DEF HearClaim, ThreadOK
  <2> QED
    BY <2>2, <2>3
<1>6. CASE HearDeliver(a)
  <2>0. runner.task \in Tasks /\ runner.ok \in BOOLEAN
    BY <1>6 DEF HearDeliver, ThreadOK, RunnerRecord
  <2>1. CASE a = "ok"
    BY <1>2, <1>6, <2>1 DEF HearDeliver, ThreadOK
  <2>2. CASE a # "ok" /\ MayRetry
    <3> DEFINE rn == [runner EXCEPT !.waiting = None]
    <3>1. runner' = rn /\ pending' = pending /\ dropped' = dropped
      BY <1>6, <2>2 DEF HearDeliver
    <3>2. rn \in RunnerRecord /\ rn.phase = runner.phase /\ rn.task = runner.task
          /\ rn.attempt = runner.attempt /\ rn.instance = runner.instance
      BY DEF ThreadOK, RunnerRecord
    <3>3. runner.attempt < Attempts /\ runner.phase = "deliver"
      BY <1>6, <2>2 DEF MayRetry, HearDeliver
    <3> HIDE DEF rn
    <3>4. WellKept(rn, faults')
      BY <1>1, <2>0, <3>2, <3>3 DEF WellKept
    <3> QED
      BY <3>1, <3>4 DEF ThreadOK
  <2>3. CASE a # "ok" /\ ~MayRetry
    <3>1. runner' = Asleep(runner.instance)
      BY <1>6, <2>3 DEF HearDeliver
    <3>2. CASE pending' = [task |-> runner.task, ok |-> runner.ok] /\ UNCHANGED dropped
      BY <1>2, <2>0, <3>1, <3>2 DEF ThreadOK, Results
    <3>3. CASE dropped' = dropped \cup {runner.task} /\ UNCHANGED pending
      BY <1>2, <2>0, <3>1, <3>3 DEF ThreadOK
    <3> QED
      BY <1>6, <2>3, <3>2, <3>3 DEF HearDeliver
  <2> QED
    BY <2>1, <2>2, <2>3
<1> QED
  BY <1>4, <1>5, <1>6 DEF Hear

LEMMA IdleKeeps == ASSUME ThreadOK, RunnerIdle PROVE ThreadOK'
  BY DEF ThreadOK, RunnerIdle

LEMMA SameTable == ASSUME TableOK, UNCHANGED worker PROVE TableOK'
  BY DEF TableOK, worker

-----------------------------------------------------------------------------
(* Every step of the administrator and of the Worker keeps Typed.            *)

LEMMA CreateCheckTyped ==
    ASSUME Typed, NEW r \in Requests, NEW t \in Tasks, CreateCheck(r, t)
    PROVE  Typed'
  BY StartKeeps, IdleKeeps, SameTable DEF CreateCheck, Typed, Ops, ClaimOps

LEMMA CreateInsertTyped ==
    ASSUME Typed, NEW r \in Requests, CreateInsert(r)
    PROVE  Typed'
<1>1. RequestsOK'
  BY ReplyKeeps, AnswerTypes DEF CreateInsert, Typed
<1>2. status' \in {status, [status EXCEPT ![req[r].task] = "queued"]}
  BY DEF CreateInsert
<1>3. TableOK'
  BY <1>2 DEF CreateInsert, TableOK, Typed, Active
<1> QED
  BY <1>1, <1>3, IdleKeeps DEF CreateInsert, Typed

LEMMA CancelReadTyped ==
    ASSUME Typed, NEW r \in Requests, NEW t \in Tasks, CancelRead(r, t)
    PROVE  Typed'
<1>1. {"cancelQueued", "cancelRunning"} \subseteq Ops \ ClaimOps
  BY DEF Ops, ClaimOps
<1>2. RequestsOK'
  BY <1>1, StartKeeps DEF CancelRead, Typed
<1> QED
  BY <1>2, IdleKeeps, SameTable DEF CancelRead, Typed

LEMMA CancelQueuedTyped ==
    ASSUME Typed, NEW r \in Requests, CancelQueued(r)
    PROVE  Typed'
<1>1. RequestsOK'
  BY ReplyKeeps, AnswerTypes DEF CancelQueued, Typed
<1>2. req[r].task \in Tasks
  BY DEF CancelQueued, At, Typed, RequestsOK, NamesRow, RowOps
<1>3. TableOK'
  BY <1>2, AgesKeep DEF CancelQueued, TableOK, Typed, Finished
<1> QED
  BY <1>1, <1>3, IdleKeeps DEF CancelQueued, Typed

LEMMA CancelRunningTyped ==
    ASSUME Typed, NEW r \in Requests, CancelRunning(r)
    PROVE  Typed'
<1>1. RequestsOK'
  BY ReplyKeeps, AnswerTypes DEF CancelRunning, Typed
<1>2. req[r].task \in Tasks
  BY DEF CancelRunning, At, Typed, RequestsOK, NamesRow, RowOps
<1>3. TableOK'
  BY <1>2 DEF CancelRunning, TableOK, Typed
<1> QED
  BY <1>1, <1>3, IdleKeeps DEF CancelRunning, Typed

LEMMA ListTyped ==
    ASSUME Typed, NEW r \in Requests, List(r)
    PROVE  Typed'
  BY StartKeeps, IdleKeeps, SameTable DEF List, Typed, Ops, RowOps, ClaimOps

LEMMA ExpireTyped ==
    ASSUME Typed, NEW r \in Requests, Expire(r)
    PROVE  Typed'
<1>1. \/ Step(r, "listStale")
      \/ Step(r, "claimStale") /\ req[r].instance \in Instances
  BY DEF Expire, At, Typed, RequestsOK, NamesRow, ClaimOps
<1>2. RequestsOK'
  BY <1>1, StepKeeps DEF Typed, Ops, RowOps, ClaimOps
<1>3. status' \in [Tasks -> Active \cup Finished \cup {"absent", "deleted"}]
  BY EndKeeps DEF Expire, Typed, Finished
<1>4. TableOK'
  BY <1>3, AgesKeep DEF Expire, TableOK, Typed
<1> QED
  BY <1>2, <1>4, IdleKeeps DEF Expire, Typed

LEMMA FailStaleTyped ==
    ASSUME Typed, NEW r \in Requests, FailStale(r)
    PROVE  Typed'
<1>1. \/ Reply(r, None)
      \/ Step(r, "recover") /\ req[r].instance \in Instances
  BY DEF FailStale, At, Typed, RequestsOK, NamesRow, ClaimOps
<1>2. RequestsOK'
  BY <1>1, StepKeeps, ReplyKeeps, AnswerTypes DEF Typed, Ops, RowOps
<1>3. status' \in [Tasks -> Active \cup Finished \cup {"absent", "deleted"}]
  BY EndKeeps DEF FailStale, Typed, Finished
<1>4. TableOK'
  BY <1>3, AgesKeep DEF FailStale, TableOK, Typed
<1> QED
  BY <1>2, <1>4, IdleKeeps DEF FailStale, Typed

LEMMA RecoverTyped ==
    ASSUME Typed, NEW r \in Requests, Recover(r)
    PROVE  Typed'
<1>1. req[r].instance \in Instances
  BY DEF Recover, At, Typed, RequestsOK, NamesRow, ClaimOps
<1>2. RequestsOK'
  BY <1>1, StepKeeps DEF Recover, Typed, Ops, RowOps
<1>3. status' \in [Tasks -> Active \cup Finished \cup {"absent", "deleted"}]
  BY EndKeeps DEF Recover, Typed, Finished
<1>4. TableOK'
  BY <1>3, AgesKeep DEF Recover, TableOK, Typed
<1> QED
  BY <1>2, <1>4, IdleKeeps DEF Recover, Typed

\* Two fields of one request, written at once.
LEMMA TaskWritten ==
    ASSUME NEW S, NEW T, NEW f \in [S -> T], NEW r \in S, NEW op, NEW t
    PROVE  [f EXCEPT ![r].op = op, ![r].task = t]
             = [f EXCEPT ![r] = [f[r] EXCEPT !.op = op, !.task = t]]
  BY Zenon

LEMMA CancelWritten ==
    ASSUME NEW S, NEW T, NEW f \in [S -> T], NEW r \in S, NEW op, NEW saw
    PROVE  [f EXCEPT ![r].op = op, ![r].sawCancel = saw]
             = [f EXCEPT ![r] = [f[r] EXCEPT !.op = op, !.sawCancel = saw]]
  BY Zenon

LEMMA ClaimSelectTyped ==
    ASSUME Typed, NEW r \in Requests, ClaimSelect(r)
    PROVE  Typed'
<1>1. CASE Reply(r, None)
  BY <1>1, ReplyKeeps, AnswerTypes, IdleKeeps, SameTable DEF ClaimSelect, Typed
<1>2. CASE \E t \in Tasks : req' = [req EXCEPT ![r].op = "claim", ![r].task = t]
  <2>1. PICK t \in Tasks : req' = [req EXCEPT ![r].op = "claim", ![r].task = t]
    BY <1>2
  <2> DEFINE q == [req[r] EXCEPT !.op = "claim", !.task = t]
  <2>a. req[r].instance \in Instances
    BY DEF ClaimSelect, At, Typed, RequestsOK, NamesRow, ClaimOps
  <2>c. req[r] \in RequestRecord /\ "claim" \in Ops
    BY DEF Typed, RequestsOK, Ops
  <2>d. q \in RequestRecord /\ q.op = "claim" /\ q.task = t /\ q.instance = req[r].instance
    BY <2>c DEF RequestRecord
  <2>2. q \in RequestRecord /\ NamesRow(q)
    BY <2>a, <2>d DEF NamesRow
  <2>b. req \in [Requests -> RequestRecord]
    BY DEF Typed, RequestsOK
  <2>3. req' = [req EXCEPT ![r] = q]
    BY <2>1, <2>b, TaskWritten
  <2> HIDE DEF q
  <2>4. RequestsOK'
    BY <2>2, <2>3 DEF Typed, RequestsOK
  <2> QED
    BY <2>4, IdleKeeps, SameTable DEF ClaimSelect, Typed
<1> QED
  BY <1>1, <1>2 DEF ClaimSelect


LEMMA ClaimTyped ==
    ASSUME Typed, NEW r \in Requests, Claim(r)
    PROVE  Typed'
<1>1. req[r].task \in Tasks /\ req[r].instance \in Instances
  BY DEF Claim, At, Typed, RequestsOK, NamesRow, RowOps, ClaimOps
<1>2. RequestsOK'
  BY <1>1, ReplyKeeps, AnswerTypes DEF Claim, Typed
<1>3. CASE ClaimCondition(req[r].task)
  <2>1. status' \in [Tasks -> Active \cup Finished \cup {"absent", "deleted"}]
    BY <1>3 DEF Claim, Typed, TableOK, Active
  <2>2. owner' \in [Tasks -> Instances \cup {None}]
    BY <1>1, <1>3 DEF Claim, Typed, TableOK
  <2>3. given' \in [Tasks -> Nat]
    BY <1>1, <1>3 DEF Claim, Typed, TableOK
  <2>4. TableOK'
    BY <1>3, <2>1, <2>2, <2>3 DEF Claim, Typed, TableOK
  <2> QED
    BY <1>2, <2>4, IdleKeeps DEF Claim, Typed
<1>4. CASE ~ClaimCondition(req[r].task)
  BY <1>2, <1>4, IdleKeeps, SameTable DEF Claim, Typed, worker
<1> QED
  BY <1>3, <1>4

LEMMA CompleteReadTyped ==
    ASSUME Typed, NEW r \in Requests, CompleteRead(r)
    PROVE  Typed'
<1>0. req[r].task \in Tasks
  BY DEF CompleteRead, At, Typed, RequestsOK, NamesRow, RowOps
<1>1. PICK saw \in BOOLEAN :
          \/ Reply(r, "rejected")
          \/ req' = [req EXCEPT ![r].op = "store", ![r].sawCancel = saw]
  <2> DEFINE saw == req[r].task \in cancelled
  <2>1. saw \in BOOLEAN
    OBVIOUS
  <2>2. \/ Reply(r, "rejected")
        \/ req' = [req EXCEPT ![r].op = "store", ![r].sawCancel = saw]
    BY DEF CompleteRead
  <2> HIDE DEF saw
  <2> QED
    BY <2>1, <2>2
<1>2. CASE Reply(r, "rejected")
  <2>1. RequestsOK /\ "rejected" \in Answers
    BY AnswerTypes DEF Typed
  <2>2. RequestsOK'
    BY <1>2, <2>1, ReplyKeeps
  <2>3. ThreadOK' /\ TableOK'
    BY IdleKeeps, SameTable DEF CompleteRead, Typed
  <2> QED
    BY <2>2, <2>3 DEF Typed
<1>3. CASE req' = [req EXCEPT ![r].op = "store", ![r].sawCancel = saw]
  <2> DEFINE q == [req[r] EXCEPT !.op = "store", !.sawCancel = saw]
  <2>b. req[r] \in RequestRecord /\ req[r].task \in Tasks /\ "store" \in Ops
    BY <1>0 DEF Typed, RequestsOK, Ops
  <2>c. q \in RequestRecord /\ q.op = "store" /\ q.task = req[r].task
    BY <1>0, <2>b DEF RequestRecord
  <2>1. q \in RequestRecord /\ NamesRow(q)
    BY <2>b, <2>c DEF NamesRow, ClaimOps
  <2>a. req \in [Requests -> RequestRecord]
    BY DEF Typed, RequestsOK
  <2>2. req' = [req EXCEPT ![r] = q]
    BY <1>3, <2>a, CancelWritten
  <2> HIDE DEF q
  <2>3. RequestsOK'
    BY <2>1, <2>2 DEF Typed, RequestsOK
  <2> QED
    BY <2>3, IdleKeeps, SameTable DEF CompleteRead, Typed
<1> QED
  BY <1>1, <1>2, <1>3

LEMMA CompleteStoreTyped ==
    ASSUME Typed, NEW r \in Requests, CompleteStore(r)
    PROVE  Typed'
<1>0. req[r].task \in Tasks
  BY DEF CompleteStore, At, Typed, RequestsOK, NamesRow, RowOps
<1>1. PICK a \in {"ok", "rejected"} : Step(r, "apply") \/ Reply(r, a)
  BY DEF CompleteStore
<1>2. RequestsOK'
  BY <1>0, <1>1, StepKeeps, ReplyKeeps, AnswerTypes DEF Typed, Ops, ClaimOps
<1>3. status' \in {status, [status EXCEPT ![req[r].task] =
                               FinalStatus(req[r].ok, req[r].sawCancel)]}
  BY DEF CompleteStore
<1>4. FinalStatus(req[r].ok, req[r].sawCancel) \in Finished
  BY DEF FinalStatus, Finished
<1>5. TableOK'
  BY <1>3, <1>4, AgesKeep DEF CompleteStore, Typed, TableOK
<1> QED
  BY <1>2, <1>5, IdleKeeps DEF CompleteStore, Typed

LEMMA CompleteApplyTyped ==
    ASSUME Typed, NEW r \in Requests, CompleteApply(r)
    PROVE  Typed'
<1>0. req[r].task \in Tasks
  BY DEF CompleteApply, At, Typed, RequestsOK, NamesRow, RowOps
<1>1. RequestsOK'
  BY ReplyKeeps, AnswerTypes DEF CompleteApply, Typed
<1>2. TableOK'
  BY <1>0 DEF CompleteApply, Typed, TableOK
<1> QED
  BY <1>1, <1>2, IdleKeeps DEF CompleteApply, Typed

LEMMA ServeTyped ==
    ASSUME Typed, NEW r \in Requests, Serve(r)
    PROVE  Typed'
  BY CreateInsertTyped, CancelQueuedTyped, CancelRunningTyped, ExpireTyped,
     FailStaleTyped, RecoverTyped, ClaimSelectTyped, ClaimTyped,
     CompleteReadTyped, CompleteStoreTyped, CompleteApplyTyped DEF Serve

LEMMA AbortTyped ==
    ASSUME Typed, NEW r \in Requests, Abort(r)
    PROVE  Typed'
  BY ReplyKeeps, AnswerTypes, IdleKeeps, SameTable DEF Abort, Typed

LEMMA CleanupTyped ==
    ASSUME Typed, NEW t \in Tasks, Cleanup(t)
    PROVE  Typed'
<1>1. TableOK'
  BY DEF Cleanup, Typed, TableOK
<1>2. RequestsOK'
  BY DEF Cleanup, Typed, RequestsOK
<1> QED
  BY <1>1, <1>2, IdleKeeps DEF Cleanup, Typed

LEMMA TimeTyped ==
    ASSUME Typed, NEW t \in Tasks, DeadlinePasses(t) \/ HeartbeatAges(t)
    PROVE  Typed'
<1>1. TableOK'
  BY DEF DeadlinePasses, HeartbeatAges, Typed, TableOK
<1>2. RequestsOK'
  BY DEF DeadlinePasses, HeartbeatAges, Typed, RequestsOK
<1> QED
  BY <1>1, <1>2, IdleKeeps DEF DeadlinePasses, HeartbeatAges, Typed

-----------------------------------------------------------------------------
(* Every step of the manager's thread keeps Typed.                           *)

\* A step that writes `runner` and a counter of faults, and is not a deliver.
LEMMA RunnerKeeps ==
    ASSUME ThreadOK, WellKept(runner', faults'), faults' \in 0..MaxFaults,
           pending' = pending, made' \subseteq Tasks, dropped' \subseteq Tasks
    PROVE  ThreadOK'
  BY DEF ThreadOK, WellKept

LEMMA PollTyped ==
    ASSUME Typed, NEW r \in Requests, Poll(r)
    PROVE  Typed'
<1>1. TableOK'
  BY SameTable DEF Poll, Typed
<1>2. CASE pending # None
  <2>1. pending.task \in Tasks /\ pending.ok \in BOOLEAN
    BY <1>2 DEF Typed, ThreadOK, Results
  <2>2. RequestsOK'
    BY <1>2, <2>1, SendKeeps DEF Poll, Typed, Ops
  <2> DEFINE rn == [runner EXCEPT !.phase = "flush", !.waiting = r]
  <2>3. rn \in RunnerRecord /\ rn.phase = "flush" /\ rn.attempt = runner.attempt
        /\ rn.instance = runner.instance
    BY DEF Typed, ThreadOK, RunnerRecord
  <2>4. runner' = rn /\ faults' = faults
    BY <1>2 DEF Poll
  <2> HIDE DEF rn
  <2>5. WellKept(rn, faults)
    BY <2>3 DEF Poll, Typed, ThreadOK, WellKept
  <2> QED
    BY <1>1, <2>2, <2>4, <2>5, RunnerKeeps DEF Poll, Typed, ThreadOK
<1>3. CASE pending = None
  <2>2. RequestsOK'
    BY <1>3, SendKeeps DEF Poll, Typed, Ops, RowOps
  <2> DEFINE rn == [runner EXCEPT !.phase = "claim", !.waiting = r]
  <2>3. rn \in RunnerRecord /\ rn.phase = "claim" /\ rn.attempt = runner.attempt
        /\ rn.instance = runner.instance
    BY DEF Typed, ThreadOK, RunnerRecord
  <2>4. runner' = rn /\ faults' = faults
    BY <1>3 DEF Poll
  <2> HIDE DEF rn
  <2>5. WellKept(rn, faults)
    BY <2>3 DEF Poll, Typed, ThreadOK, WellKept
  <2> QED
    BY <1>1, <2>2, <2>4, <2>5, RunnerKeeps DEF Poll, Typed, ThreadOK
<1> QED
  BY <1>2, <1>3

LEMMA DeliverTyped ==
    ASSUME Typed, NEW r \in Requests, Deliver(r)
    PROVE  Typed'
<1>0. runner.task \in Tasks /\ runner.ok \in BOOLEAN /\ runner.attempt \in Nat
      /\ runner.attempt < Attempts /\ Attempts \in Nat
  BY ConstantsAssumption DEF Deliver, Typed, ThreadOK, RunnerRecord
<1>1. TableOK'
  BY SameTable DEF Deliver, Typed
<1>2. RequestsOK'
  BY <1>0, SendKeeps DEF Deliver, Typed, Ops
<1> DEFINE rn == [runner EXCEPT !.waiting = r, !.attempt = @ + 1]
<1>3. rn.phase = runner.phase /\ rn.task = runner.task /\ rn.waiting = r
      /\ rn.instance = runner.instance
  BY DEF Typed, ThreadOK, RunnerRecord
<1>4. runner.attempt + 1 \in 0..Attempts
  BY <1>0
<1>5. rn \in RunnerRecord
  BY <1>4 DEF Typed, ThreadOK, RunnerRecord
<1>6. runner' = rn /\ runner.phase = "deliver"
  BY DEF Deliver
<1>7. r # None
  BY ConstantsAssumption
<1> HIDE DEF rn
<1>8. WellKept(rn, faults)
  BY <1>0, <1>3, <1>5, <1>6, <1>7 DEF Typed, ThreadOK, WellKept
<1> QED
  BY <1>1, <1>2, <1>6, <1>8, RunnerKeeps DEF Deliver, Typed, ThreadOK

\* The thread goes from executing to delivering a result.
LEMMA ToDeliver ==
    ASSUME ThreadOK, runner.phase = "execute", NEW ok \in BOOLEAN
    PROVE  WellKept([runner EXCEPT !.phase = "deliver", !.ok = ok], faults)
<1> DEFINE rn == [runner EXCEPT !.phase = "deliver", !.ok = ok]
<1>1. rn \in RunnerRecord /\ rn.task = runner.task /\ rn.phase = "deliver"
      /\ rn.attempt = runner.attempt /\ rn.instance = runner.instance
  BY DEF ThreadOK, RunnerRecord
<1>2. runner.attempt = 0 /\ 0 < Attempts
  BY ConstantsAssumption DEF ThreadOK
<1> HIDE DEF rn
<1>3. WellKept(rn, faults)
  BY <1>1, <1>2 DEF ThreadOK, WellKept
<1> QED
  BY <1>3 DEF rn

LEMMA FinishTyped ==
    ASSUME Typed, Finish
    PROVE  Typed'
<1>1. PICK ok \in BOOLEAN : runner' = [runner EXCEPT !.phase = "deliver", !.ok = ok]
  BY DEF Finish
<1>2. TableOK' /\ RequestsOK'
  BY SameTable DEF Finish, Typed, RequestsOK
<1>3. WellKept(runner', faults)
  BY <1>1, ToDeliver DEF Finish, Typed
<1> QED
  BY <1>2, <1>3, RunnerKeeps DEF Finish, Typed, ThreadOK

LEMMA AskCancelledTyped ==
    ASSUME Typed, AskCancelled
    PROVE  Typed'
<1>1. TableOK'
  BY DEF AskCancelled, Typed, TableOK
<1>2. RequestsOK'
  BY DEF AskCancelled, Typed, RequestsOK
<1>3. CASE UNCHANGED <<runner, made>>
  BY <1>1, <1>2, <1>3 DEF AskCancelled, Typed, ThreadOK
<1>4. CASE /\ runner' = [runner EXCEPT !.phase = "deliver", !.ok = FALSE]
           /\ made' = made \cup {runner.task}
  <2>1. WellKept(runner', faults)
    BY <1>4, ToDeliver DEF AskCancelled, Typed
  <2> QED
    BY <1>1, <1>2, <1>4, <2>1, RunnerKeeps DEF AskCancelled, Typed, ThreadOK
<1> QED
  BY <1>3, <1>4 DEF AskCancelled

LEMMA AnsweredTyped ==
    ASSUME Typed, NEW r \in Requests, Answered(r)
    PROVE  Typed'
<1>1. req[r].answer \in Answers
  BY DEF Typed, RequestsOK, RequestRecord
<1>2. RequestsOK' /\ TableOK'
  BY ReleaseKeeps, SameTable DEF Answered, Typed
<1>3. ThreadOK'
  BY <1>1, HearKeeps DEF Answered, Typed, ThreadOK
<1> QED
  BY <1>2, <1>3 DEF Typed

LEMMA LoseReplyTyped ==
    ASSUME Typed, NEW r \in Requests, LoseReply(r)
    PROVE  Typed'
<1>1. RequestsOK' /\ TableOK'
  BY ReleaseKeeps, SameTable DEF LoseReply, Typed
<1>2. CASE Hear("lost")
  BY <1>1, <1>2, HearKeeps, AnswerTypes DEF LoseReply, Typed, ThreadOK
<1>3. CASE UNCHANGED <<runner, pending, dropped>>
  BY <1>1, <1>3 DEF LoseReply, Typed, ThreadOK
<1> QED
  BY <1>2, <1>3 DEF LoseReply

LEMMA FaultBound ==
    ASSUME ThreadOK, faults < MaxFaults
    PROVE  faults + 1 \in 0..MaxFaults /\ faults \in Nat
  BY ConstantsAssumption DEF ThreadOK

LEMMA GiveUpTyped ==
    ASSUME Typed, GiveUp
    PROVE  Typed'
<1>1. RequestsOK' /\ TableOK'
  BY SameTable DEF GiveUp, Typed, RequestsOK
<1>2. faults' \in 0..MaxFaults /\ faults' = faults + 1
  BY FaultBound DEF GiveUp, Typed
<1>3. ThreadOK'
  BY <1>2, HearKeeps, AnswerTypes DEF GiveUp, Typed
<1> QED
  BY <1>1, <1>3 DEF Typed

LEMMA RestartTyped ==
    ASSUME Typed, Restart
    PROVE  Typed'
<1>1. RequestsOK' /\ TableOK'
  BY SameTable DEF Restart, Typed, RequestsOK
<1>2. faults' \in 0..MaxFaults /\ faults' = faults + 1 /\ faults \in Nat
  BY FaultBound DEF Restart, Typed
<1>3. PICK i \in {runner.instance, runner.instance + 1} : runner' = Asleep(i)
  BY DEF Restart
<1>4. runner.instance \in Nat /\ runner.instance >= 1 /\ runner.instance <= faults + 1
  BY ConstantsAssumption DEF Typed, ThreadOK, RunnerRecord, Instances
<1>5. i \in Instances /\ i <= faults' + 1
  BY <1>2, <1>3, <1>4, ConstantsAssumption DEF Instances
<1>6. WellKept(runner', faults')
  BY <1>2, <1>3, <1>5, AsleepWellKept
<1>7. dropped' \subseteq Tasks
  BY DEF Restart, Typed, ThreadOK
<1> QED
  BY <1>1, <1>2, <1>6, <1>7, RunnerKeeps DEF Restart, Typed, ThreadOK

-----------------------------------------------------------------------------
LEMMA InitTyped == Init => Typed
<1> SUFFICES ASSUME Init PROVE Typed
  OBVIOUS
<1>1. TableOK
  BY DEF Init, TableOK
<1>2. RequestsOK
  BY FreeType DEF Init, RequestsOK
<1>3. 1 \in Instances /\ 1 <= faults + 1 /\ faults \in 0..MaxFaults /\ faults = 0
  BY ConstantsAssumption DEF Init, Instances
<1>4. WellKept(runner, faults)
  BY <1>3, AsleepWellKept DEF Init
<1>5. ThreadOK
  BY <1>3, <1>4 DEF Init, ThreadOK, WellKept
<1> QED
  BY <1>1, <1>2, <1>5 DEF Typed

LEMMA NextTyped == Typed /\ [Next]_vars => Typed'
<1> SUFFICES ASSUME Typed, [Next]_vars PROVE Typed'
  OBVIOUS
<1>1. CASE UNCHANGED vars
  BY <1>1 DEF vars, worker, Typed, TableOK, RequestsOK, ThreadOK
<1>2. ASSUME NEW r \in Requests,
             \/ Admin(r) \/ Serve(r) \/ Abort(r) \/ Poll(r) \/ Deliver(r)
             \/ Answered(r) \/ LoseReply(r)
      PROVE  Typed'
  BY <1>2, CreateCheckTyped, CancelReadTyped, ListTyped, ServeTyped, AbortTyped,
     PollTyped, DeliverTyped, AnsweredTyped, LoseReplyTyped DEF Admin
<1>3. ASSUME NEW t \in Tasks, Cleanup(t) \/ DeadlinePasses(t) \/ HeartbeatAges(t)
      PROVE  Typed'
  BY <1>3, CleanupTyped, TimeTyped
<1>4. CASE Finish \/ AskCancelled \/ GiveUp \/ Restart
  BY <1>4, FinishTyped, AskCancelledTyped, GiveUpTyped, RestartTyped
<1> QED
  BY <1>1, <1>2, <1>3, <1>4 DEF Next

\* Every request, row and record of the thread has its type: in particular no
\* request writes a row of no task, no row runs for an instance that never
\* started (agent-tasks.js:206-212), and the thread never counts a delivery
\* beyond Attempts (tasks.rs:316-326).
THEOREM TypeCorrect == Spec => []TypeOK
<1>1. Typed => TypeOK
  BY DEF Typed, TableOK, RequestsOK, ThreadOK, TypeOK
<1> QED
  BY <1>1, InitTyped, NextTyped, PTL DEF Spec


-----------------------------------------------------------------------------
(* The life of a row.  OneActive, GivenOnce and CancelWins are not inductive *)
(* either: they also need that a row about to be inserted is absent and that *)
(* only one request inserts it, that only a queued row was never handed out, *)
(* that an applied result belongs to a row that succeeded, and that lapsed   *)
(* and quiet rows are active.                                                *)

FreshRows ==
    /\ \A r \in Requests : req[r].op = "insert" => status[req[r].task] = "absent"
    /\ \A r, q \in Requests :
          /\ req[r].op = "insert" /\ req[q].op = "insert"
          /\ req[r].task = req[q].task
          => r = q

WaitingRowsNotGiven ==
    \A t \in Tasks : /\ given[t] <= 1
                     /\ status[t] \in {"absent", "queued"} => given[t] = 0

CancelledRows ==
    \A t \in cancelled : status[t] \in Active \cup {"cancelled"}

AppliedRows ==
    /\ \A r \in Requests :
          req[r].op = "apply" => status[req[r].task] \in {"succeeded", "deleted"}
    /\ target # None => status[target] \in {"succeeded", "deleted"}

AgedRows ==
    /\ \A t \in lapsed : status[t] \in Active
    /\ \A t \in quiet : status[t] = "running"

\* What one step may do to the rows that are there.
Lives(t) ==
    \/ status'[t] = status[t]
    \/ status[t] = "absent" /\ status'[t] = "queued"
    \/ status[t] = "queued" /\ status'[t] = "running"
    \/ status[t] \in Active /\ status'[t] \in Finished
    \/ status[t] \in Finished /\ status'[t] = "deleted"

Lifecycle == OneActive /\ FreshRows /\ WaitingRowsNotGiven /\ CancelledRows
             /\ AppliedRows /\ AgedRows

\* All steps but an insert and a claim only end rows, or delete them.
Ends(t) ==
    \/ status'[t] = status[t]
    \/ status[t] \in Active /\ status'[t] \in Finished
    \/ status[t] \in Finished /\ status'[t] = "deleted"

\* No request comes to an insert or to an update of the target.
Beyond == \A q \in Requests :
              req'[q].op \in {"insert", "apply"} => req'[q] = req[q]

LEMMA BeyondIfElsewhere ==
    ASSUME RequestsOK, NEW r \in Requests, NEW q, req' = [req EXCEPT ![r] = q],
           q.op \notin {"insert", "apply"}
    PROVE  Beyond
  BY DEF RequestsOK, Beyond

LEMMA ReplyBeyond ==
    ASSUME RequestsOK, NEW r \in Requests, NEW a, Reply(r, a)
    PROVE  Beyond
<1> DEFINE q == [Free EXCEPT !.op = "reply", !.answer = a]
<1>1. q.op = "reply"
  BY DEF Free
<1>2. req' = [req EXCEPT ![r] = q]
  BY DEF Reply
<1> HIDE DEF q
<1> QED
  BY <1>1, <1>2, BeyondIfElsewhere

LEMMA StepBeyond ==
    ASSUME RequestsOK, NEW r \in Requests, NEW op, op \notin {"insert", "apply"},
           Step(r, op)
    PROVE  Beyond
<1> DEFINE q == [req[r] EXCEPT !.op = op]
<1>1. q.op = op /\ req' = [req EXCEPT ![r] = q]
  BY DEF Step, RequestsOK, RequestRecord
<1> HIDE DEF q
<1> QED
  BY <1>1, BeyondIfElsewhere

LEMMA StartBeyond ==
    ASSUME RequestsOK, NEW r \in Requests, NEW t,
           NEW op, op \notin {"insert", "apply"}, Start(r, op, t)
    PROVE  Beyond
<1> DEFINE q == [req[r] EXCEPT !.op = op, !.task = t]
<1>1. q.op = op /\ req' = [req EXCEPT ![r] = q]
  BY DEF Start, RequestsOK, RequestRecord
<1> HIDE DEF q
<1> QED
  BY <1>1, BeyondIfElsewhere

LEMMA SendBeyond ==
    ASSUME RequestsOK, NEW r \in Requests, NEW t, NEW ok,
           NEW op, op \notin {"insert", "apply"}, Send(r, op, t, ok)
    PROVE  Beyond
<1> DEFINE q == [Free EXCEPT !.op = op, !.task = t, !.ok = ok,
                             !.instance = runner.instance]
<1>1. q.op = op /\ req' = [req EXCEPT ![r] = q]
  BY DEF Send, Free
<1> HIDE DEF q
<1> QED
  BY <1>1, BeyondIfElsewhere

LEMMA FreeBeyond ==
    ASSUME RequestsOK, NEW r \in Requests, req' = [req EXCEPT ![r] = Free]
    PROVE  Beyond
  BY BeyondIfElsewhere DEF Free

\* Ending and deleting rows keeps Lifecycle, if the stops and the ages do.
LEMMA EndsKeep ==
    ASSUME Typed, Lifecycle, Beyond, \A t \in Tasks : Ends(t),
           UNCHANGED <<target, given>>, CancelledRows', AgedRows'
    PROVE  Lifecycle' /\ \A t \in Tasks : Lives(t)
<1>1. ASSUME NEW r \in Requests, req[r].op \in {"insert", "apply"}
      PROVE  req[r].task \in Tasks
  BY <1>1 DEF Typed, RequestsOK, NamesRow, RowOps
<1>2. \A t \in Tasks : /\ status[t] = "absent" <=> status'[t] = "absent"
                       /\ status'[t] \in Active => status[t] = status'[t]
                       /\ status[t] \in {"succeeded", "deleted"}
                          => status'[t] \in {"succeeded", "deleted"}
  BY DEF Ends, Active, Finished
<1>3. OneActive'
  BY <1>2 DEF Lifecycle, OneActive
<1>4. FreshRows'
  BY <1>1, <1>2 DEF Lifecycle, FreshRows, Beyond
<1>5. WaitingRowsNotGiven'
  BY <1>2 DEF Lifecycle, WaitingRowsNotGiven, Active
<1>6. AppliedRows'
  BY <1>1, <1>2 DEF Lifecycle, AppliedRows, Beyond, Typed, TableOK
<1>7. \A t \in Tasks : Lives(t)
  BY DEF Ends, Lives
<1> QED
  BY <1>3, <1>4, <1>5, <1>6, <1>7 DEF Lifecycle

\* A step that leaves the table alone.
LEMMA SameRows ==
    ASSUME Typed, Lifecycle, Beyond, UNCHANGED worker
    PROVE  Lifecycle' /\ \A t \in Tasks : Lives(t)
<1>1. \A t \in Tasks : Ends(t)
  BY DEF worker, Ends
<1>2. CancelledRows' /\ AgedRows'
  BY DEF Lifecycle, CancelledRows, AgedRows, worker
<1> QED
  BY <1>1, <1>2, EndsKeep DEF worker

\* The statements of expireStaleTasks and recoverOrphanedRunningTasks end rows
\* that are active, each with its own outcome.
LEMMA EndOfActiveRows ==
    ASSUME Typed, Lifecycle, NEW ts, \A t \in ts : status[t] \in Active,
           NEW s \in Finished, End(ts, s), Ages,
           UNCHANGED <<cancelled, target, given>>, Beyond
    PROVE  Lifecycle' /\ \A t \in Tasks : Lives(t)
<1>1. \A t \in Tasks : status'[t] = IF t \in ts THEN Ended(t, s) ELSE status[t]
  BY DEF End
<1>2. \A t \in Tasks : Ends(t)
  BY <1>1 DEF Ends, Ended, Finished
<1>3. CancelledRows'
  BY <1>1 DEF Lifecycle, CancelledRows, Ended, Typed, TableOK
<1>4. AgedRows'
  BY DEF Ages, AgedRows
<1> QED
  BY <1>2, <1>3, <1>4, EndsKeep


\* Before the insert nobody else is about to insert the same row: CreateCheck
\* takes an id no request names.
LEMMA CreateCheckLives ==
    ASSUME Typed, Lifecycle, NEW r \in Requests, NEW t \in Tasks, CreateCheck(r, t)
    PROVE  Lifecycle' /\ \A u \in Tasks : Lives(u)
<1> DEFINE q == [req[r] EXCEPT !.op = "insert", !.task = t]
<1>1. q.op = "insert" /\ q.task = t /\ req' = [req EXCEPT ![r] = q]
  BY DEF CreateCheck, Start, Typed, RequestsOK, RequestRecord
<1> HIDE DEF q
<1>2. \A p \in Requests : req'[p] = IF p = r THEN q ELSE req[p]
  BY <1>1 DEF Typed, RequestsOK
<1>3. UNCHANGED worker /\ status[t] = "absent" /\ \A p \in Requests : req[p].task # t
  BY DEF CreateCheck
<1>4. FreshRows'
  BY <1>1, <1>2, <1>3 DEF FreshRows, Lifecycle, worker
<1>5. AppliedRows'
  BY <1>1, <1>2, <1>3 DEF AppliedRows, Lifecycle, worker
<1>6. OneActive' /\ WaitingRowsNotGiven' /\ CancelledRows' /\ AgedRows'
  BY <1>3 DEF OneActive, WaitingRowsNotGiven, CancelledRows, AgedRows, Lifecycle, worker
<1>7. \A u \in Tasks : Lives(u)
  BY <1>3 DEF Lives, worker
<1> QED
  BY <1>4, <1>5, <1>6, <1>7 DEF Lifecycle

\* The index admits the new row only while no row is active.
LEMMA CreateInsertLives ==
    ASSUME Typed, Lifecycle, NEW r \in Requests, CreateInsert(r)
    PROVE  Lifecycle' /\ \A u \in Tasks : Lives(u)
<1> DEFINE t == req[r].task
<1>1. t \in Tasks /\ status[t] = "absent" /\ req[r].op = "insert"
  BY DEF CreateInsert, At, Lifecycle, FreshRows, Typed, RequestsOK, NamesRow, RowOps
<1>2. Beyond
  BY ReplyBeyond DEF CreateInsert, Typed
<1>3. CASE status' = status
  BY <1>2, <1>3, SameRows DEF CreateInsert, worker
<1>4. CASE IndexAllows(t) /\ status' = [status EXCEPT ![t] = "queued"]
  <2>1. \A u \in Tasks : status'[u] = IF u = t THEN "queued" ELSE status[u]
    BY <1>4 DEF Typed, TableOK
  <2>2. UNCHANGED <<cancelled, lapsed, quiet, target, given>>
    BY DEF CreateInsert
  <2>3. OneActive'
    BY <1>4, <2>1 DEF IndexAllows, OneActive
  <2>4. req'[r].op = "reply"
    BY DEF CreateInsert, Reply, Free, Typed, RequestsOK
  <2>5. ASSUME NEW q \in Requests, req'[q].op \in {"insert", "apply"}
        PROVE  q # r /\ req'[q] = req[q] /\ req[q].task \in Tasks
    BY <1>2, <2>4, <2>5 DEF Beyond, Typed, RequestsOK, NamesRow, RowOps
  <2>6. FreshRows'
    BY <1>1, <2>1, <2>5 DEF Lifecycle, FreshRows
  <2>7. AppliedRows'
    BY <1>1, <2>1, <2>2, <2>5 DEF Lifecycle, AppliedRows, Typed, TableOK
  <2>8. WaitingRowsNotGiven' /\ CancelledRows' /\ AgedRows'
    BY <1>1, <2>1, <2>2
       DEF Lifecycle, WaitingRowsNotGiven, CancelledRows, AgedRows, Active, Typed, TableOK
  <2>9. \A u \in Tasks : Lives(u)
    BY <1>1, <2>1 DEF Lives
  <2> QED
    BY <2>3, <2>6, <2>7, <2>8, <2>9 DEF Lifecycle
<1> QED
  BY <1>3, <1>4 DEF CreateInsert

LEMMA CancelReadLives ==
    ASSUME Typed, Lifecycle, NEW r \in Requests, NEW t \in Tasks, CancelRead(r, t)
    PROVE  Lifecycle' /\ \A u \in Tasks : Lives(u)
  BY StartBeyond, SameRows DEF CancelRead, Typed

LEMMA CancelQueuedLives ==
    ASSUME Typed, Lifecycle, NEW r \in Requests, CancelQueued(r)
    PROVE  Lifecycle' /\ \A u \in Tasks : Lives(u)
<1> DEFINE t == req[r].task
<1>1. t \in Tasks
  BY DEF CancelQueued, At, Typed, RequestsOK, NamesRow, RowOps
<1>2. Beyond
  BY ReplyBeyond DEF CancelQueued, Typed
<1>3. AgedRows'
  BY DEF CancelQueued, Ages, AgedRows
<1>4. CASE status[t] = "queued"
  <2>1. /\ \A u \in Tasks : status'[u] = IF u = t THEN "cancelled" ELSE status[u]
        /\ cancelled' = cancelled \cup {t}
    BY <1>4 DEF CancelQueued, Typed, TableOK
  <2>2. \A u \in Tasks : Ends(u)
    BY <1>4, <2>1 DEF Ends, Active, Finished
  <2>3. CancelledRows'
    BY <1>1, <2>1 DEF Lifecycle, CancelledRows, Typed, TableOK
  <2> QED
    BY <1>2, <1>3, <2>2, <2>3, EndsKeep DEF CancelQueued
<1>5. CASE status[t] # "queued"
  <2>1. (\A u \in Tasks : Ends(u)) /\ CancelledRows'
    BY <1>5 DEF CancelQueued, Ends, Lifecycle, CancelledRows
  <2> QED
    BY <1>2, <1>3, <2>1, EndsKeep DEF CancelQueued
<1> QED
  BY <1>4, <1>5

\* A stop is recorded only for a row that still runs.
LEMMA CancelRunningLives ==
    ASSUME Typed, Lifecycle, NEW r \in Requests, CancelRunning(r)
    PROVE  Lifecycle' /\ \A u \in Tasks : Lives(u)
<1>1. Beyond
  BY ReplyBeyond DEF CancelRunning, Typed
<1>2. (\A u \in Tasks : Ends(u)) /\ AgedRows'
  BY DEF CancelRunning, Ends, AgedRows, Lifecycle
<1>3. CancelledRows'
  BY DEF CancelRunning, Lifecycle, CancelledRows, Active
<1> QED
  BY <1>1, <1>2, <1>3, EndsKeep DEF CancelRunning

LEMMA ListLives ==
    ASSUME Typed, Lifecycle, NEW r \in Requests, List(r)
    PROVE  Lifecycle' /\ \A u \in Tasks : Lives(u)
  BY StartBeyond, SameRows DEF List, Typed

LEMMA ExpireLives ==
    ASSUME Typed, Lifecycle, NEW r \in Requests, Expire(r)
    PROVE  Lifecycle' /\ \A u \in Tasks : Lives(u)
<1>1. Beyond
  BY StepBeyond DEF Expire, Typed
<1>2. \A t \in Overdue : status[t] \in Active
  BY DEF Overdue, Lifecycle, AgedRows
<1> QED
  BY <1>1, <1>2, EndOfActiveRows DEF Expire, Finished

LEMMA FailStaleLives ==
    ASSUME Typed, Lifecycle, NEW r \in Requests, FailStale(r)
    PROVE  Lifecycle' /\ \A u \in Tasks : Lives(u)
<1>1. Beyond
  BY StepBeyond, ReplyBeyond DEF FailStale, Typed
<1>2. \A t \in quiet : status[t] \in Active
  BY DEF Active, Lifecycle, AgedRows
<1> QED
  BY <1>1, <1>2, EndOfActiveRows DEF FailStale, Finished

LEMMA RecoverLives ==
    ASSUME Typed, Lifecycle, NEW r \in Requests, Recover(r)
    PROVE  Lifecycle' /\ \A u \in Tasks : Lives(u)
<1>1. Beyond
  BY StepBeyond DEF Recover, Typed
<1>2. \A t \in Orphans(req[r].instance) : status[t] \in Active
  BY DEF Orphans, Active
<1> QED
  BY <1>1, <1>2, EndOfActiveRows DEF Recover, Finished

LEMMA ClaimSelectLives ==
    ASSUME Typed, Lifecycle, NEW r \in Requests, ClaimSelect(r)
    PROVE  Lifecycle' /\ \A u \in Tasks : Lives(u)
<1>1. CASE Reply(r, None)
  BY <1>1, ReplyBeyond, SameRows DEF ClaimSelect, Typed
<1>2. CASE \E t \in Tasks : req' = [req EXCEPT ![r].op = "claim", ![r].task = t]
  <2>1. PICK t \in Tasks : req' = [req EXCEPT ![r].op = "claim", ![r].task = t]
    BY <1>2
  <2> DEFINE q == [req[r] EXCEPT !.op = "claim", !.task = t]
  <2>2. q.op = "claim" /\ req' = [req EXCEPT ![r] = q]
    BY <2>1 DEF Typed, RequestsOK, RequestRecord
  <2> HIDE DEF q
  <2>3. Beyond
    BY <2>2, BeyondIfElsewhere DEF Typed
  <2> QED
    BY <2>3, SameRows DEF ClaimSelect
<1> QED
  BY <1>1, <1>2 DEF ClaimSelect

\* Only a row that is still queued is handed out, and such a row never was.
LEMMA ClaimLives ==
    ASSUME Typed, Lifecycle, NEW r \in Requests, Claim(r)
    PROVE  Lifecycle' /\ \A u \in Tasks : Lives(u)
<1> DEFINE t == req[r].task
<1>1. t \in Tasks
  BY DEF Claim, At, Typed, RequestsOK, NamesRow, RowOps
<1>2. Beyond
  BY ReplyBeyond DEF Claim, Typed
<1>3. CASE status[t] # "queued"
  BY <1>2, <1>3, SameRows DEF Claim, ClaimCondition, worker
<1>4. CASE status[t] = "queued"
  <2>1. /\ \A u \in Tasks : status'[u] = IF u = t THEN "running" ELSE status[u]
        /\ quiet' = quiet \ {t}
        /\ \A u \in Tasks : given'[u] = IF u = t THEN given[t] + 1 ELSE given[u]
        /\ UNCHANGED <<cancelled, lapsed, target>>
    BY <1>4 DEF Claim, ClaimCondition, Typed, TableOK
  <2>2. ASSUME NEW q \in Requests, req'[q].op \in {"insert", "apply"}
        PROVE  req'[q] = req[q] /\ req[q].task \in Tasks
    BY <1>2, <2>2 DEF Beyond, Typed, RequestsOK, NamesRow, RowOps
  <2>3. OneActive'
    BY <1>1, <1>4, <2>1 DEF OneActive, Lifecycle, Active
  <2>4. FreshRows'
    BY <1>4, <2>1, <2>2 DEF FreshRows, Lifecycle
  <2>5. WaitingRowsNotGiven'
    BY <1>1, <1>4, <2>1 DEF WaitingRowsNotGiven, Lifecycle, Typed, TableOK
  <2>6. CancelledRows' /\ AgedRows'
    BY <2>1 DEF CancelledRows, AgedRows, Lifecycle, Active, Typed, TableOK
  <2>7. AppliedRows'
    BY <1>4, <2>1, <2>2 DEF AppliedRows, Lifecycle, Typed, TableOK
  <2>8. \A u \in Tasks : Lives(u)
    BY <1>4, <2>1 DEF Lives
  <2> QED
    BY <2>3, <2>4, <2>5, <2>6, <2>7, <2>8 DEF Lifecycle
<1> QED
  BY <1>3, <1>4

LEMMA CompleteReadLives ==
    ASSUME Typed, Lifecycle, NEW r \in Requests, CompleteRead(r)
    PROVE  Lifecycle' /\ \A u \in Tasks : Lives(u)
<1>1. CASE Reply(r, "rejected")
  BY <1>1, ReplyBeyond, SameRows DEF CompleteRead, Typed
<1>2. CASE req' = [req EXCEPT ![r].op = "store",
                              ![r].sawCancel = req[r].task \in cancelled]
  <2> DEFINE q == [req[r] EXCEPT !.op = "store",
                                 !.sawCancel = req[r].task \in cancelled]
  <2>1. q.op = "store" /\ req' = [req EXCEPT ![r] = q]
    BY <1>2 DEF Typed, RequestsOK, RequestRecord
  <2> HIDE DEF q
  <2>2. Beyond
    BY <2>1, BeyondIfElsewhere DEF Typed
  <2> QED
    BY <2>2, SameRows DEF CompleteRead
<1> QED
  BY <1>1, <1>2 DEF CompleteRead


\* The report's outcome is the one of a row that still runs and that nobody
\* stopped since it was read.
LEMMA CompleteStoreLives ==
    ASSUME Typed, Lifecycle, NEW r \in Requests, CompleteStore(r)
    PROVE  Lifecycle' /\ \A u \in Tasks : Lives(u)
<1> DEFINE t == req[r].task
           saw == req[r].sawCancel
           final == FinalStatus(req[r].ok, saw)
<1>1. t \in Tasks /\ req[r].op = "store"
  BY DEF CompleteStore, At, Typed, RequestsOK, NamesRow, RowOps
<1>2. CASE ~StoreCondition(t, saw)
  <2>1. Beyond /\ status' = status
    BY <1>2, ReplyBeyond DEF CompleteStore, Typed
  <2>2. (\A u \in Tasks : Ends(u)) /\ CancelledRows' /\ AgedRows'
    BY <2>1 DEF CompleteStore, Ends, Lifecycle, CancelledRows, Ages, AgedRows
  <2> QED
    BY <2>1, <2>2, EndsKeep DEF CompleteStore
<1>3. CASE StoreCondition(t, saw)
  <2>1. /\ \A u \in Tasks : status'[u] = IF u = t THEN final ELSE status[u]
        /\ UNCHANGED <<cancelled, target, given>>
        /\ IF final = "succeeded" THEN Step(r, "apply") ELSE Reply(r, "ok")
    BY <1>3 DEF CompleteStore, Typed, TableOK
  <2>2. status[t] = "running" /\ (t \in cancelled => saw) /\ final \in Finished
        /\ (saw => final = "cancelled")
    BY <1>3 DEF StoreCondition, FinalStatus, Finished
  <2>3. CancelledRows'
    BY <2>1, <2>2 DEF Lifecycle, CancelledRows, Typed, TableOK
  <2>4. AgedRows'
    BY DEF CompleteStore, Ages, AgedRows
  <2>5. \A u \in Tasks : Ends(u)
    BY <2>1, <2>2 DEF Ends, Active
  <2>6. CASE final # "succeeded"
    <3>1. Beyond
      BY <2>1, <2>6, ReplyBeyond DEF Typed
    <3> QED
      BY <2>1, <2>3, <2>4, <2>5, <3>1, EndsKeep
  <2>7. CASE final = "succeeded"
    <3> DEFINE q == [req[r] EXCEPT !.op = "apply"]
    <3>1. q.op = "apply" /\ q.task = t /\ req' = [req EXCEPT ![r] = q]
      BY <2>1, <2>7 DEF Step, Typed, RequestsOK, RequestRecord
    <3> HIDE DEF q
    <3>2. \A p \in Requests : req'[p] = IF p = r THEN q ELSE req[p]
      BY <3>1 DEF Typed, RequestsOK
    <3>3. ASSUME NEW p \in Requests, req[p].op \in {"insert", "apply"}
          PROVE  req[p].task \in Tasks
      BY <3>3 DEF Typed, RequestsOK, NamesRow, RowOps
    <3>4. OneActive'
      BY <2>1, <2>7 DEF OneActive, Lifecycle, Active
    <3>5. FreshRows'
      BY <2>1, <2>2, <3>1, <3>2, <3>3 DEF FreshRows, Lifecycle
    <3>6. WaitingRowsNotGiven'
      BY <2>1, <2>7 DEF WaitingRowsNotGiven, Lifecycle
    <3>7. \A u \in Tasks : status[u] \in {"succeeded", "deleted"} =>
                           status'[u] \in {"succeeded", "deleted"}
      BY <2>1, <2>7
    <3>8. AppliedRows'
      BY <1>1, <2>1, <2>7, <3>1, <3>2, <3>3, <3>7
         DEF AppliedRows, Lifecycle, Typed, TableOK
    <3>9. \A u \in Tasks : Lives(u)
      BY <2>5 DEF Ends, Lives
    <3> QED
      BY <2>3, <2>4, <3>4, <3>5, <3>6, <3>8, <3>9 DEF Lifecycle
  <2> QED
    BY <2>6, <2>7
<1> QED
  BY <1>2, <1>3

LEMMA CompleteApplyLives ==
    ASSUME Typed, Lifecycle, NEW r \in Requests, CompleteApply(r)
    PROVE  Lifecycle' /\ \A u \in Tasks : Lives(u)
<1>1. Beyond
  BY ReplyBeyond DEF CompleteApply, Typed
<1>2. /\ UNCHANGED <<status, cancelled, owner, lapsed, quiet, given>>
      /\ target' = req[r].task
  BY DEF CompleteApply
<1>3. status[req[r].task] \in {"succeeded", "deleted"}
  BY DEF CompleteApply, At, Lifecycle, AppliedRows
<1>4. AppliedRows'
  BY <1>1, <1>2, <1>3 DEF AppliedRows, Lifecycle, Beyond
<1>5. FreshRows'
  BY <1>1, <1>2 DEF FreshRows, Lifecycle, Beyond
<1>6. OneActive' /\ WaitingRowsNotGiven' /\ CancelledRows' /\ AgedRows'
  BY <1>2 DEF OneActive, WaitingRowsNotGiven, CancelledRows, AgedRows, Lifecycle
<1>7. \A u \in Tasks : Lives(u)
  BY <1>2 DEF Lives
<1> QED
  BY <1>4, <1>5, <1>6, <1>7 DEF Lifecycle

LEMMA ServeLives ==
    ASSUME Typed, Lifecycle, NEW r \in Requests, Serve(r)
    PROVE  Lifecycle' /\ \A u \in Tasks : Lives(u)
  BY CreateInsertLives, CancelQueuedLives, CancelRunningLives, ExpireLives,
     FailStaleLives, RecoverLives, ClaimSelectLives, ClaimLives,
     CompleteReadLives, CompleteStoreLives, CompleteApplyLives DEF Serve

LEMMA AbortLives ==
    ASSUME Typed, Lifecycle, NEW r \in Requests, Abort(r)
    PROVE  Lifecycle' /\ \A u \in Tasks : Lives(u)
  BY ReplyBeyond, SameRows DEF Abort, Typed

LEMMA CleanupLives ==
    ASSUME Typed, Lifecycle, NEW t \in Tasks, Cleanup(t)
    PROVE  Lifecycle' /\ \A u \in Tasks : Lives(u)
<1>1. /\ \A u \in Tasks : status'[u] = IF u = t THEN "deleted" ELSE status[u]
      /\ cancelled' = cancelled \ {t} /\ status[t] \in Finished
      /\ UNCHANGED <<lapsed, quiet, target, given, req>>
  BY DEF Cleanup, Typed, TableOK
<1>2. Beyond
  BY <1>1 DEF Beyond
<1>3. \A u \in Tasks : Ends(u)
  BY <1>1 DEF Ends
<1>4. CancelledRows'
  BY <1>1 DEF CancelledRows, Lifecycle, Typed, TableOK
<1>5. AgedRows'
  BY <1>1 DEF AgedRows, Lifecycle, Typed, TableOK, Active, Finished
<1> QED
  BY <1>1, <1>2, <1>3, <1>4, <1>5, EndsKeep

\* Steps that only age rows, or ask for a task and so refresh its heartbeat.
LEMMA AgesOnly ==
    ASSUME Typed, Lifecycle, UNCHANGED <<status, cancelled, target, given, req>>,
           AgedRows'
    PROVE  Lifecycle' /\ \A u \in Tasks : Lives(u)
<1>1. Beyond /\ (\A u \in Tasks : Ends(u)) /\ CancelledRows'
  BY DEF Beyond, Ends, CancelledRows, Lifecycle
<1> QED
  BY <1>1, EndsKeep

LEMMA TimeLives ==
    ASSUME Typed, Lifecycle, NEW t \in Tasks, DeadlinePasses(t) \/ HeartbeatAges(t)
    PROVE  Lifecycle' /\ \A u \in Tasks : Lives(u)
<1>1. AgedRows'
  BY DEF DeadlinePasses, HeartbeatAges, AgedRows, Lifecycle
<1> QED
  BY <1>1, AgesOnly DEF DeadlinePasses, HeartbeatAges

LEMMA AskCancelledLives ==
    ASSUME Typed, Lifecycle, AskCancelled
    PROVE  Lifecycle' /\ \A u \in Tasks : Lives(u)
<1>1. AgedRows'
  BY DEF AskCancelled, AgedRows, Lifecycle
<1> QED
  BY <1>1, AgesOnly DEF AskCancelled

LEMMA ThreadLives ==
    ASSUME Typed, Lifecycle,
           \/ \E r \in Requests : Poll(r) \/ Deliver(r) \/ Answered(r) \/ LoseReply(r)
           \/ Finish \/ GiveUp \/ Restart
    PROVE  Lifecycle' /\ \A u \in Tasks : Lives(u)
<1>1. UNCHANGED worker
  BY DEF Poll, Deliver, Answered, LoseReply, Finish, GiveUp, Restart
<1>2. ASSUME NEW r \in Requests, Poll(r) PROVE Beyond
  <2>1. RequestsOK
    BY DEF Typed
  <2>2. \/ Send(r, "complete", pending.task, pending.ok)
        \/ Send(r, "claimExpire", None, FALSE)
    BY <1>2 DEF Poll
  <2>3. CASE Send(r, "complete", pending.task, pending.ok)
    <3>1. "complete" \notin {"insert", "apply"}
      OBVIOUS
    <3> QED
      BY <2>1, <2>3, <3>1, SendBeyond
  <2>4. CASE Send(r, "claimExpire", None, FALSE)
    <3>1. "claimExpire" \notin {"insert", "apply"}
      OBVIOUS
    <3> QED
      BY <2>1, <2>4, <3>1, SendBeyond
  <2> QED
    BY <2>2, <2>3, <2>4
<1>3. ASSUME NEW r \in Requests, Deliver(r) PROVE Beyond
  <2>1. Send(r, "complete", runner.task, runner.ok) /\ RequestsOK
    BY <1>3 DEF Deliver, Typed
  <2> QED
    BY <2>1, SendBeyond
<1>4. ASSUME NEW r \in Requests, Answered(r) \/ LoseReply(r) PROVE Beyond
  BY <1>4, FreeBeyond DEF Answered, LoseReply, Typed
<1>5. ASSUME Finish \/ GiveUp \/ Restart PROVE Beyond
  BY <1>5 DEF Finish, GiveUp, Restart, Beyond
<1>6. Beyond
  BY <1>2, <1>3, <1>4, <1>5
<1> QED
  BY <1>1, <1>6, SameRows

-----------------------------------------------------------------------------
LEMMA InitLifecycle == Init => Lifecycle
  BY DEF Init, Lifecycle, OneActive, FreshRows, WaitingRowsNotGiven, CancelledRows,
         AppliedRows, AgedRows, Free, Active

LEMMA NextLives ==
    ASSUME Typed, Lifecycle, [Next]_vars
    PROVE  Lifecycle' /\ \A u \in Tasks : Lives(u)
<1>1. CASE UNCHANGED vars
  <2>1. Beyond /\ UNCHANGED worker
    BY <1>1 DEF vars, Beyond
  <2> QED
    BY <2>1, SameRows
<1>2. ASSUME NEW r \in Requests,
             \/ Admin(r) \/ Serve(r) \/ Abort(r) \/ Poll(r) \/ Deliver(r)
             \/ Answered(r) \/ LoseReply(r)
      PROVE  Lifecycle' /\ \A u \in Tasks : Lives(u)
  BY <1>2, CreateCheckLives, CancelReadLives, ListLives, ServeLives, AbortLives,
     ThreadLives DEF Admin
<1>3. ASSUME NEW t \in Tasks, Cleanup(t) \/ DeadlinePasses(t) \/ HeartbeatAges(t)
      PROVE  Lifecycle' /\ \A u \in Tasks : Lives(u)
  BY <1>3, CleanupLives, TimeLives
<1>4. CASE Finish \/ AskCancelled \/ GiveUp \/ Restart
  BY <1>4, ThreadLives, AskCancelledLives
<1> QED
  BY <1>1, <1>2, <1>3, <1>4 DEF Next

LEMMA AlwaysLifecycle == Spec => [](Typed /\ Lifecycle)
  BY InitTyped, NextTyped, InitLifecycle, NextLives, PTL DEF Spec

\* However requests to create tasks, claims and late answers of abandoned
\* requests interleave, the VPS has at most one active task, because the
\* insert is what decides and not the look before it (agent-tasks.js:152-161).
THEOREM NeverTwoActive == Spec => []OneActive
  BY AlwaysLifecycle, PTL DEF Lifecycle

\* No task is handed to a manager a second time, whatever number of its claims
\* are still being served (agent-tasks.js:197-210).
THEOREM NeverGivenAgain == Spec => []GivenOnce
<1>1. Typed /\ Lifecycle => GivenOnce
  BY DEF Lifecycle, WaitingRowsNotGiven, GivenOnce
<1> QED
  BY <1>1, AlwaysLifecycle, PTL

\* A recorded stop decides the outcome, and the result of a stopped task is
\* never shown on the target (agent-tasks.js:316-322).
THEOREM StopDecides == Spec => []CancelWins
<1>1. Typed /\ Lifecycle => CancelWins
  <2> SUFFICES ASSUME Typed, Lifecycle, NEW t \in cancelled
               PROVE  status[t] \in Active \cup {"cancelled"} /\ target # t
    BY DEF CancelWins
  <2>1. t # None
    BY ConstantsAssumption DEF Typed, TableOK
  <2>2. status[t] \in Active \cup {"cancelled"}
    BY DEF Lifecycle, CancelledRows
  <2>3. status[t] \notin {"succeeded", "deleted"}
    BY <2>2 DEF Active
  <2> QED
    BY <2>1, <2>2, <2>3 DEF Lifecycle, AppliedRows
<1> QED
  BY <1>1, AlwaysLifecycle, PTL

\* The outcome of a task is final until its row is cleaned up: no report, no
\* expiry and no recovery that was under way changes it (agent-tasks.js:315-322).
THEOREM OutcomeIsFinal == Spec => OutcomeStays
<1>1. Typed /\ Lifecycle /\ [Next]_vars =>
          [\A t \in Tasks : status[t] \in Finished =>
               status'[t] \in {status[t], "deleted"}]_vars
  <2> SUFFICES ASSUME Typed, Lifecycle, [Next]_vars, NEW t \in Tasks,
                      status[t] \in Finished
               PROVE  status'[t] \in {status[t], "deleted"}
    OBVIOUS
  <2>1. Lives(t)
    BY NextLives
  <2> QED
    BY <2>1 DEF Lives, Active, Finished
<1> QED
  BY <1>1, AlwaysLifecycle, PTL DEF Spec, OutcomeStays

-----------------------------------------------------------------------------
(* Results are kept.  ResultKept is not inductive: an answer "ok" discards   *)
(* the manager's copy, so it must mean that the row does not wait any more,  *)
(* and a result is stored over what was stored before.                       *)

Began(t) == status[t] \notin {"absent", "queued"}
Settled(t) == Began(t) /\ (status[t] = "running" => t \in cancelled)

\* Whatever the manager is about was handed out.
HandedOut ==
    /\ \A t \in made : given[t] > 0
    /\ runner.phase = "execute" => given[runner.task] > 0
    /\ \A r \in Requests :
          req[r].op = "reply" /\ req[r].answer \in Tasks => given[req[r].answer] > 0

\* A report is stored in a row that was handed out, and the stop it saw stays.
Reports ==
    \A r \in Requests : req[r].op = "store" =>
        /\ Began(req[r].task)
        /\ req[r].sawCancel => req[r].task \in cancelled \/ status[req[r].task] = "deleted"

\* The thread asks for a task only when no result is stored, and waits for
\* no answer while it executes one.
OneResult ==
    /\ runner.phase = "execute" => runner.waiting = None
    /\ runner.phase \in {"claim", "execute", "deliver"} => pending = None
    /\ runner.phase = "flush" => pending # None

\* The request the thread waits for is about the result it delivers, and an
\* answer "ok" says that the task does not wait for it any more.
Carried == IF runner.phase = "flush" THEN pending.task ELSE runner.task
About(q, t) ==
    /\ q.op \in {"complete", "store", "apply", "reply"}
    /\ q.op # "reply" => q.task = t
    /\ q.op = "reply" /\ q.answer = "ok" => Settled(t)
Awaited ==
    runner.phase \in {"flush", "deliver"} /\ runner.waiting # None =>
        About(req[runner.waiting], Carried)

Kept == HandedOut /\ Reports /\ OneResult /\ Awaited /\ ResultKept

\* What a step keeps of the rows.
Later ==
    \A t \in Tasks :
        /\ Began(t) => Began(t)'
        /\ Settled(t) => Settled(t)'
        /\ given[t] > 0 => given'[t] > 0
        /\ t \in cancelled => t \in cancelled' \/ status'[t] = "deleted"
        /\ status[t] = "deleted" => status'[t] = "deleted"
        /\ given[t] > 0 /\ status'[t] = "running" /\ t \notin cancelled'
              => status[t] = "running" /\ t \notin cancelled

LEMMA StopsStay ==
    ASSUME Typed, [Next]_vars
    PROVE  \A t \in Tasks : /\ t \in cancelled => t \in cancelled' \/ status'[t] = "deleted"
                            /\ given[t] > 0 => given'[t] > 0
<1>1. ASSUME UNCHANGED <<cancelled, given>>
      PROVE  \A t \in Tasks : /\ t \in cancelled => t \in cancelled' \/ status'[t] = "deleted"
                              /\ given[t] > 0 => given'[t] > 0
  BY <1>1
<1>2. ASSUME NEW r \in Requests, Serve(r)
      PROVE  \A t \in Tasks : /\ t \in cancelled => t \in cancelled' \/ status'[t] = "deleted"
                              /\ given[t] > 0 => given'[t] > 0
  <2>1. CASE \/ CreateInsert(r) \/ Expire(r) \/ FailStale(r) \/ Recover(r) \/ ClaimSelect(r)
             \/ CompleteRead(r) \/ CompleteStore(r) \/ CompleteApply(r)
    <3>1. CreateInsert(r) \/ Expire(r) \/ FailStale(r) \/ Recover(r) => UNCHANGED <<cancelled, given>>
      BY DEF CreateInsert, Expire, FailStale, Recover
    <3>2. ClaimSelect(r) \/ CompleteRead(r) => UNCHANGED <<cancelled, given>>
      BY DEF ClaimSelect, CompleteRead, worker
    <3>3. CompleteStore(r) \/ CompleteApply(r) => UNCHANGED <<cancelled, given>>
      BY DEF CompleteStore, CompleteApply
    <3> QED
      BY <1>1, <2>1, <3>1, <3>2, <3>3
  <2>2. CASE CancelQueued(r) \/ CancelRunning(r)
    <3>1. given' = given /\ cancelled \subseteq cancelled'
      BY <2>2 DEF CancelQueued, CancelRunning
    <3> QED
      BY <3>1
  <2>3. CASE Claim(r)
    <3>1. cancelled' = cancelled /\ \A t \in Tasks : given'[t] \in {given[t], given[t] + 1}
      BY <2>3 DEF Claim, Typed, TableOK
    <3> QED
      BY <3>1 DEF Typed, TableOK
  <2> QED
    BY <1>2, <2>1, <2>2, <2>3 DEF Serve
<1>3. ASSUME NEW u \in Tasks, Cleanup(u)
      PROVE  \A t \in Tasks : /\ t \in cancelled => t \in cancelled' \/ status'[t] = "deleted"
                              /\ given[t] > 0 => given'[t] > 0
  BY <1>3 DEF Cleanup, Typed, TableOK
<1>4. ASSUME NEW r \in Requests,
             Admin(r) \/ Abort(r) \/ Poll(r) \/ Deliver(r) \/ Answered(r) \/ LoseReply(r)
      PROVE  UNCHANGED <<cancelled, given>>
  BY <1>4 DEF Admin, List, CreateCheck, CancelRead, Abort, Poll, Deliver, Answered, LoseReply, worker
<1>5. ASSUME \/ \E t \in Tasks : DeadlinePasses(t) \/ HeartbeatAges(t)
             \/ Finish \/ AskCancelled \/ GiveUp \/ Restart \/ UNCHANGED vars
      PROVE  UNCHANGED <<cancelled, given>>
  <2>1. ASSUME NEW t \in Tasks, DeadlinePasses(t) \/ HeartbeatAges(t)
        PROVE  UNCHANGED <<cancelled, given>>
    BY <2>1 DEF DeadlinePasses, HeartbeatAges
  <2>2. Finish => UNCHANGED <<cancelled, given>>
    BY DEF Finish, worker
  <2>3. AskCancelled => UNCHANGED <<cancelled, given>>
    BY DEF AskCancelled
  <2>4. GiveUp \/ Restart \/ UNCHANGED vars => UNCHANGED <<cancelled, given>>
    BY DEF GiveUp, Restart, vars, worker
  <2> QED
    BY <1>5, <2>1, <2>2, <2>3, <2>4
<1> QED
  BY <1>1, <1>2, <1>3, <1>4, <1>5 DEF Next

LEMMA RowsAge ==
    ASSUME Typed, Lifecycle, [Next]_vars
    PROVE  Later
<1> SUFFICES ASSUME NEW t \in Tasks
             PROVE  /\ Began(t) => Began(t)'
                    /\ Settled(t) => Settled(t)'
                    /\ given[t] > 0 => given'[t] > 0
                    /\ t \in cancelled => t \in cancelled' \/ status'[t] = "deleted"
                    /\ status[t] = "deleted" => status'[t] = "deleted"
                    /\ given[t] > 0 /\ status'[t] = "running" /\ t \notin cancelled'
                          => status[t] = "running" /\ t \notin cancelled
  BY DEF Later
<1>1. /\ t \in cancelled => t \in cancelled' \/ status'[t] = "deleted"
      /\ given[t] > 0 => given'[t] > 0
  BY StopsStay
<1>2. Lives(t)
  BY NextLives
<1>3. /\ status[t] \notin {"absent", "queued"} =>
            /\ status'[t] \notin {"absent", "queued"}
            /\ status'[t] = "running" => status[t] = "running"
      /\ status[t] = "deleted" => status'[t] = "deleted"
      /\ status'[t] = "running" => status[t] \in {"queued", "running"}
  BY <1>2 DEF Lives, Active, Finished
<1>4. status[t] = "queued" => ~(given[t] > 0)
  BY DEF Lifecycle, WaitingRowsNotGiven
<1> QED
  BY <1>1, <1>3, <1>4 DEF Began, Settled

\* A request's step in the Worker: the manager's thread goes on waiting.
LEMMA WorkerKept ==
    ASSUME Typed, Kept, Later, RunnerIdle, NEW r \in Requests, NEW x,
           req' = [req EXCEPT ![r] = x],
           x.op = "reply" /\ x.answer \in Tasks => given'[x.answer] > 0,
           x.op = "store" => /\ x.task \in Tasks
                             /\ Began(x.task)'
                             /\ x.sawCancel => x.task \in cancelled' \/ status'[x.task] = "deleted",
           req[r].op # "reply",
           \A t \in Tasks :
              t = req[r].task /\ req[r].op \in {"complete", "store", "apply"} =>
                 /\ x.op \in {"complete", "store", "apply", "reply"}
                 /\ x.op # "reply" => x.task = t
                 /\ x.op = "reply" /\ x.answer = "ok" => Settled(t)'
    PROVE  Kept'
<1>1. /\ req'[r] = x /\ \A q \in Requests \ {r} : req'[q] = req[q]
      /\ UNCHANGED <<runner, pending, faults, made, dropped>>
  BY DEF RunnerIdle, Typed, RequestsOK
<1>2. /\ made \subseteq Tasks /\ runner \in RunnerRecord
      /\ runner.phase \in {"execute", "deliver"} => runner.task \in Tasks
      /\ pending \in Results \cup {None}
  BY DEF Typed, ThreadOK
<1>3. HandedOut'
  BY <1>1, <1>2 DEF Kept, HandedOut, Later
<1>4. Reports'
  <2>1. \A q \in Requests : req[q].op = "store" => req[q].task \in Tasks
    BY DEF Typed, RequestsOK, NamesRow, RowOps
  <2> QED
    BY <1>1, <2>1 DEF Kept, Reports, Later
<1>5. OneResult'
  BY <1>1 DEF Kept, OneResult
<1>6. Awaited'
  <2> SUFFICES ASSUME runner.phase \in {"flush", "deliver"}, runner.waiting # None
               PROVE  About(req[runner.waiting], Carried)'
    BY <1>1 DEF Awaited
  <2>1. About(req[runner.waiting], Carried) /\ Carried' = Carried /\ runner.waiting \in Requests
    BY <1>1, <1>2 DEF Kept, Awaited, Carried, RunnerRecord
  <2>2. Carried \in Tasks
    BY <1>2 DEF Carried, Kept, OneResult, Results
  <2>3. Settled(Carried) => Settled(Carried)'
    BY <2>1, <2>2 DEF Later
  <2>4. CASE runner.waiting # r
    BY <1>1, <2>1, <2>3, <2>4 DEF About
  <2>5. CASE runner.waiting = r
    <3>1. req[r].task = Carried /\ req[r].op \in {"complete", "store", "apply"}
      BY <2>1, <2>5 DEF About
    <3>2. req'[runner'.waiting] = x
      BY <1>1, <2>5
    <3>3. /\ x.op \in {"complete", "store", "apply", "reply"}
          /\ x.op # "reply" => x.task = Carried
          /\ x.op = "reply" /\ x.answer = "ok" => Settled(Carried)'
      <4>1. PICK t \in Tasks : t = Carried
        BY <2>2
      <4>2. x.op = "reply" /\ x.answer = "ok" => Settled(t)'
        BY <3>1, <4>1
      <4>3. Carried' = t
        BY <2>1, <4>1
      <4>4. Settled(t)' => Settled(Carried)'
        BY <4>3 DEF Settled, Began
      <4> QED
        BY <3>1, <4>1, <4>2, <4>4
    <3> QED
      BY <2>1, <3>2, <3>3 DEF About
  <2> QED
    BY <2>4, <2>5
<1>7. ResultKept'
  BY <1>1, <1>2 DEF Kept, HandedOut, ResultKept, Later
<1> QED
  BY <1>3, <1>4, <1>5, <1>6, <1>7 DEF Kept

LEMMA ReplyKept ==
    ASSUME Typed, Kept, Later, RunnerIdle, NEW r \in Requests, NEW a, Reply(r, a),
           a \in Tasks => given'[a] > 0, req[r].op # "reply",
           \A t \in Tasks :
              /\ t = req[r].task
              /\ req[r].op \in {"complete", "store", "apply"}
              /\ a = "ok"
              => Settled(t)'
    PROVE  Kept'
<1> DEFINE x == [Free EXCEPT !.op = "reply", !.answer = a]
<1>1. req' = [req EXCEPT ![r] = x]
  BY DEF Reply
<1>2. x.op = "reply" /\ x.answer = a
  BY DEF Free
<1> HIDE DEF x
<1>3. x.op = "reply" /\ x.answer \in Tasks => given'[x.answer] > 0
  BY <1>2
<1>4. x.op # "store"
  BY <1>2
<1>5. \A t \in Tasks :
         t = req[r].task /\ req[r].op \in {"complete", "store", "apply"} =>
            /\ x.op \in {"complete", "store", "apply", "reply"}
            /\ x.op # "reply" => x.task = t
            /\ x.op = "reply" /\ x.answer = "ok" => Settled(t)'
  BY <1>2
<1> QED
  BY <1>1, <1>3, <1>4, <1>5, WorkerKept

\* A request goes on to its next statement.
LEMMA StepKept ==
    ASSUME Typed, Kept, Later, RunnerIdle, NEW r \in Requests, NEW op, Step(r, op),
           req[r].op # "reply", op \notin {"reply", "store"},
           req[r].op \in {"complete", "store", "apply"} => op = "apply"
    PROVE  Kept'
<1> DEFINE x == [req[r] EXCEPT !.op = op]
<1>1. req' = [req EXCEPT ![r] = x]
  BY DEF Step, Typed, RequestsOK
<1>2. x.op = op /\ x.task = req[r].task
  BY DEF Typed, RequestsOK, RequestRecord
<1> HIDE DEF x
<1> QED
  BY <1>1, <1>2, WorkerKept

LEMMA StartKept ==
    ASSUME Typed, Kept, Later, RunnerIdle, NEW r \in Requests, NEW op, NEW t,
           Start(r, op, t), op \notin {"reply", "store"}
    PROVE  Kept'
<1> DEFINE x == [req[r] EXCEPT !.op = op, !.task = t]
<1>1. req' = [req EXCEPT ![r] = x]
  BY DEF Start, Typed, RequestsOK
<1>2. x.op = op /\ req[r].op = "free"
  BY DEF Start, Free
<1> HIDE DEF x
<1> QED
  BY <1>1, <1>2, WorkerKept

\* A step that writes rows only.
LEMMA RowsKept ==
    ASSUME Typed, Kept, Later, UNCHANGED <<req, runner, pending, made, dropped>>
    PROVE  Kept'
<1>1. /\ made \subseteq Tasks
      /\ runner.phase \in {"execute", "deliver"} => runner.task \in Tasks
      /\ pending \in Results \cup {None}
      /\ \A q \in Requests : req[q].op = "store" => req[q].task \in Tasks
  BY DEF Typed, ThreadOK, RequestsOK, NamesRow, RowOps
<1>2. HandedOut'
  BY <1>1 DEF Kept, HandedOut, Later
<1>3. Reports'
  BY <1>1 DEF Kept, Reports, Later
<1>4. OneResult'
  BY DEF Kept, OneResult
<1>5. Awaited'
  <2> SUFFICES ASSUME runner.phase \in {"flush", "deliver"}, runner.waiting # None
               PROVE  About(req[runner.waiting], Carried)'
    BY DEF Awaited
  <2>1. About(req[runner.waiting], Carried) /\ Carried' = Carried
    BY DEF Kept, Awaited, Carried
  <2>2. Carried \in Tasks
    BY <1>1 DEF Carried, Kept, OneResult, Results
  <2>3. Settled(Carried) => Settled(Carried)'
    BY <2>1, <2>2 DEF Later
  <2> QED
    BY <2>1, <2>3 DEF About
<1>6. ResultKept'
  BY <1>1 DEF Kept, HandedOut, ResultKept, Later
<1> QED
  BY <1>2, <1>3, <1>4, <1>5, <1>6 DEF Kept

\* The steps of the requests.
LEMMA CompleteReadKept ==
    ASSUME Typed, Kept, Later, NEW r \in Requests, CompleteRead(r)
    PROVE  Kept'
<1>t. PICK t \in Tasks : t = req[r].task
  BY DEF CompleteRead, At, Typed, RequestsOK, NamesRow, RowOps
<1>0. /\ req[r].op = "complete" /\ req[r] \in RequestRecord
      /\ req \in [Requests -> RequestRecord] /\ RunnerIdle
      /\ UNCHANGED <<status, cancelled>>
  BY DEF CompleteRead, At, Typed, RequestsOK, NamesRow, RowOps, worker
<1>1. CASE status[t] = "running"
  <2>1. PICK saw \in BOOLEAN :
            /\ saw <=> req[r].task \in cancelled
            /\ req' = [req EXCEPT ![r].op = "store", ![r].sawCancel = saw]
    <3> DEFINE seen == req[r].task \in cancelled
    <3>1. req' = [req EXCEPT ![r].op = "store", ![r].sawCancel = seen]
      BY <1>t, <1>1 DEF CompleteRead
    <3>2. seen \in BOOLEAN /\ (seen <=> req[r].task \in cancelled)
      OBVIOUS
    <3> HIDE DEF seen
    <3> QED
      BY <3>1, <3>2
  <2>x. PICK x : x = [req[r] EXCEPT !.op = "store", !.sawCancel = saw]
    OBVIOUS
  <2>y. req' = [req EXCEPT ![r] = x]
    BY <1>0, <2>1, <2>x
  <2>2. x.op = "store" /\ x.task = t /\ x.sawCancel = saw
    BY <1>t, <1>0, <2>x DEF RequestRecord
  <2>3. /\ x.task \in Tasks
        /\ Began(x.task)'
        /\ x.sawCancel => x.task \in cancelled' \/ status'[x.task] = "deleted"
    BY <1>t, <1>0, <1>1, <2>1, <2>2 DEF Began
  <2>4. \A u \in Tasks :
           u = req[r].task /\ req[r].op \in {"complete", "store", "apply"} =>
              /\ x.op \in {"complete", "store", "apply", "reply"}
              /\ x.op # "reply" => x.task = u
              /\ x.op = "reply" /\ x.answer = "ok" => Settled(u)'
    BY <1>t, <2>2
  <2> QED
    BY <1>0, <2>y, <2>2, <2>3, <2>4, WorkerKept
<1>2. CASE status[t] # "running"
  <2>1. Reply(r, "rejected") /\ "rejected" \notin Tasks
    BY <1>t, <1>2, ConstantsAssumption DEF CompleteRead
  <2> QED
    BY <1>0, <2>1, ReplyKept
<1> QED
  BY <1>1, <1>2

\* A report that is not stored although the row is there has met another
\* end, or a stop it did not see: the row does not wait for it.
LEMMA CompleteStoreKept ==
    ASSUME Typed, Kept, Later, NEW r \in Requests, CompleteStore(r)
    PROVE  Kept'
<1>t. PICK t \in Tasks : t = req[r].task
  BY DEF CompleteStore, At, Typed, RequestsOK, NamesRow, RowOps
<1>f. PICK final : final = FinalStatus(req[r].ok, req[r].sawCancel)
  OBVIOUS
<1>0. /\ req[r].op = "store" /\ RunnerIdle /\ UNCHANGED cancelled
      /\ "ok" \notin Tasks /\ "rejected" \notin Tasks
      /\ status \in [Tasks -> Active \cup Finished \cup {"absent", "deleted"}]
  BY ConstantsAssumption
     DEF CompleteStore, At, Typed, TableOK, RequestsOK, NamesRow, RowOps
<1>1. /\ Began(t)
      /\ req[r].sawCancel => t \in cancelled \/ status[t] = "deleted"
  BY <1>t, <1>0 DEF Kept, Reports
<1>2. CASE StoreCondition(t, req[r].sawCancel)
  <2>1. status' = [status EXCEPT ![t] = final]
        /\ IF final = "succeeded" THEN Step(r, "apply") ELSE Reply(r, "ok")
    BY <1>t, <1>f, <1>2 DEF CompleteStore
  <2>2. Settled(t)'
    BY <1>f, <1>0, <2>1 DEF Settled, Began, FinalStatus
  <2>3. CASE Step(r, "apply")
    BY <1>0, <2>3, StepKept
  <2>4. CASE Reply(r, "ok")
    BY <1>t, <1>0, <2>2, <2>4, ReplyKept
  <2> QED
    BY <2>1, <2>3, <2>4
<1>3. CASE ~StoreCondition(t, req[r].sawCancel)
  <2>1. UNCHANGED status /\ Reply(r, IF status[t] = "deleted" THEN "rejected" ELSE "ok")
    BY <1>t, <1>3 DEF CompleteStore
  <2>2. status[t] # "deleted" => Settled(t)'
    <3>1. status[t] # "deleted" /\ req[r].sawCancel => t \in cancelled
      BY <1>1
    <3>2. status[t] = "running" /\ ~req[r].sawCancel => t \in cancelled
      <4>1. req[r].sawCancel \in BOOLEAN
        BY DEF Typed, RequestsOK, RequestRecord
      <4>2. status[t] = "running" => (t \in cancelled) # req[r].sawCancel
        BY <1>3 DEF StoreCondition
      <4> QED
        BY <4>1, <4>2
    <3> QED
      BY <1>0, <1>1, <2>1, <3>1, <3>2 DEF Settled, Began
  <2>3. CASE status[t] = "deleted"
    <3>1. Reply(r, "rejected")
      BY <2>1, <2>3
    <3> QED
      BY <1>0, <3>1, ReplyKept
  <2>4. CASE status[t] # "deleted"
    <3>1. Reply(r, "ok")
      BY <2>1, <2>4
    <3> QED
      BY <1>t, <1>0, <2>2, <2>4, <3>1, ReplyKept
  <2> QED
    BY <2>3, <2>4
<1> QED
  BY <1>2, <1>3

LEMMA CompleteApplyKept ==
    ASSUME Typed, Lifecycle, Kept, Later, NEW r \in Requests, CompleteApply(r)
    PROVE  Kept'
<1>t. PICK t \in Tasks : t = req[r].task
  BY DEF CompleteApply, At, Typed, RequestsOK, NamesRow, RowOps
<1>1. /\ req[r].op = "apply" /\ RunnerIdle /\ Reply(r, "ok") /\ "ok" \notin Tasks
      /\ UNCHANGED <<status, cancelled>>
  BY ConstantsAssumption DEF CompleteApply, At
<1>2. Settled(t)'
  BY <1>t, <1>1 DEF Lifecycle, AppliedRows, Settled, Began
<1> QED
  BY <1>t, <1>1, <1>2, ReplyKept

\* Requests of the administrator, and the claim.
LEMMA OtherRequestsKept ==
    ASSUME Typed, Kept, Later, NEW r \in Requests,
           \/ Admin(r) \/ CreateInsert(r) \/ CancelQueued(r) \/ CancelRunning(r)
           \/ Expire(r) \/ FailStale(r) \/ Recover(r) \/ ClaimSelect(r) \/ Claim(r)
           \/ Abort(r)
    PROVE  Kept'
<1>0. None \notin Tasks /\ "lost" \notin Tasks
  BY ConstantsAssumption
<1>1. CASE Admin(r)
  <2>1. RunnerIdle /\ \E op \in {"listExpire", "insert", "cancelQueued", "cancelRunning"} :
            \E t \in Tasks \cup {None} : Start(r, op, t)
    BY <1>1 DEF Admin, List, CreateCheck, CancelRead
  <2> QED
    BY <2>1, StartKept
<1>2. CASE CreateInsert(r) \/ CancelQueued(r) \/ CancelRunning(r)
  <2>1. /\ RunnerIdle /\ Reply(r, None)
        /\ req[r].op \in {"insert", "cancelQueued", "cancelRunning"}
    BY <1>2 DEF CreateInsert, CancelQueued, CancelRunning, At
  <2> QED
    BY <1>0, <2>1, ReplyKept
<1>3. CASE Expire(r) \/ FailStale(r) \/ Recover(r)
  <2>1. /\ RunnerIdle
        /\ req[r].op \in {"listExpire", "claimExpire", "listStale", "claimStale", "recover"}
        /\ \/ Reply(r, None)
           \/ \E op \in {"listStale", "claimStale", "recover", "select"} : Step(r, op)
    BY <1>3 DEF Expire, FailStale, Recover, At
  <2>2. CASE Reply(r, None)
    BY <1>0, <2>1, <2>2, ReplyKept
  <2>3. CASE \E op \in {"listStale", "claimStale", "recover", "select"} : Step(r, op)
    BY <2>1, <2>3, StepKept
  <2> QED
    BY <2>1, <2>2, <2>3
<1>4. CASE ClaimSelect(r)
  <2>1. /\ RunnerIdle /\ req[r].op = "select"
        /\ \/ Reply(r, None)
           \/ \E t \in Tasks : req' = [req EXCEPT ![r].op = "claim", ![r].task = t]
    BY <1>4 DEF ClaimSelect, At
  <2>2. ASSUME NEW t \in Tasks, req' = [req EXCEPT ![r].op = "claim", ![r].task = t]
        PROVE  Kept'
    <3>1. PICK x : x = [req[r] EXCEPT !.op = "claim", !.task = t]
      OBVIOUS
    <3>2. req' = [req EXCEPT ![r] = x]
      BY <2>2, <3>1 DEF Typed, RequestsOK
    <3>3. x.op = "claim"
      BY <3>1 DEF Typed, RequestsOK, RequestRecord
    <3> QED
      BY <2>1, <3>2, <3>3, WorkerKept
  <2> QED
    BY <1>0, <2>1, <2>2, ReplyKept
<1>5. CASE Claim(r)
  <2>t. PICK t \in Tasks : t = req[r].task
    BY <1>5 DEF Claim, At, Typed, RequestsOK, NamesRow, RowOps
  <2>1. /\ RunnerIdle /\ req[r].op = "claim"
        /\ \/ Reply(r, None)
           \/ Reply(r, t) /\ given' = [given EXCEPT ![t] = @ + 1]
    BY <1>5, <2>t DEF Claim, At
  <2>2. CASE Reply(r, t) /\ given' = [given EXCEPT ![t] = @ + 1]
    <3>1. given'[t] > 0
      BY <2>2 DEF Typed, TableOK
    <3> QED
      BY <2>1, <2>2, <3>1, ReplyKept
  <2> QED
    BY <1>0, <2>1, <2>2, ReplyKept
<1>6. CASE Abort(r)
  <2>1. /\ RunnerIdle /\ Reply(r, "lost") /\ req[r].op # "reply"
    BY <1>6 DEF Abort
  <2> QED
    BY <1>0, <2>1, ReplyKept
<1> QED
  BY <1>1, <1>2, <1>3, <1>4, <1>5, <1>6

\* What the thread makes of an answer, or of none.
LEMMA HearKept ==
    ASSUME Typed, Kept, NEW a, Hear(a), UNCHANGED <<worker, made>>,
           a \in Tasks => given[a] > 0,
           runner.phase \in {"flush", "deliver"} /\ a = "ok" => Settled(Carried),
           \A q \in Requests : req'[q] = req[q] \/ req'[q] = Free
    PROVE  Kept'
<1>0. /\ "ok" \notin Tasks /\ None \notin Tasks /\ made \subseteq Tasks
      /\ runner \in RunnerRecord /\ Free.op = "free"
  BY ConstantsAssumption DEF Typed, ThreadOK, Free
<1>1. HandedOut' /\ OneResult' /\ runner'.waiting = None
  <2>1. CASE HearFlush(a)
    <3>1. runner'.phase = "sleep" /\ runner'.waiting = None
      BY <2>1 DEF HearFlush, Asleep
    <3> QED
      BY <1>0, <3>1 DEF Kept, HandedOut, OneResult, worker
  <2>2. CASE HearClaim(a)
    <3>1. /\ runner'.waiting = None /\ UNCHANGED pending /\ runner.phase = "claim"
          /\ \/ runner'.phase = "sleep"
             \/ runner'.phase = "execute" /\ a \in Tasks /\ runner'.task = a
      BY <1>0, <2>2 DEF HearClaim, Asleep, RunnerRecord
    <3> QED
      BY <1>0, <3>1 DEF Kept, HandedOut, OneResult, worker
  <2>3. CASE HearDeliver(a)
    <3>1. /\ runner'.waiting = None
          /\ \/ runner'.phase = "sleep"
             \/ runner'.phase = "deliver" /\ UNCHANGED pending /\ runner.phase = "deliver"
      BY <1>0, <2>3 DEF HearDeliver, Asleep, RunnerRecord
    <3> QED
      BY <1>0, <3>1 DEF Kept, HandedOut, OneResult, worker
  <2> QED
    BY <2>1, <2>2, <2>3 DEF Hear
<1>2. Reports'
  BY <1>0 DEF Kept, Reports, Began, worker
<1>3. Awaited'
  BY <1>1 DEF Awaited
<1>4. ResultKept'
  <2> SUFFICES ASSUME NEW t \in made \ dropped', status[t] = "running", t \notin cancelled
               PROVE  \/ runner'.phase = "deliver" /\ runner'.task = t
                      \/ pending' # None /\ pending'.task = t
    BY DEF ResultKept, worker
  <2>0. dropped \subseteq dropped' /\ ~Settled(t)
    BY DEF Hear, HearFlush, HearClaim, HearDeliver, Settled
  <2>1. \/ runner.phase = "deliver" /\ runner.task = t
        \/ pending # None /\ pending.task = t
    BY <2>0 DEF Kept, ResultKept
  <2>2. CASE HearFlush(a)
    BY <2>0, <2>1, <2>2 DEF HearFlush, IsTerminal, Carried
  <2>3. CASE HearClaim(a)
    BY <2>1, <2>3 DEF HearClaim
  <2>4. CASE HearDeliver(a)
    <3>1. runner.phase = "deliver" /\ pending = None /\ runner.task = t
      BY <2>1, <2>4 DEF HearDeliver, Kept, OneResult
    <3>2. a # "ok"
      BY <2>0, <3>1 DEF Carried
    <3>3. CASE MayRetry
      <4>1. runner' = [runner EXCEPT !.waiting = None]
        BY <2>4, <3>2, <3>3 DEF HearDeliver
      <4> QED
        BY <1>0, <3>1, <4>1 DEF RunnerRecord
    <3>4. CASE ~MayRetry
      <4>1. pending' = [task |-> runner.task, ok |-> runner.ok]
        BY <2>4, <3>1, <3>2, <3>4 DEF HearDeliver
      <4>2. pending' # None
        <5>1. runner.ok \in BOOLEAN /\ runner.task \in Tasks
          BY <1>0, <3>1 DEF RunnerRecord, Typed, ThreadOK
        <5> QED
          BY <4>1, <5>1, ConstantsAssumption
      <4> QED
        BY <3>1, <4>1, <4>2
    <3> QED
      BY <3>3, <3>4
  <2> QED
    BY <2>2, <2>3, <2>4 DEF Hear
<1> QED
  BY <1>1, <1>2, <1>3, <1>4 DEF Kept

\* The thread sends a request, for a claim or with the result it has.
LEMMA SendsKept ==
    ASSUME Typed, Kept, NEW r \in Requests, Poll(r) \/ Deliver(r)
    PROVE  Kept'
<1>0. /\ None \notin Requests /\ req \in [Requests -> RequestRecord]
      /\ runner \in RunnerRecord /\ req[r].op = "free"
      /\ UNCHANGED <<status, cancelled, given, made, dropped, pending>>
  BY ConstantsAssumption DEF Poll, Deliver, Send, Free, Typed, RequestsOK, ThreadOK, worker
<1>1. CASE Deliver(r)
  <2>1. /\ runner.phase = "deliver"
        /\ runner' = [runner EXCEPT !.waiting = r, !.attempt = @ + 1]
    BY <1>1 DEF Deliver
  <2>2. /\ runner'.phase = "deliver" /\ runner'.waiting = r /\ runner'.task = runner.task
    BY <1>0, <2>1 DEF RunnerRecord
  <2>3. /\ \A q \in Requests \ {r} : req'[q] = req[q]
        /\ req'[r].op = "complete" /\ req'[r].task = runner.task
    BY <1>0, <1>1 DEF Deliver, Send, Free
  <2>4. HandedOut' /\ OneResult' /\ Reports' /\ ResultKept'
    BY <1>0, <2>1, <2>2, <2>3 DEF Kept, HandedOut, OneResult, Reports, Began, ResultKept
  <2>5. Awaited'
    BY <2>2, <2>3 DEF Awaited, About, Carried
  <2> QED
    BY <2>4, <2>5 DEF Kept
<1>2. CASE Poll(r) /\ pending # None
  <2>1. /\ runner.phase = "sleep"
        /\ runner' = [runner EXCEPT !.phase = "flush", !.waiting = r]
    BY <1>2 DEF Poll
  <2>2. /\ runner'.phase = "flush" /\ runner'.waiting = r
    BY <1>0, <2>1 DEF RunnerRecord
  <2>3. /\ \A q \in Requests \ {r} : req'[q] = req[q]
        /\ req'[r].op = "complete" /\ req'[r].task = pending.task
    BY <1>0, <1>2 DEF Poll, Send, Free
  <2>a. req'[r].op # "reply" /\ runner'.phase # "execute" /\ pending' # None
    BY <1>0, <1>2, <2>2, <2>3
  <2>4. HandedOut' /\ OneResult'
    BY <1>0, <2>2, <2>3, <2>a DEF Kept, HandedOut, OneResult
  <2>7. ResultKept'
    <3>1. ASSUME NEW t \in made \ dropped, status[t] = "running", t \notin cancelled
          PROVE  pending # None /\ pending.task = t
      BY <2>1, <3>1 DEF Kept, ResultKept
    <3> QED
      BY <1>0, <3>1 DEF ResultKept
  <2>6. Reports'
    <3>1. ASSUME NEW q \in Requests, req'[q].op = "store" PROVE req[q] = req'[q]
      BY <2>3, <3>1
    <3> QED
      BY <1>0, <3>1 DEF Kept, Reports, Began
  <2>5. Awaited'
    BY <1>0, <2>2, <2>3 DEF Awaited, About, Carried
  <2> QED
    BY <2>4, <2>5, <2>6, <2>7 DEF Kept
<1>3. CASE Poll(r) /\ pending = None
  <2>1. /\ runner.phase = "sleep"
        /\ runner' = [runner EXCEPT !.phase = "claim", !.waiting = r]
    BY <1>3 DEF Poll
  <2>2. runner'.phase = "claim"
    BY <1>0, <2>1 DEF RunnerRecord
  <2>3. /\ \A q \in Requests \ {r} : req'[q] = req[q]
        /\ req'[r].op = "claimExpire"
    BY <1>0, <1>3 DEF Poll, Send, Free
  <2>4. HandedOut' /\ OneResult' /\ Reports' /\ ResultKept'
    BY <1>0, <1>3, <2>1, <2>2, <2>3
       DEF Kept, HandedOut, OneResult, Reports, Began, ResultKept
  <2>5. Awaited'
    BY <2>2 DEF Awaited
  <2> QED
    BY <2>4, <2>5 DEF Kept
<1> QED
  BY <1>1, <1>2, <1>3

\* The thread has a result: its task ended, or was stopped.
LEMMA ResultMade ==
    ASSUME Typed, Kept, NEW ok, runner.phase = "execute",
           runner' = [runner EXCEPT !.phase = "deliver", !.ok = ok],
           made' = made \cup {runner.task},
           UNCHANGED <<status, cancelled, given, req, pending, dropped>>
    PROVE  Kept'
<1>1. /\ runner'.phase = "deliver" /\ runner'.task = runner.task
      /\ runner'.waiting = None
  BY DEF Typed, ThreadOK, RunnerRecord, Kept, OneResult
<1>2. HandedOut' /\ OneResult' /\ Reports'
  BY <1>1 DEF Kept, HandedOut, OneResult, Reports, Began
<1>3. Awaited' /\ ResultKept'
  BY <1>1 DEF Kept, Awaited, OneResult, ResultKept
<1> QED
  BY <1>2, <1>3 DEF Kept

LEMMA ThreadKept ==
    ASSUME Typed, Kept, Later,
           \/ Finish \/ AskCancelled \/ GiveUp \/ Restart
           \/ \E r \in Requests : Answered(r) \/ LoseReply(r)
    PROVE  Kept'
<1>0. "lost" \notin Tasks /\ "lost" # "ok" /\ None \notin Requests
  BY ConstantsAssumption
<1>1. CASE Finish
  BY <1>1, ResultMade DEF Finish, worker
<1>2. CASE AskCancelled
  <2>1. CASE UNCHANGED <<runner, made>>
    BY <1>2, <2>1, RowsKept DEF AskCancelled
  <2>2. CASE ~UNCHANGED <<runner, made>>
    <3>1. /\ runner.phase = "execute"
          /\ runner' = [runner EXCEPT !.phase = "deliver", !.ok = FALSE]
          /\ made' = made \cup {runner.task}
          /\ UNCHANGED <<status, cancelled, given, req, pending, dropped>>
      BY <1>2, <2>2 DEF AskCancelled
    <3> QED
      BY <3>1, ResultMade
  <2> QED
    BY <2>1, <2>2
<1>3. CASE GiveUp
  <2>1. Hear("lost") /\ UNCHANGED <<worker, made>> /\ \A q \in Requests : req'[q] = req[q]
    BY <1>3 DEF GiveUp
  <2> QED
    BY <1>0, <2>1, HearKept
<1>4. CASE Restart
  <2>1. /\ runner'.phase = "sleep" /\ runner'.waiting = None
        /\ UNCHANGED <<status, cancelled, given, req, pending, made>>
        /\ dropped' = IF runner.phase = "deliver" THEN dropped \cup {runner.task}
                                                  ELSE dropped
    BY <1>4 DEF Restart, Asleep, worker
  <2>2. HandedOut' /\ OneResult' /\ Reports' /\ Awaited'
    BY <2>1 DEF Kept, HandedOut, OneResult, Reports, Began, Awaited
  <2>3. ResultKept'
    BY <2>1 DEF Kept, ResultKept
  <2> QED
    BY <2>2, <2>3 DEF Kept
<1>5. ASSUME NEW r \in Requests, Answered(r)
      PROVE  Kept'
  <2>1. /\ Hear(req[r].answer) /\ UNCHANGED <<worker, made>>
        /\ req[r].op = "reply" /\ runner.waiting = r
        /\ \A q \in Requests : req'[q] = req[q] \/ req'[q] = Free
    BY <1>5 DEF Answered, At, Typed, RequestsOK
  <2>2. req[r].answer \in Tasks => given[req[r].answer] > 0
    BY <2>1 DEF Kept, HandedOut
  <2>3. runner.phase \in {"flush", "deliver"} /\ req[r].answer = "ok" => Settled(Carried)
    BY <1>0, <2>1 DEF Kept, Awaited, About
  <2> QED
    BY <2>1, <2>2, <2>3, HearKept
<1>6. ASSUME NEW r \in Requests, LoseReply(r)
      PROVE  Kept'
  <2>1. /\ UNCHANGED <<worker, made>> /\ req' = [req EXCEPT ![r] = Free]
        /\ \A q \in Requests : req'[q] = req[q] \/ req'[q] = Free
    BY <1>6 DEF LoseReply, Typed, RequestsOK
  <2>2. CASE Hear("lost")
    BY <1>0, <2>1, <2>2, HearKept
  <2>3. CASE runner.waiting # r /\ UNCHANGED <<runner, pending, dropped>>
    <3>1. UNCHANGED <<status, cancelled, given>> /\ Free.op = "free"
      BY <2>1 DEF worker, Free
    <3>2. HandedOut' /\ OneResult' /\ Reports' /\ ResultKept'
      BY <2>1, <2>3, <3>1 DEF Kept, HandedOut, OneResult, Reports, Began, ResultKept
    <3>3. Awaited'
      <4> SUFFICES ASSUME runner.phase \in {"flush", "deliver"}, runner.waiting # None
                   PROVE  About(req[runner.waiting], Carried)'
        BY <2>3 DEF Awaited
      <4>1. runner.waiting \in Requests \ {r}
        BY <2>3 DEF Typed, ThreadOK, RunnerRecord
      <4>2. req'[runner'.waiting] = req[runner.waiting]
        BY <2>1, <2>3, <4>1 DEF Typed, RequestsOK
      <4>3. About(req[runner.waiting], Carried) /\ Carried' = Carried
        BY <2>3 DEF Kept, Awaited, Carried
      <4> QED
        BY <3>1, <4>2, <4>3 DEF About, Settled, Began
    <3> QED
      BY <3>2, <3>3 DEF Kept
  <2> QED
    BY <1>6, <2>2, <2>3 DEF LoseReply
<1> QED
  BY <1>1, <1>2, <1>3, <1>4, <1>5, <1>6

LEMMA InitKept == Init => Kept
  BY DEF Init, Kept, HandedOut, Reports, OneResult, Awaited, ResultKept, Free, Asleep

LEMMA NextKept ==
    ASSUME Typed, Lifecycle, Kept, [Next]_vars
    PROVE  Kept'
<1>0. Later
  BY RowsAge
<1>1. CASE UNCHANGED vars
  BY <1>0, <1>1, RowsKept DEF vars
<1>2. ASSUME NEW r \in Requests, Admin(r) \/ Serve(r) \/ Abort(r)
      PROVE  Kept'
  BY <1>0, <1>2, OtherRequestsKept, CompleteReadKept, CompleteStoreKept,
     CompleteApplyKept DEF Serve
<1>3. ASSUME NEW r \in Requests, Poll(r) \/ Deliver(r)
      PROVE  Kept'
  BY <1>3, SendsKept
<1>4. ASSUME NEW t \in Tasks, Cleanup(t) \/ DeadlinePasses(t) \/ HeartbeatAges(t)
      PROVE  Kept'
  <2>1. UNCHANGED <<req, runner, pending, made, dropped>>
    BY <1>4 DEF Cleanup, DeadlinePasses, HeartbeatAges, RunnerIdle
  <2> QED
    BY <1>0, <2>1, RowsKept
<1>5. CASE \/ Finish \/ AskCancelled \/ GiveUp \/ Restart
           \/ \E r \in Requests : Answered(r) \/ LoseReply(r)
  BY <1>0, <1>5, ThreadKept
<1> QED
  BY <1>1, <1>2, <1>3, <1>4, <1>5 DEF Next

\* The manager keeps a result as long as its task waits for it, however many
\* deliveries fail, are answered late or are given up, and however often the
\* manager restarts (agent/src/tasks.rs:204-207): only a result that died with
\* the process before it was written, or a failed write, is excepted.
THEOREM ResultsStay == Spec => []ResultKept
<1>1. Init => Typed /\ Lifecycle /\ Kept
  BY InitTyped, InitLifecycle, InitKept
<1>2. Typed /\ Lifecycle /\ Kept /\ [Next]_vars => (Typed /\ Lifecycle /\ Kept)'
  BY NextTyped, NextLives, NextKept
<1>3. Kept => ResultKept
  BY DEF Kept
<1> QED
  BY <1>1, <1>2, <1>3, PTL DEF Spec

-----------------------------------------------------------------------------
(* The task a live thread executes stays its own.  A thread that executes a  *)
(* task is the row's runner, which no instance before it can be; its task    *)
(* has no result yet, and no second answer hands it out: nothing but the     *)
(* deadline, a missing heartbeat or the recovery of an earlier instance's    *)
(* claim can take the row from it.                                           *)

Hands(q, t) == q.op = "reply" /\ q.answer = t
Executes(t) == runner.phase = "execute" /\ runner.task = t

\* A task is at one place: in one answer, with the thread, or it has a result.
OneHolder ==
    \A t \in Tasks :
        /\ \A r, q \in Requests : Hands(req[r], t) /\ Hands(req[q], t) => r = q
        /\ \A r \in Requests : Hands(req[r], t) => t \notin made /\ ~Executes(t)
        /\ Executes(t) => t \notin made

\* Only a task with a result is reported.
ReportsMade ==
    /\ \A r \in Requests : req[r].op \in {"complete", "store"} => req[r].task \in made
    /\ runner.phase = "deliver" => runner.task \in made
    /\ pending # None => pending.task \in made

\* The row of the task the thread executes, or is being handed, is its own.
RunsHere(t) == status[t] = "running" => owner[t] = runner.instance
OwnClaim(q) ==
    \/ q.op \in ClaimOps /\ q.instance = runner.instance
    \/ q.op = "reply" /\ (q.answer \in Tasks => RunsHere(q.answer))
OwnRow ==
    /\ \A r \in Requests : req[r].instance <= runner.instance
    /\ runner.phase = "execute" => RunsHere(runner.task)
    /\ runner.phase = "claim" /\ runner.waiting # None => OwnClaim(req[runner.waiting])

Owned == OneHolder /\ ReportsMade /\ OwnRow

\* A row that was handed out runs on for its runner, or runs no more.
RunsOn ==
    \A t \in Tasks : given[t] > 0 /\ status'[t] = "running" =>
                         status[t] = "running" /\ owner'[t] = owner[t]

LEMMA OwnersStay ==
    ASSUME Typed, Lifecycle, [Next]_vars
    PROVE  RunsOn
<1> SUFFICES ASSUME NEW t \in Tasks, given[t] > 0, status'[t] = "running"
             PROVE  status[t] = "running" /\ owner'[t] = owner[t]
  BY DEF RunsOn
<1>0. status[t] \notin {"absent", "queued"}
  BY DEF Lifecycle, WaitingRowsNotGiven
<1>1. status[t] = "running"
  <2>1. Lives(t)
    BY NextLives
  <2> QED
    BY <1>0, <2>1 DEF Lives, Active, Finished
<1>2. ASSUME NEW r \in Requests, Serve(r)
      PROVE  owner'[t] = owner[t]
  <2>1. CreateInsert(r) \/ CancelQueued(r) \/ CancelRunning(r) => owner' = owner
    BY DEF CreateInsert, CancelQueued, CancelRunning
  <2>2. Expire(r) \/ FailStale(r) \/ Recover(r) => owner' = owner
    BY DEF Expire, FailStale, Recover
  <2>3. ClaimSelect(r) \/ CompleteRead(r) => owner' = owner
    BY DEF ClaimSelect, CompleteRead, worker
  <2>4. CompleteStore(r) \/ CompleteApply(r) => owner' = owner
    BY DEF CompleteStore, CompleteApply
  <2>5. ASSUME Claim(r)
        PROVE  owner'[t] = owner[t]
    <3>1. \/ owner' = owner
          \/ status[req[r].task] = "queued" /\ owner' = [owner EXCEPT ![req[r].task] = req[r].instance]
      BY <2>5 DEF Claim, ClaimCondition
    <3> QED
      BY <1>1, <3>1 DEF Typed, TableOK
  <2> QED
    BY <1>2, <2>1, <2>2, <2>3, <2>4, <2>5 DEF Serve
<1>3. ASSUME NEW u \in Tasks, Cleanup(u)
      PROVE  owner'[t] = owner[t]
  <2>1. u # t
    BY <1>1, <1>3 DEF Cleanup, Finished
  <2>2. owner' = [owner EXCEPT ![u] = None]
    BY <1>3 DEF Cleanup
  <2> QED
    BY <2>1, <2>2 DEF Typed, TableOK
<1>4. ASSUME NEW r \in Requests,
             Admin(r) \/ Abort(r) \/ Poll(r) \/ Deliver(r) \/ Answered(r) \/ LoseReply(r)
      PROVE  owner' = owner
  BY <1>4 DEF Admin, List, CreateCheck, CancelRead, Abort, Poll, Deliver, Answered, LoseReply, worker
<1>5. ASSUME NEW u \in Tasks, DeadlinePasses(u) \/ HeartbeatAges(u)
      PROVE  owner' = owner
  BY <1>5 DEF DeadlinePasses, HeartbeatAges
<1>6. Finish \/ AskCancelled \/ GiveUp \/ Restart \/ UNCHANGED vars => owner' = owner
  BY DEF Finish, AskCancelled, GiveUp, Restart, vars, worker
<1> QED
  BY <1>1, <1>2, <1>3, <1>4, <1>5, <1>6 DEF Next

\* A request's step in the Worker.
LEMMA WorkerOwned ==
    ASSUME Typed, Kept, Owned, RunsOn, RunnerIdle, NEW r \in Requests, NEW x,
           req' = [req EXCEPT ![r] = x], req[r].op # "reply",
           x.op = "reply" /\ x.answer \in Tasks =>
              given[x.answer] = 0 /\ owner'[x.answer] = req[r].instance,
           x.op \in {"complete", "store"} =>
              req[r].op \in {"complete", "store"} /\ x.task = req[r].task,
           x.instance \in {0, req[r].instance},
           req[r].op \in ClaimOps =>
              x.op = "reply" \/ (x.op \in ClaimOps /\ x.instance = req[r].instance)
    PROVE  Owned'
<1>1. /\ req'[r] = x /\ \A q \in Requests \ {r} : req'[q] = req[q]
      /\ UNCHANGED <<runner, pending, faults, made, dropped>>
  BY DEF RunnerIdle, Typed, RequestsOK
<1>2. /\ \A t \in made : given[t] > 0
      /\ runner.phase = "execute" => runner.task \in Tasks /\ given[runner.task] > 0
      /\ \A q \in Requests :
            req[q].op = "reply" /\ req[q].answer \in Tasks => given[req[q].answer] > 0
  BY DEF Kept, HandedOut, Typed, ThreadOK
<1>3. OneHolder'
  <2> SUFFICES ASSUME NEW t \in Tasks
               PROVE  /\ \A p, q \in Requests : Hands(req'[p], t) /\ Hands(req'[q], t) => p = q
                      /\ \A q \in Requests : Hands(req'[q], t) => t \notin made /\ ~Executes(t)
                      /\ Executes(t) => t \notin made
    BY <1>1 DEF OneHolder, Executes
  <2>1. /\ \A p, q \in Requests : Hands(req[p], t) /\ Hands(req[q], t) => p = q
        /\ \A q \in Requests : Hands(req[q], t) => t \notin made /\ ~Executes(t)
        /\ Executes(t) => t \notin made
    BY DEF Owned, OneHolder
  <2>2. Hands(x, t) => /\ t \notin made /\ ~Executes(t)
                       /\ \A q \in Requests : ~Hands(req[q], t)
    BY <1>2 DEF Hands, Executes
  <2> QED
    BY <1>1, <2>1, <2>2
<1>4. ReportsMade'
  <2>1. ASSUME NEW q \in Requests, req'[q].op \in {"complete", "store"}
        PROVE  req'[q].task \in made
    BY <1>1, <2>1 DEF Owned, ReportsMade
  <2> QED
    BY <1>1, <2>1 DEF Owned, ReportsMade
<1>5. OwnRow'
  <2>0. /\ \A q \in Requests : req[q].instance <= runner.instance
        /\ runner.phase = "execute" => RunsHere(runner.task)
        /\ runner.phase = "claim" /\ runner.waiting # None => OwnClaim(req[runner.waiting])
        /\ 0 <= runner.instance /\ runner.waiting \in Requests \cup {None}
    BY DEF Owned, OwnRow, Typed, ThreadOK, RunnerRecord, Instances
  <2>1. \A t \in Tasks : given[t] > 0 /\ RunsHere(t) => RunsHere(t)'
    BY <1>1 DEF RunsOn, RunsHere
  <2>2. runner.phase = "execute" => RunsHere(runner.task)'
    BY <1>1, <1>2, <2>0, <2>1 DEF RunsHere
  <2>3. \A q \in Requests : req'[q].instance <= runner.instance
    BY <1>1, <2>0
  <2>4. ASSUME runner.phase = "claim", runner.waiting # None
        PROVE  OwnClaim(req[runner.waiting])'
    <3>1. PICK w \in Requests : w = runner.waiting /\ OwnClaim(req[w])
      BY <2>0, <2>4
    <3>2. CASE w # r
      <4>1. req'[runner'.waiting] = req[w] /\ runner'.instance = runner.instance
        BY <1>1, <3>1, <3>2
      <4>2. req[w].op = "reply" /\ req[w].answer \in Tasks /\ RunsHere(req[w].answer)
               => RunsHere(req[w].answer)'
        BY <1>1, <1>2 DEF RunsOn, RunsHere
      <4> QED
        BY <3>1, <4>1, <4>2 DEF OwnClaim, RunsHere
    <3>3. CASE w = r
      <4>1. req[r].op \in ClaimOps /\ req[r].instance = runner.instance
        BY <3>1, <3>3 DEF OwnClaim
      <4>2. req'[runner'.waiting] = x /\ runner'.instance = runner.instance
        BY <1>1, <3>1, <3>3
      <4>3. x.op = "reply" \/ (x.op \in ClaimOps /\ x.instance = runner.instance)
        BY <4>1
      <4>4. x.op = "reply" /\ x.answer \in Tasks => owner'[x.answer] = runner.instance
        BY <4>1
      <4> QED
        BY <4>2, <4>3, <4>4 DEF OwnClaim, RunsHere
    <3> QED
      BY <3>2, <3>3
  <2> QED
    BY <1>1, <2>2, <2>3, <2>4 DEF OwnRow
<1> QED
  BY <1>3, <1>4, <1>5 DEF Owned

\* A request is answered with a task only by the claim of it.
LEMMA ReplyOwned ==
    ASSUME Typed, Kept, Owned, RunsOn, RunnerIdle, NEW r \in Requests, NEW a,
           Reply(r, a), req[r].op # "reply",
           a \in Tasks => given[a] = 0 /\ owner'[a] = req[r].instance
    PROVE  Owned'
<1> DEFINE x == [Free EXCEPT !.op = "reply", !.answer = a]
<1>1. req' = [req EXCEPT ![r] = x]
  BY DEF Reply
<1>2. x.op = "reply" /\ x.answer = a /\ x.instance = 0
  BY DEF Free
<1> HIDE DEF x
<1> QED
  BY <1>1, <1>2, WorkerOwned

LEMMA StepOwned ==
    ASSUME Typed, Kept, Owned, RunsOn, RunnerIdle, NEW r \in Requests, NEW op,
           Step(r, op), req[r].op # "reply", op \notin {"reply", "complete", "store"},
           req[r].op \in ClaimOps => op \in ClaimOps
    PROVE  Owned'
<1> DEFINE x == [req[r] EXCEPT !.op = op]
<1>1. req' = [req EXCEPT ![r] = x]
  BY DEF Step, Typed, RequestsOK
<1>2. x.op = op /\ x.instance = req[r].instance
  BY DEF Typed, RequestsOK, RequestRecord
<1> HIDE DEF x
<1> QED
  BY <1>1, <1>2, WorkerOwned

LEMMA StartOwned ==
    ASSUME Typed, Kept, Owned, RunsOn, RunnerIdle, NEW r \in Requests, NEW op, NEW t,
           Start(r, op, t), op \notin {"reply", "complete", "store"}
    PROVE  Owned'
<1> DEFINE x == [req[r] EXCEPT !.op = op, !.task = t]
<1>1. req' = [req EXCEPT ![r] = x]
  BY DEF Start, Typed, RequestsOK
<1>2. x.op = op /\ x.instance = req[r].instance /\ req[r].op = "free"
  BY DEF Start, Free, Typed, RequestsOK, RequestRecord
<1> HIDE DEF x
<1> QED
  BY <1>1, <1>2, WorkerOwned DEF ClaimOps

\* A step that writes rows only.
LEMMA RowsOwned ==
    ASSUME Typed, Kept, Owned, RunsOn, UNCHANGED <<req, runner, pending, made>>
    PROVE  Owned'
<1>1. /\ runner.phase = "execute" => runner.task \in Tasks /\ given[runner.task] > 0
      /\ \A q \in Requests :
            req[q].op = "reply" /\ req[q].answer \in Tasks => given[req[q].answer] > 0
      /\ runner.waiting \in Requests \cup {None}
  BY DEF Kept, HandedOut, Typed, ThreadOK, RunnerRecord
<1>2. OneHolder' /\ ReportsMade'
  BY DEF Owned, OneHolder, ReportsMade, Executes
<1>3. \A t \in Tasks : given[t] > 0 /\ RunsHere(t) => RunsHere(t)'
  BY DEF RunsOn, RunsHere
<1>4. runner.phase = "execute" => RunsHere(runner.task)'
  BY <1>1, <1>3 DEF Owned, OwnRow, RunsHere
<1>5. ASSUME NEW w \in Requests, OwnClaim(req[w])
      PROVE  OwnClaim(req[w])'
  <2>1. req[w].op = "reply" /\ req[w].answer \in Tasks /\ RunsHere(req[w].answer)
           => RunsHere(req[w].answer)'
    BY <1>1 DEF RunsOn, RunsHere
  <2> QED
    BY <1>5, <2>1 DEF OwnClaim, RunsHere
<1>6. OwnRow'
  <2>1. ASSUME runner.phase = "claim", runner.waiting # None
        PROVE  OwnClaim(req[runner.waiting])'
    <3>1. PICK w \in Requests : w = runner.waiting /\ OwnClaim(req[w])
      BY <1>1, <2>1 DEF Owned, OwnRow
    <3>2. OwnClaim(req[w])'
      BY <1>5, <3>1
    <3> QED
      BY <3>1, <3>2 DEF OwnClaim, RunsHere
  <2> QED
    BY <1>4, <2>1 DEF Owned, OwnRow
<1> QED
  BY <1>2, <1>6 DEF Owned

\* A report's two statements: the task it is about has a result.
LEMMA ReportOwned ==
    ASSUME Typed, Kept, Owned, RunsOn, NEW r \in Requests,
           CompleteRead(r) \/ CompleteStore(r) \/ CompleteApply(r)
    PROVE  Owned'
<1>0. /\ RunnerIdle /\ req[r].op \in {"complete", "store", "apply"}
      /\ "ok" \notin Tasks /\ "rejected" \notin Tasks
      /\ req[r] \in RequestRecord /\ req \in [Requests -> RequestRecord]
  BY ConstantsAssumption
     DEF CompleteRead, CompleteStore, CompleteApply, At, Typed, RequestsOK
<1>1. CASE \E a \in {"ok", "rejected"} : Reply(r, a)
  BY <1>0, <1>1, ReplyOwned
<1>2. CASE Step(r, "apply")
  BY <1>0, <1>2, StepOwned DEF ClaimOps
<1>3. ASSUME NEW saw, req[r].op = "complete",
             req' = [req EXCEPT ![r].op = "store", ![r].sawCancel = saw]
      PROVE  Owned'
  <2>1. PICK x : x = [req[r] EXCEPT !.op = "store", !.sawCancel = saw]
    OBVIOUS
  <2>2. req' = [req EXCEPT ![r] = x]
    BY <1>0, <1>3, <2>1
  <2>3. x.op = "store" /\ x.task = req[r].task /\ x.instance = req[r].instance
    BY <1>0, <2>1 DEF RequestRecord
  <2>4. req[r].op \notin ClaimOps /\ req[r].op # "reply"
    BY <1>3 DEF ClaimOps
  <2>5. /\ x.op # "reply" /\ x.instance \in {0, req[r].instance}
        /\ req[r].op \in {"complete", "store"} /\ x.task = req[r].task
    BY <1>3, <2>3
  <2> QED
    BY <1>0, <2>2, <2>4, <2>5, WorkerOwned
<1>4. \/ \E a \in {"ok", "rejected"} : Reply(r, a)
      \/ Step(r, "apply")
      \/ /\ req[r].op = "complete"
         /\ \E saw : req' = [req EXCEPT ![r].op = "store", ![r].sawCancel = saw]
  <2>1. CompleteStore(r) \/ CompleteApply(r) =>
            Reply(r, "ok") \/ Reply(r, "rejected") \/ Step(r, "apply")
    BY DEF CompleteStore, CompleteApply
  <2>2. CompleteRead(r) =>
            \/ Reply(r, "rejected")
            \/ /\ req[r].op = "complete"
               /\ \E saw : req' = [req EXCEPT ![r].op = "store", ![r].sawCancel = saw]
    BY DEF CompleteRead, At
  <2> QED
    BY <2>1, <2>2
<1> QED
  BY <1>1, <1>2, <1>3, <1>4

\* The steps of a claim, and the requests of the administrator.
LEMMA OtherRequestsOwned ==
    ASSUME Typed, Lifecycle, Kept, Owned, RunsOn, NEW r \in Requests,
           \/ Admin(r) \/ CreateInsert(r) \/ CancelQueued(r) \/ CancelRunning(r)
           \/ Expire(r) \/ FailStale(r) \/ Recover(r) \/ ClaimSelect(r) \/ Claim(r)
           \/ Abort(r)
    PROVE  Owned'
<1>0. None \notin Tasks /\ "lost" \notin Tasks
  BY ConstantsAssumption
<1>1. CASE Admin(r)
  <2>1. RunnerIdle /\ \E op \in {"listExpire", "insert", "cancelQueued", "cancelRunning"} :
            \E t \in Tasks \cup {None} : Start(r, op, t)
    BY <1>1 DEF Admin, List, CreateCheck, CancelRead
  <2> QED
    BY <2>1, StartOwned
<1>2. CASE CreateInsert(r) \/ CancelQueued(r) \/ CancelRunning(r)
  <2>1. /\ RunnerIdle /\ Reply(r, None)
        /\ req[r].op \in {"insert", "cancelQueued", "cancelRunning"}
    BY <1>2 DEF CreateInsert, CancelQueued, CancelRunning, At
  <2> QED
    BY <1>0, <2>1, ReplyOwned
<1>3. CASE Expire(r) \/ FailStale(r) \/ Recover(r)
  <2>1. /\ RunnerIdle
        /\ req[r].op \in {"listExpire", "claimExpire", "listStale", "claimStale", "recover"}
        /\ \/ Reply(r, None)
           \/ /\ req[r].op \in ClaimOps
              /\ \E op \in {"claimStale", "recover", "select"} : Step(r, op)
           \/ req[r].op = "listExpire" /\ Step(r, "listStale")
    BY <1>3 DEF Expire, FailStale, Recover, At, ClaimOps
  <2>2. CASE Reply(r, None)
    BY <1>0, <2>1, <2>2, ReplyOwned
  <2>3. ASSUME NEW op \in {"claimStale", "recover", "select"}, Step(r, op)
        PROVE  Owned'
    BY <2>1, <2>3, StepOwned DEF ClaimOps
  <2>4. CASE req[r].op = "listExpire" /\ Step(r, "listStale")
    BY <2>1, <2>4, StepOwned DEF ClaimOps
  <2> QED
    BY <2>1, <2>2, <2>3, <2>4
<1>4. CASE ClaimSelect(r)
  <2>1. /\ RunnerIdle /\ req[r].op = "select"
        /\ \/ Reply(r, None)
           \/ \E t \in Tasks : req' = [req EXCEPT ![r].op = "claim", ![r].task = t]
    BY <1>4 DEF ClaimSelect, At
  <2>2. ASSUME NEW t \in Tasks, req' = [req EXCEPT ![r].op = "claim", ![r].task = t]
        PROVE  Owned'
    <3>1. PICK x : x = [req[r] EXCEPT !.op = "claim", !.task = t]
      OBVIOUS
    <3>2. req' = [req EXCEPT ![r] = x]
      BY <2>2, <3>1 DEF Typed, RequestsOK
    <3>3. x.op = "claim" /\ x.instance = req[r].instance
      BY <3>1 DEF Typed, RequestsOK, RequestRecord
    <3>4. x.op \in ClaimOps
      BY <3>3 DEF ClaimOps
    <3> QED
      BY <2>1, <3>2, <3>3, <3>4, WorkerOwned
  <2> QED
    BY <1>0, <2>1, <2>2, ReplyOwned
<1>5. CASE Claim(r)
  <2>t. PICK t \in Tasks : t = req[r].task
    BY <1>5 DEF Claim, At, Typed, RequestsOK, NamesRow, RowOps
  <2>1. /\ RunnerIdle /\ req[r].op = "claim"
        /\ \/ Reply(r, None)
           \/ /\ Reply(r, t) /\ status[t] = "queued"
              /\ owner' = [owner EXCEPT ![t] = req[r].instance]
    BY <1>5, <2>t DEF Claim, ClaimCondition, At
  <2>2. CASE Reply(r, t) /\ status[t] = "queued"
             /\ owner' = [owner EXCEPT ![t] = req[r].instance]
    <3>1. given[t] = 0
      BY <2>2 DEF Lifecycle, WaitingRowsNotGiven
    <3>2. owner'[t] = req[r].instance
      BY <2>2 DEF Typed, TableOK
    <3> QED
      BY <2>1, <2>2, <3>1, <3>2, ReplyOwned
  <2> QED
    BY <1>0, <2>1, <2>2, ReplyOwned
<1>6. CASE Abort(r)
  <2>1. RunnerIdle /\ Reply(r, "lost") /\ req[r].op # "reply"
    BY <1>6 DEF Abort
  <2> QED
    BY <1>0, <2>1, ReplyOwned
<1> QED
  BY <1>1, <1>2, <1>3, <1>4, <1>5, <1>6

\* What the thread makes of an answer: only a claim's answer hands it a task,
\* and that answer is used up.
LEMMA HearOwned ==
    ASSUME Typed, Kept, Owned, NEW a, Hear(a), UNCHANGED <<worker, made>>,
           a \in Tasks /\ runner.phase = "claim" =>
              /\ RunsHere(a) /\ a \notin made
              /\ \A q \in Requests : ~Hands(req'[q], a),
           \A q \in Requests : req'[q] = req[q] \/ req'[q] = Free
    PROVE  Owned'
<1>0. /\ runner \in RunnerRecord /\ None \notin Tasks /\ UNCHANGED <<status, owner, made>>
      /\ 0 <= runner.instance
  BY ConstantsAssumption DEF Typed, ThreadOK, RunnerRecord, Instances, worker
<1>1. /\ runner'.instance = runner.instance /\ runner'.waiting = None
      /\ \/ runner'.phase = "sleep"
         \/ /\ runner.phase = "claim" /\ a \in Tasks
            /\ runner'.phase = "execute" /\ runner'.task = a
         \/ /\ runner.phase = "deliver" /\ runner'.phase = "deliver"
            /\ runner'.task = runner.task
      /\ \/ pending' = pending \/ pending' = None
         \/ runner.phase = "deliver" /\ pending'.task = runner.task
  <2>1. CASE HearFlush(a)
    BY <2>1 DEF HearFlush, Asleep
  <2>2. CASE HearClaim(a)
    <3>1. CASE a \in Tasks
      BY <1>0, <2>2, <3>1 DEF HearClaim, RunnerRecord
    <3>2. CASE a \notin Tasks
      BY <2>2, <3>2 DEF HearClaim, Asleep
    <3> QED
      BY <3>1, <3>2
  <2>3. CASE HearDeliver(a)
    <3>1. CASE a # "ok" /\ MayRetry
      BY <1>0, <2>3, <3>1 DEF HearDeliver, RunnerRecord
    <3>2. CASE a = "ok" \/ ~MayRetry
      BY <2>3, <3>2 DEF HearDeliver, Asleep
    <3> QED
      BY <3>1, <3>2
  <2> QED
    BY <2>1, <2>2, <2>3 DEF Hear
<1>2. OneHolder'
  <2> SUFFICES ASSUME NEW t \in Tasks
               PROVE  /\ \A p, q \in Requests : Hands(req'[p], t) /\ Hands(req'[q], t) => p = q
                      /\ \A q \in Requests : Hands(req'[q], t) => t \notin made /\ ~Executes(t)'
                      /\ Executes(t)' => t \notin made
    BY <1>0 DEF OneHolder
  <2>1. /\ \A p, q \in Requests : Hands(req[p], t) /\ Hands(req[q], t) => p = q
        /\ \A q \in Requests : Hands(req[q], t) => t \notin made
    BY DEF Owned, OneHolder
  <2>2. \A q \in Requests : Hands(req'[q], t) => Hands(req[q], t)
    BY DEF Hands, Free
  <2>3. Executes(t)' => /\ t \notin made
                        /\ \A q \in Requests : ~Hands(req'[q], t)
    BY <1>1 DEF Executes
  <2> QED
    BY <2>1, <2>2, <2>3
<1>3. ReportsMade'
  <2>1. \A q \in Requests : req'[q].op \in {"complete", "store"} => req'[q] = req[q]
    BY DEF Free
  <2> QED
    BY <1>1, <2>1 DEF Owned, ReportsMade
<1>4. OwnRow'
  <2>1. ASSUME NEW q \in Requests
        PROVE  req'[q].instance <= runner'.instance
    <3>1. req[q].instance <= runner.instance /\ Free.instance = 0
      BY DEF Owned, OwnRow, Free
    <3> QED
      BY <1>0, <1>1, <3>1
  <2>2. runner'.phase = "execute" => RunsHere(runner.task)'
    BY <1>0, <1>1 DEF RunsHere
  <2> QED
    BY <1>1, <2>1, <2>2 DEF OwnRow
<1> QED
  BY <1>2, <1>3, <1>4 DEF Owned

\* The thread sends a request: as its instance, and about a task with a result.
LEMMA SendOwned ==
    ASSUME Typed, Kept, Owned, NEW r \in Requests, NEW op, NEW t, NEW ok,
           Send(r, op, t, ok), op # "reply",
           UNCHANGED <<worker, pending, faults, made, dropped>>,
           op \in {"complete", "store"} => t \in made,
           runner'.instance = runner.instance, runner'.task = runner.task,
           runner'.phase # "execute",
           runner'.phase = "deliver" => runner.phase = "deliver",
           runner'.phase = "claim" => runner'.waiting = r /\ op \in ClaimOps
    PROVE  Owned'
<1>1. PICK x : x = [Free EXCEPT !.op = op, !.task = t, !.ok = ok, !.instance = runner.instance]
  OBVIOUS
<1>2. req' = [req EXCEPT ![r] = x]
  BY <1>1 DEF Send
<1>3. x.op = op /\ x.task = t /\ x.instance = runner.instance
  BY <1>1 DEF Free
<1>4. /\ req'[r] = x /\ \A q \in Requests \ {r} : req'[q] = req[q]
      /\ UNCHANGED <<status, owner, made, pending>>
  BY <1>2 DEF Typed, RequestsOK, worker
<1>5. runner.instance <= runner.instance
  BY DEF Typed, ThreadOK, RunnerRecord, Instances
<1>6. OneHolder'
  <2>1. \A q \in Requests, u \in Tasks : Hands(req'[q], u) => Hands(req[q], u)
    BY <1>3, <1>4 DEF Hands
  <2>2. \A u \in Tasks : ~Executes(u)'
    BY DEF Executes
  <2> QED
    BY <1>4, <2>1, <2>2 DEF Owned, OneHolder
<1>7. ReportsMade'
  <2>1. \A q \in Requests : req'[q].op \in {"complete", "store"} => req'[q].task \in made
    BY <1>3, <1>4 DEF Owned, ReportsMade
  <2> QED
    BY <1>4, <2>1 DEF Owned, ReportsMade
<1>8. OwnRow'
  <2>1. \A q \in Requests : req'[q].instance <= runner'.instance
    BY <1>3, <1>4, <1>5 DEF Owned, OwnRow
  <2>2. runner'.phase = "claim" => OwnClaim(req[runner.waiting])'
    BY <1>3, <1>4 DEF OwnClaim
  <2> QED
    BY <2>1, <2>2 DEF OwnRow
<1> QED
  BY <1>6, <1>7, <1>8 DEF Owned

\* A task ends in the thread: what was executed has a result from now on.
LEMMA ResultOwned ==
    ASSUME Typed, Kept, Owned, NEW ok, runner.phase = "execute",
           runner' = [runner EXCEPT !.phase = "deliver", !.ok = ok],
           made' = made \cup {runner.task},
           UNCHANGED <<status, owner, req, pending>>
    PROVE  Owned'
<1>1. /\ runner'.phase = "deliver" /\ runner'.task = runner.task
      /\ runner'.instance = runner.instance
  BY DEF Typed, ThreadOK, RunnerRecord
<1>2. OneHolder'
  <2>1. \A t \in Tasks : ~Executes(t)'
    BY <1>1 DEF Executes
  <2>2. \A q \in Requests, t \in Tasks : Hands(req[q], t) => t \notin made /\ t # runner.task
    BY DEF Owned, OneHolder, Executes
  <2> QED
    BY <2>1, <2>2 DEF Owned, OneHolder
<1>3. ReportsMade' /\ OwnRow'
  BY <1>1 DEF Owned, ReportsMade, OwnRow
<1> QED
  BY <1>2, <1>3 DEF Owned

LEMMA PollOwned ==
    ASSUME Typed, Kept, Owned, NEW r \in Requests, Poll(r)
    PROVE  Owned'
<1>0. runner \in RunnerRecord
  BY DEF Typed, ThreadOK
<1>1. /\ runner.phase = "sleep" /\ UNCHANGED <<worker, pending, faults, made, dropped>>
      /\ runner'.instance = runner.instance /\ runner'.task = runner.task
  BY <1>0 DEF Poll, RunnerRecord
<1>2. CASE pending # None
  <2>1. Send(r, "complete", pending.task, pending.ok) /\ runner'.phase = "flush"
    BY <1>0, <1>2 DEF Poll, RunnerRecord
  <2>2. pending.task \in made
    BY <1>2 DEF Owned, ReportsMade
  <2> QED
    BY <1>1, <2>1, <2>2, SendOwned
<1>3. CASE pending = None
  <2>1. /\ Send(r, "claimExpire", None, FALSE)
        /\ runner' = [runner EXCEPT !.phase = "claim", !.waiting = r]
    BY <1>3, Zenon DEF Poll
  <2>2. runner'.phase = "claim" /\ runner'.waiting = r
    BY <1>0, <2>1 DEF RunnerRecord
  <2>3. "claimExpire" \in ClaimOps
    BY DEF ClaimOps
  <2> QED
    BY <1>1, <2>1, <2>2, <2>3, SendOwned
<1> QED
  BY <1>2, <1>3, Zenon

LEMMA DeliverOwned ==
    ASSUME Typed, Kept, Owned, NEW r \in Requests, Deliver(r)
    PROVE  Owned'
<1>0. runner \in RunnerRecord
  BY DEF Typed, ThreadOK
<1>1. /\ runner.phase = "deliver" /\ Send(r, "complete", runner.task, runner.ok)
      /\ UNCHANGED <<worker, pending, faults, made, dropped>>
  BY DEF Deliver
<1>2. /\ runner'.instance = runner.instance /\ runner'.task = runner.task
      /\ runner'.phase = "deliver"
  BY <1>0 DEF Deliver, RunnerRecord
<1>3. runner.task \in made
  BY <1>1 DEF Owned, ReportsMade
<1> QED
  BY <1>1, <1>2, <1>3, SendOwned

LEMMA ThreadOwned ==
    ASSUME Typed, Kept, Owned, RunsOn,
           \/ Finish \/ AskCancelled \/ GiveUp \/ Restart
           \/ \E r \in Requests : Poll(r) \/ Deliver(r) \/ Answered(r) \/ LoseReply(r)
    PROVE  Owned'
<1>0. /\ "lost" \notin Tasks /\ None \notin Requests
      /\ runner \in RunnerRecord /\ req \in [Requests -> RequestRecord]
  BY ConstantsAssumption DEF Typed, ThreadOK, RequestsOK
<1>1. CASE Finish
  <2>1. PICK ok \in BOOLEAN : runner' = [runner EXCEPT !.phase = "deliver", !.ok = ok]
    BY <1>1 DEF Finish
  <2>2. /\ runner.phase = "execute" /\ made' = made \cup {runner.task}
        /\ UNCHANGED <<status, owner, req, pending>>
    BY <1>1 DEF Finish, worker
  <2> QED
    BY <2>1, <2>2, ResultOwned
<1>2. CASE AskCancelled
  <2>1. CASE UNCHANGED <<runner, made>>
    BY <1>2, <2>1, RowsOwned DEF AskCancelled
  <2>2. CASE ~UNCHANGED <<runner, made>>
    <3>1. /\ runner.phase = "execute"
          /\ runner' = [runner EXCEPT !.phase = "deliver", !.ok = FALSE]
          /\ made' = made \cup {runner.task}
          /\ UNCHANGED <<status, owner, req, pending>>
      BY <1>2, <2>2 DEF AskCancelled
    <3> QED
      BY <3>1, ResultOwned
  <2> QED
    BY <2>1, <2>2
<1>3. CASE GiveUp
  <2>1. Hear("lost") /\ UNCHANGED <<worker, made>> /\ \A q \in Requests : req'[q] = req[q]
    BY <1>3 DEF GiveUp
  <2> QED
    BY <1>0, <2>1, HearOwned
<1>4. CASE Restart
  <2>1. PICK i \in {runner.instance, runner.instance + 1} : runner' = Asleep(i)
    BY <1>4 DEF Restart
  <2>2. runner'.phase = "sleep" /\ runner'.instance = i
    BY <2>1 DEF Asleep
  <2>3. UNCHANGED <<status, owner, req, pending, made>>
    BY <1>4 DEF Restart, worker
  <2>4. OneHolder' /\ ReportsMade'
    BY <2>2, <2>3 DEF Owned, OneHolder, ReportsMade, Executes
  <2>5. OwnRow'
    <3>1. ASSUME NEW q \in Requests
          PROVE  req[q].instance <= i
      <4>1. req[q].instance <= runner.instance
        BY DEF Owned, OwnRow
      <4>2. req[q].instance \in Nat /\ runner.instance \in Nat
        BY <1>0, ConstantsAssumption DEF RunnerRecord, RequestRecord, Instances
      <4> QED
        BY <2>1, <4>1, <4>2
    <3> QED
      BY <2>2, <2>3, <3>1 DEF OwnRow
  <2> QED
    BY <2>4, <2>5 DEF Owned
<1>5. ASSUME NEW r \in Requests, Poll(r) \/ Deliver(r)
      PROVE  Owned'
  BY <1>5, PollOwned, DeliverOwned
<1>6. ASSUME NEW r \in Requests, Answered(r)
      PROVE  Owned'
  <2>1. /\ Hear(req[r].answer) /\ UNCHANGED <<worker, made>>
        /\ req[r].op = "reply" /\ runner.waiting = r
        /\ req' = [req EXCEPT ![r] = Free]
        /\ \A q \in Requests : req'[q] = req[q] \/ req'[q] = Free
    BY <1>6 DEF Answered, At, Typed, RequestsOK
  <2>2. PICK a : a = req[r].answer
    OBVIOUS
  <2>3. ASSUME a \in Tasks, runner.phase = "claim"
        PROVE  /\ RunsHere(a) /\ a \notin made
               /\ \A q \in Requests : ~Hands(req'[q], a)
    <3>1. RunsHere(a)
      BY <1>0, <2>1, <2>2, <2>3 DEF Owned, OwnRow, OwnClaim, ClaimOps
    <3>2. Hands(req[r], a)
      BY <2>1, <2>2 DEF Hands
    <3>3. a \notin made /\ \A q \in Requests : Hands(req[q], a) => q = r
      BY <2>3, <3>2 DEF Owned, OneHolder
    <3>4. ASSUME NEW q \in Requests, Hands(req'[q], a)
          PROVE  FALSE
      <4>1. req'[q].op = "reply" /\ Free.op = "free"
        BY <3>4 DEF Hands, Free
      <4>2. q # r
        BY <1>0, <2>1, <4>1
      <4> QED
        BY <1>0, <2>1, <3>3, <3>4, <4>2
    <3> QED
      BY <3>1, <3>3, <3>4
  <2> QED
    BY <2>1, <2>2, <2>3, HearOwned
<1>7. ASSUME NEW r \in Requests, LoseReply(r)
      PROVE  Owned'
  <2>1. /\ UNCHANGED <<worker, made>> /\ req' = [req EXCEPT ![r] = Free]
        /\ req[r].op = "reply"
        /\ \A q \in Requests : req'[q] = req[q] \/ req'[q] = Free
    BY <1>7 DEF LoseReply, At, Typed, RequestsOK
  <2>2. CASE Hear("lost")
    BY <1>0, <2>1, <2>2, HearOwned
  <2>3. CASE runner.waiting # r /\ UNCHANGED <<runner, pending, dropped>>
    <3>1. UNCHANGED <<status, owner, made, runner, pending>> /\ Free.instance = 0
      BY <2>1, <2>3 DEF worker, Free
    <3>2. \A q \in Requests : req'[q].op # "free" => req'[q] = req[q]
      BY <2>1 DEF Free
    <3>3. OneHolder' /\ ReportsMade'
      BY <3>1, <3>2 DEF Owned, OneHolder, ReportsMade, Executes, Hands
    <3>4. \A q \in Requests : req'[q].instance <= runner.instance
      <4>1. 0 <= runner.instance
        BY <1>0 DEF RunnerRecord, Instances
      <4> QED
        BY <2>1, <3>1, <4>1 DEF Owned, OwnRow
    <3>5. runner.phase = "claim" /\ runner.waiting # None => OwnClaim(req[runner.waiting])'
      <4>1. runner.waiting # None => req'[runner.waiting] = req[runner.waiting]
        BY <1>0, <2>1, <2>3 DEF RunnerRecord
      <4> QED
        BY <3>1, <4>1 DEF Owned, OwnRow, OwnClaim, RunsHere
    <3>6. runner.phase = "execute" => RunsHere(runner.task)'
      BY <3>1 DEF Owned, OwnRow, RunsHere
    <3>7. OwnRow'
      BY <3>1, <3>4, <3>5, <3>6 DEF OwnRow
    <3> QED
      BY <3>3, <3>7 DEF Owned
  <2> QED
    BY <1>7, <2>2, <2>3 DEF LoseReply
<1> QED
  BY <1>1, <1>2, <1>3, <1>4, <1>5, <1>6, <1>7

LEMMA InitOwned == Init => Owned
<1> SUFFICES ASSUME Init PROVE Owned
  OBVIOUS
<1>1. /\ \A r \in Requests : req[r].op = "free" /\ req[r].instance = 0
      /\ runner.phase = "sleep" /\ runner.instance = 1 /\ pending = None
  BY DEF Init, Free, Asleep
<1> QED
  BY <1>1 DEF Owned, OneHolder, ReportsMade, OwnRow, Hands, Executes

LEMMA NextOwned ==
    ASSUME Typed, Lifecycle, Kept, Owned, [Next]_vars
    PROVE  Owned'
<1>0. RunsOn
  BY OwnersStay
<1>1. CASE UNCHANGED vars
  BY <1>0, <1>1, RowsOwned DEF vars
<1>2. ASSUME NEW r \in Requests, Admin(r) \/ Serve(r) \/ Abort(r)
      PROVE  Owned'
  BY <1>0, <1>2, OtherRequestsOwned, ReportOwned DEF Serve
<1>3. ASSUME NEW t \in Tasks, Cleanup(t) \/ DeadlinePasses(t) \/ HeartbeatAges(t)
      PROVE  Owned'
  <2>1. UNCHANGED <<req, runner, pending, made>>
    BY <1>3 DEF Cleanup, DeadlinePasses, HeartbeatAges, RunnerIdle
  <2> QED
    BY <1>0, <2>1, RowsOwned
<1>4. CASE \/ Finish \/ AskCancelled \/ GiveUp \/ Restart
           \/ \E r \in Requests : Poll(r) \/ Deliver(r) \/ Answered(r) \/ LoseReply(r)
  BY <1>0, <1>4, ThreadOwned
<1> QED
  BY <1>1, <1>2, <1>3, <1>4 DEF Next

\* Who ends the row a thread executes the task of.
Raced(t) ==
    \/ t \in lapsed \cup quiet
    \/ \E r \in Requests : At(r, "recover") /\ req[r].instance < runner.instance

LEMMA OnlyRacesTake ==
    ASSUME Typed, Lifecycle, Owned, NEW t \in Tasks, Executes(t),
           status[t] = "running", status'[t] # "running", [Next]_vars
    PROVE  Raced(t)
<1>0. /\ t \notin made /\ owner[t] = runner.instance
      /\ runner.instance \in Nat
  BY DEF Owned, OneHolder, OwnRow, RunsHere, Executes, Typed, ThreadOK, RunnerRecord, Instances
<1>1. ASSUME NEW r \in Requests, Serve(r)
      PROVE  Raced(t)
  <2>1. CASE CreateInsert(r)
    <3>1. status[req[r].task] = "absent"
      BY <2>1 DEF CreateInsert, At, Lifecycle, FreshRows
    <3>2. status' \in {status, [status EXCEPT ![req[r].task] = "queued"]}
      BY <2>1 DEF CreateInsert
    <3> QED
      BY <3>1, <3>2 DEF Typed, TableOK
  <2>2. CASE CancelQueued(r)
    <3>1. \/ status' = status
          \/ status[req[r].task] = "queued" /\ status' = [status EXCEPT ![req[r].task] = "cancelled"]
      BY <2>2 DEF CancelQueued
    <3> QED
      BY <3>1 DEF Typed, TableOK
  <2>3. CASE Expire(r)
    BY <2>3 DEF Expire, End, Overdue, Raced
  <2>4. CASE FailStale(r)
    BY <2>4 DEF FailStale, End, Raced
  <2>5. CASE Recover(r)
    <3>1. t \in Orphans(req[r].instance)
      BY <2>5 DEF Recover, End
    <3>2. owner[t] # req[r].instance
      BY <3>1 DEF Orphans
    <3>3. req[r].instance \in Nat /\ req[r].instance <= runner.instance
      BY DEF Owned, OwnRow, Typed, RequestsOK, RequestRecord, Instances
    <3>4. req[r].instance < runner.instance
      BY <1>0, <3>2, <3>3
    <3> QED
      BY <2>5, <3>4 DEF Raced, Recover
  <2>6. CASE Claim(r)
    <3>1. \/ status' = status
          \/ status' = [status EXCEPT ![req[r].task] = "running"]
      BY <2>6 DEF Claim
    <3> QED
      BY <3>1 DEF Typed, TableOK
  <2>7. CASE CompleteStore(r)
    <3>1. req[r].task \in made
      BY <2>7 DEF CompleteStore, At, Owned, ReportsMade
    <3>2. \/ status' = status
          \/ \E final : status' = [status EXCEPT ![req[r].task] = final]
      BY <2>7 DEF CompleteStore
    <3> QED
      BY <1>0, <3>1, <3>2 DEF Typed, TableOK
  <2>8. CASE CancelRunning(r) \/ ClaimSelect(r) \/ CompleteRead(r) \/ CompleteApply(r)
    BY <2>8 DEF CancelRunning, ClaimSelect, CompleteRead, CompleteApply, worker
  <2> QED
    BY <1>1, <2>1, <2>2, <2>3, <2>4, <2>5, <2>6, <2>7, <2>8 DEF Serve
<1>2. ASSUME NEW u \in Tasks, Cleanup(u)
      PROVE  FALSE
  <2>1. u # t /\ status' = [status EXCEPT ![u] = "deleted"]
    BY <1>2 DEF Cleanup, Finished
  <2> QED
    BY <2>1 DEF Typed, TableOK
<1>3. ASSUME NEW r \in Requests,
             Admin(r) \/ Abort(r) \/ Poll(r) \/ Deliver(r) \/ Answered(r) \/ LoseReply(r)
      PROVE  status' = status
  BY <1>3 DEF Admin, List, CreateCheck, CancelRead, Abort, Poll, Deliver, Answered, LoseReply, worker
<1>4. ASSUME NEW u \in Tasks, DeadlinePasses(u) \/ HeartbeatAges(u)
      PROVE  status' = status
  BY <1>4 DEF DeadlinePasses, HeartbeatAges
<1>5. Finish \/ AskCancelled \/ GiveUp \/ Restart \/ UNCHANGED vars => status' = status
  BY DEF Finish, AskCancelled, GiveUp, Restart, vars, worker
<1> QED
  BY <1>1, <1>2, <1>3, <1>4, <1>5 DEF Next

\* The task a live thread executes is taken from it only by its deadline, by
\* the lack of heartbeats (agent-tasks.js:562-581) or by the recovery an
\* earlier instance's claim had under way (agent-tasks.js:611-616): no other
\* claim, no late report and no stop ends its row.
THEOREM TasksAreTakenOnlyIfRaced == Spec => TakenOnlyIfRaced
<1> DEFINE Safe == Typed /\ Lifecycle /\ Kept /\ Owned
<1> DEFINE Takes ==
        \A t \in Tasks :
           (/\ runner.phase = "execute" /\ runner.task = t
            /\ status[t] = "running" /\ status'[t] # "running")
           => \/ t \in lapsed \cup quiet
              \/ \E r \in Requests :
                     At(r, "recover") /\ req[r].instance < runner.instance
<1>1. Init => Safe
  BY InitTyped, InitLifecycle, InitKept, InitOwned
<1>2. Safe /\ [Next]_vars => Safe'
  BY NextTyped, NextLives, NextKept, NextOwned
<1>3. Safe /\ [Next]_vars => [Takes]_vars
  BY OnlyRacesTake DEF Executes, Raced
<1>4. Spec => [][Takes]_vars
  <2> HIDE DEF Safe, Takes
  <2> QED
    BY <1>1, <1>2, <1>3, PTL DEF Spec
<1> QED
  BY <1>4 DEF TakenOnlyIfRaced

=============================================================================
