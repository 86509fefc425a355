----------------------------- MODULE AgentTasks -----------------------------
(* Tasks the administrator queues for one VPS: the table agent_tasks in D1,  *)
(* the Worker's handlers over it (worker/src/admin/agent-tasks.js), and the  *)
(* manager's task thread that claims a task, executes it and reports the     *)
(* result (agent/src/tasks.rs).                                              *)
(*                                                                           *)
(* Every SQL statement is atomic and every `await` between two statements of *)
(* a handler lets other requests in.  A request the manager stopped waiting  *)
(* for goes on in the Worker.  Time is two facts about a task: its           *)
(* expires_at has passed (`lapsed`), its last heartbeat is 30 minutes old    *)
(* (`quiet`).                                                                *)
EXTENDS Naturals

CONSTANTS
    Tasks,        \* the ids of the tasks (UUIDs, never used again)
    Requests,     \* requests the Worker can be serving at a time
    Attempts,     \* deliveries of a result tried before it goes to the disk
    MaxFaults,    \* bound: restarts, panics and timeouts of the manager
    None

ASSUME ConstantsAssumption ==
    /\ Attempts \in Nat \ {0}
    /\ MaxFaults \in Nat
    /\ None \notin Tasks \cup Requests
    /\ Tasks \cap {"ok", "rejected", "lost"} = {}
    /\ None \notin {"ok", "rejected", "lost"}
    /\ None \notin [task : Tasks, ok : BOOLEAN]

VARIABLES
    status,     \* status of each row; "absent" before it, "deleted" after it
    cancelled,  \* rows with a cancel_requested_at
    owner,      \* runner_instance_id of each row
    lapsed,     \* active rows whose expires_at is not after now
    quiet,      \* running rows whose last heartbeat is RUNNER_STALE_SEC old
    target,     \* the task whose result the row of `targets` shows
    req,        \* the requests being served
    runner,     \* the manager's task thread
    pending,    \* pending-task-result.json
    faults,     \* restarts, panics and timeouts so far
    given,      \* history: how often a task was handed to a manager
    made,       \* history: tasks the manager has a result for
    dropped     \* history: results that died with a process or a failed write

worker == <<status, cancelled, owner, lapsed, quiet, target, given>>
vars == <<worker, req, runner, pending, faults, made, dropped>>

Active    == {"queued", "running"}
Finished  == {"succeeded", "failed", "expired", "cancelled"}
Instances == 1..(MaxFaults + 1)
Results   == [task : Tasks, ok : BOOLEAN]
Free      == [op |-> "free", task |-> None, ok |-> FALSE, instance |-> 0,
              sawCancel |-> FALSE, answer |-> None]

\* The row's final status when something other than a report ends it.
Ended(t, otherwise) == IF t \in cancelled THEN "cancelled" ELSE otherwise

\* Rows in ts end, each with its own status.
End(ts, otherwise) ==
    status' = [t \in Tasks |-> IF t \in ts THEN Ended(t, otherwise)
                                           ELSE status[t]]

Asleep(i) == [phase |-> "sleep", task |-> None, ok |-> FALSE, attempt |-> 0,
              waiting |-> None, instance |-> i]

Init ==
    /\ status = [t \in Tasks |-> "absent"]
    /\ cancelled = {} /\ lapsed = {} /\ quiet = {}
    /\ owner = [t \in Tasks |-> None]
    /\ target = None
    /\ req = [r \in Requests |-> Free]
    /\ runner = Asleep(1)
    /\ pending = None /\ faults = 0
    /\ given = [t \in Tasks |-> 0]
    /\ made = {} /\ dropped = {}

-----------------------------------------------------------------------------
(* The Worker's handlers.  req[r].op names the next step of request r.       *)

Start(r, op, t) ==
    /\ req[r] = Free
    /\ req' = [req EXCEPT ![r].op = op, ![r].task = t]
Step(r, op)  == req' = [req EXCEPT ![r].op = op]
Reply(r, a)  == req' = [req EXCEPT ![r] = [Free EXCEPT !.op = "reply",
                                                          !.answer = a]]
\* An ended row's deadline and heartbeat matter no more.
Ages == /\ lapsed' = {t \in lapsed : status'[t] \in Active}
        /\ quiet'  = {t \in quiet : status'[t] = "running"}
At(r, op)    == req[r].op = op
RunnerIdle   == UNCHANGED <<runner, pending, faults, made, dropped>>

\* createAgentTaskForAgent: look for an active task, then insert; the unique
\* index idx_agent_tasks_one_active rejects a second active row.
CreateCheck(r, t) ==
    /\ status[t] = "absent"
    /\ \A u \in Tasks : status[u] \notin Active
    /\ \A q \in Requests : req[q].task # t
    /\ Start(r, "insert", t)
    /\ UNCHANGED worker /\ RunnerIdle

IndexAllowsAny(t) == TRUE
IndexAllows(t) == \A u \in Tasks \ {t} : status[u] \notin Active

CreateInsert(r) ==
    /\ At(r, "insert")
    /\ LET t == req[r].task
       IN  status' = IF IndexAllows(t) THEN [status EXCEPT ![t] = "queued"]
                     ELSE status
    /\ Reply(r, None)
    /\ UNCHANGED <<cancelled, owner, lapsed, quiet, target, given>> /\ RunnerIdle

\* cancelAgentTask: the row as read decides which statement follows.
CancelRead(r, t) ==
    /\ status[t] \in Active
    /\ Start(r, IF status[t] = "queued" THEN "cancelQueued" ELSE "cancelRunning", t)
    /\ UNCHANGED worker /\ RunnerIdle

CancelQueued(r) ==
    /\ At(r, "cancelQueued")
    /\ LET t == req[r].task
       IN  IF status[t] = "queued"
           THEN /\ status' = [status EXCEPT ![t] = "cancelled"]
                /\ cancelled' = cancelled \cup {t}
           ELSE UNCHANGED <<status, cancelled>>
    /\ Reply(r, None)
    /\ UNCHANGED <<owner, target, given>> /\ Ages /\ RunnerIdle

CancelRunning(r) ==
    /\ At(r, "cancelRunning")
    /\ LET t == req[r].task
       IN  cancelled' = IF status[t] = "running" THEN cancelled \cup {t}
                        ELSE cancelled
    /\ Reply(r, None)
    /\ UNCHANGED <<status, owner, lapsed, quiet, target, given>> /\ RunnerIdle

\* listAgentTasks and claimAgentTask both begin with expireStaleTasks: first
\* the rows past expires_at, then the running rows without a heartbeat.
List(r) ==
    /\ Start(r, "listExpire", None)
    /\ UNCHANGED worker /\ RunnerIdle

OverdueQueued == {t \in lapsed : status[t] = "queued"}
Overdue == lapsed

Expire(r) ==
    /\ req[r].op \in {"listExpire", "claimExpire"}
    /\ End(Overdue, "expired")
    /\ Step(r, IF At(r, "listExpire") THEN "listStale" ELSE "claimStale")
    /\ UNCHANGED <<cancelled, owner, target, given>> /\ Ages /\ RunnerIdle

FailStale(r) ==
    /\ req[r].op \in {"listStale", "claimStale"}
    /\ End(quiet, "failed")
    /\ IF At(r, "listStale") THEN Reply(r, None) ELSE Step(r, "recover")
    /\ UNCHANGED <<cancelled, owner, target, given>> /\ Ages /\ RunnerIdle

\* recoverOrphanedRunningTasks: rows that run for another instance.
OrphansFinished(i) == {t \in Tasks : owner[t] \notin {None, i}}
OrphansOfAnyone(i) == {t \in Tasks : status[t] = "running" /\ owner[t] # None}
Orphans(i) == {t \in Tasks : status[t] = "running" /\ owner[t] \notin {None, i}}

Recover(r) ==
    /\ At(r, "recover")
    /\ End(Orphans(req[r].instance), "failed")
    /\ Step(r, "select")
    /\ UNCHANGED <<cancelled, owner, target, given>> /\ Ages /\ RunnerIdle

ClaimSelect(r) ==
    /\ At(r, "select")
    /\ LET waiting == {t \in Tasks \ lapsed : status[t] = "queued"}
       IN  IF waiting = {} THEN Reply(r, None)
           ELSE \E t \in waiting :
                    req' = [req EXCEPT ![r].op = "claim", ![r].task = t]
    /\ UNCHANGED worker /\ RunnerIdle

ClaimConditionDropped(t) == TRUE
ClaimCondition(t) == status[t] = "queued"

Claim(r) ==
    /\ At(r, "claim")
    /\ LET t == req[r].task
       IN  IF ClaimCondition(t)
           THEN /\ status' = [status EXCEPT ![t] = "running"]
                /\ owner' = [owner EXCEPT ![t] = req[r].instance]
                /\ quiet' = quiet \ {t}
                /\ given' = [given EXCEPT ![t] = @ + 1]
                /\ Reply(r, t)
           ELSE /\ Reply(r, None)
                /\ UNCHANGED <<status, owner, quiet, given>>
    /\ UNCHANGED <<cancelled, lapsed, target>> /\ RunnerIdle

\* completeAgentTask: read the row, await the upload of the report's images,
\* update the row if it still runs and its cancel_requested_at is the one
\* read, and then update the target.  No changed row is answered like success.
CompleteRead(r) ==
    /\ At(r, "complete")
    /\ LET t == req[r].task
       IN  IF status[t] = "running"
           THEN req' = [req EXCEPT ![r].op = "store",
                                   ![r].sawCancel = t \in cancelled]
           ELSE Reply(r, "rejected")
    /\ UNCHANGED worker /\ RunnerIdle

StoreConditionNoCancel(t, sawCancel) == status[t] = "running"
StoreCondition(t, sawCancel) ==
    status[t] = "running" /\ (t \in cancelled) = sawCancel

FinalStatus(ok, sawCancel) ==
    IF sawCancel THEN "cancelled" ELSE IF ok THEN "succeeded" ELSE "failed"

CompleteStore(r) ==
    /\ At(r, "store")
    /\ LET t     == req[r].task
           final == FinalStatus(req[r].ok, req[r].sawCancel)
       IN  IF StoreCondition(t, req[r].sawCancel)
           THEN /\ status' = [status EXCEPT ![t] = final]
                /\ IF final = "succeeded" THEN Step(r, "apply") ELSE Reply(r, "ok")
           ELSE /\ Reply(r, IF status[t] = "deleted" THEN "rejected" ELSE "ok")
                /\ UNCHANGED status
    /\ UNCHANGED <<cancelled, owner, target, given>> /\ Ages /\ RunnerIdle

CompleteApply(r) ==
    /\ At(r, "apply")
    /\ target' = req[r].task
    /\ Reply(r, "ok")
    /\ UNCHANGED <<status, cancelled, owner, lapsed, quiet, given>> /\ RunnerIdle

\* The isolate dies, or the database fails: the request ends where it is.
Abort(r) ==
    /\ req[r].op \notin {"free", "reply"}
    /\ Reply(r, "lost")
    /\ UNCHANGED worker /\ RunnerIdle

\* cleanupFinishedAgentTasks deletes rows finished 30 days ago.
Cleanup(t) ==
    /\ status[t] \in Finished
    /\ status' = [status EXCEPT ![t] = "deleted"]
    /\ cancelled' = cancelled \ {t} /\ owner' = [owner EXCEPT ![t] = None]
    /\ UNCHANGED <<lapsed, quiet, target, given, req>> /\ RunnerIdle

\* Time passes.
DeadlinePasses(t) ==
    /\ status[t] \in Active /\ t \notin lapsed
    /\ lapsed' = lapsed \cup {t}
    /\ UNCHANGED <<status, cancelled, owner, quiet, target, given, req>> /\ RunnerIdle

HeartbeatAges(t) ==
    /\ status[t] = "running" /\ t \notin quiet
    /\ quiet' = quiet \cup {t}
    /\ UNCHANGED <<status, cancelled, owner, lapsed, target, given, req>> /\ RunnerIdle

-----------------------------------------------------------------------------
(* The manager's task thread (run_task_worker, poll_once).                   *)

Send(r, op, t, ok) ==
    /\ req[r] = Free
    /\ req' = [req EXCEPT ![r] = [Free EXCEPT
                  !.op = op, !.task = t, !.ok = ok, !.instance = runner.instance]]

\* flush_pending_task_result comes first; only without a stored result does
\* the thread ask for a task.
Poll(r) ==
    /\ runner.phase = "sleep"
    /\ IF pending # None
       THEN /\ Send(r, "complete", pending.task, pending.ok)
            /\ runner' = [runner EXCEPT !.phase = "flush", !.waiting = r]
       ELSE /\ Send(r, "claimExpire", None, FALSE)
            /\ runner' = [runner EXCEPT !.phase = "claim", !.waiting = r]
    /\ UNCHANGED <<worker, pending, faults, made, dropped>>

Deliver(r) ==
    /\ runner.phase = "deliver" /\ runner.waiting = None
    /\ Send(r, "complete", runner.task, runner.ok)
    /\ runner' = [runner EXCEPT !.waiting = r, !.attempt = @ + 1]
    /\ UNCHANGED <<worker, pending, faults, made, dropped>>

\* execute_fixed_task ends with a result or an error.
Finish ==
    /\ runner.phase = "execute"
    /\ \E ok \in BOOLEAN :
           runner' = [runner EXCEPT !.phase = "deliver", !.ok = ok]
    /\ made' = made \cup {runner.task}
    /\ UNCHANGED <<worker, req, pending, faults, dropped>>

\* TaskCancellation::is_cancelled and agentTaskCancelStatus: the question is
\* also the heartbeat; a cancelled task is killed and reported as failed.
AskCancelled ==
    /\ runner.phase = "execute"
    /\ LET t == runner.task
       IN  /\ quiet' = quiet \ {t}
           /\ IF t \in cancelled \/ status[t] = "cancelled"
              THEN /\ runner' = [runner EXCEPT !.phase = "deliver", !.ok = FALSE]
                   /\ made' = made \cup {t}
              ELSE UNCHANGED <<runner, made>>
    /\ UNCHANGED <<status, cancelled, owner, lapsed, target, given, req, pending,
                   faults, dropped>>

\* terminal_task_status looks for a ureq::Error in the chain, but http_error
\* has turned it into text: no answer is ever recognised as terminal.
IsTerminalAny(a) == TRUE
IsTerminal(a) == FALSE

\* What the thread makes of an answer, or of none ("lost").
HearFlush(a) ==
    /\ runner.phase = "flush"
    /\ runner' = Asleep(runner.instance)
    /\ pending' = IF a = "ok" \/ IsTerminal(a) THEN None ELSE pending
    /\ UNCHANGED dropped

HearClaim(a) ==
    /\ runner.phase = "claim"
    /\ runner' = IF a \in Tasks
                 THEN [runner EXCEPT !.phase = "execute", !.task = a, !.waiting = None]
                 ELSE Asleep(runner.instance)
    /\ UNCHANGED <<pending, dropped>>

MayRetry == runner.attempt < Attempts

\* After the last attempt the result is written to the disk; the write may fail.
HearDeliver(a) ==
    /\ runner.phase = "deliver"
    /\ IF a = "ok"
       THEN runner' = Asleep(runner.instance) /\ UNCHANGED <<pending, dropped>>
       ELSE IF MayRetry
       THEN runner' = [runner EXCEPT !.waiting = None] /\ UNCHANGED <<pending, dropped>>
       ELSE /\ runner' = Asleep(runner.instance)
            /\ \/ /\ pending' = [task |-> runner.task, ok |-> runner.ok]
                  /\ UNCHANGED dropped
               \/ /\ dropped' = dropped \cup {runner.task}
                  /\ UNCHANGED pending

Hear(a) == HearFlush(a) \/ HearClaim(a) \/ HearDeliver(a)

Answered(r) ==
    /\ At(r, "reply") /\ runner.waiting = r
    /\ Hear(req[r].answer)
    /\ req' = [req EXCEPT ![r] = Free]
    /\ UNCHANGED <<worker, faults, made>>

\* The answer gets lost, or nobody waits for it.
LoseReply(r) ==
    /\ At(r, "reply")
    /\ IF runner.waiting = r THEN Hear("lost") ELSE UNCHANGED <<runner, pending, dropped>>
    /\ req' = [req EXCEPT ![r] = Free]
    /\ UNCHANGED <<worker, faults, made>>

\* The HTTP client's timeout: the request goes on without the thread.
GiveUp ==
    /\ runner.waiting # None
    /\ faults < MaxFaults /\ faults' = faults + 1
    /\ Hear("lost")
    /\ UNCHANGED <<worker, req, made>>

\* The thread panics and respawn_loop starts it again in the same process, or
\* the manager restarts and is another instance.
Restart ==
    /\ faults < MaxFaults /\ faults' = faults + 1
    /\ \E i \in {runner.instance, runner.instance + 1} : runner' = Asleep(i)
    /\ dropped' = IF runner.phase = "deliver" THEN dropped \cup {runner.task}
                  ELSE dropped
    /\ UNCHANGED <<worker, req, pending, made>>

-----------------------------------------------------------------------------
Serve(r) ==
    \/ CreateInsert(r) \/ CancelQueued(r) \/ CancelRunning(r)
    \/ Expire(r) \/ FailStale(r) \/ Recover(r) \/ ClaimSelect(r) \/ Claim(r)
    \/ CompleteRead(r) \/ CompleteStore(r) \/ CompleteApply(r)

Admin(r) == List(r) \/ \E t \in Tasks : CreateCheck(r, t) \/ CancelRead(r, t)

Next ==
    \/ \E r \in Requests :
           Admin(r) \/ Serve(r) \/ Abort(r) \/ Poll(r) \/ Deliver(r)
           \/ Answered(r) \/ LoseReply(r)
    \/ \E t \in Tasks : Cleanup(t) \/ DeadlinePasses(t) \/ HeartbeatAges(t)
    \/ Finish \/ AskCancelled \/ GiveUp \/ Restart

Spec == Init /\ [][Next]_vars

(* The Worker serves requests, not every request fails before its first      *)
(* statement, and the thread goes on: it executes at most two hours and      *)
(* sleeps at most ten minutes.  Deadlines pass.  Nothing is assumed of the   *)
(* administrator.                                                            *)
Fairness ==
    /\ \A r \in Requests : WF_vars(Serve(r) \/ LoseReply(r))
    /\ SF_vars(\E r \in Requests : Expire(r))
    /\ SF_vars(\E r \in Requests : Poll(r) \/ Deliver(r))
    /\ WF_vars(Finish)
    /\ \A t \in Tasks : WF_vars(DeadlinePasses(t))

FairSpec == Spec /\ Fairness

\* Of the reports sent again and again, some are processed and some answers
\* arrive.
Heard(r) == Answered(r) /\ req[r].answer # "lost"

AnsweredSpec ==
    /\ FairSpec
    /\ SF_vars(\E r \in Requests : CompleteRead(r))
    /\ SF_vars(\E r \in Requests : CompleteStore(r))
    /\ SF_vars(\E r \in Requests : Heard(r))

-----------------------------------------------------------------------------
(* Properties                                                                *)

Ops == {"free", "insert", "cancelQueued", "cancelRunning", "listExpire",
        "listStale", "claimExpire", "claimStale", "recover", "select", "claim",
        "complete", "store", "apply", "reply"}
Answers == Tasks \cup {None, "ok", "rejected", "lost"}

RequestRecord == [op : Ops, task : Tasks \cup {None}, ok : BOOLEAN,
                  instance : Instances \cup {0}, sawCancel : BOOLEAN,
                  answer : Answers]
RunnerRecord  == [phase : {"sleep", "flush", "claim", "execute", "deliver"},
                  task : Tasks \cup {None}, ok : BOOLEAN, attempt : 0..Attempts,
                  waiting : Requests \cup {None}, instance : Instances]

\* Type invariant of the table, the requests and the manager.
TypeOK ==
    /\ status \in [Tasks -> Active \cup Finished \cup {"absent", "deleted"}]
    /\ owner \in [Tasks -> Instances \cup {None}]
    /\ cancelled \subseteq Tasks /\ lapsed \subseteq Tasks /\ quiet \subseteq Tasks
    /\ made \subseteq Tasks /\ dropped \subseteq Tasks
    /\ given \in [Tasks -> Nat] /\ faults \in 0..MaxFaults
    /\ target \in Tasks \cup {None}
    /\ req \in [Requests -> RequestRecord]
    /\ runner \in RunnerRecord
    /\ pending \in Results \cup {None}

\* The VPS never has two active tasks, although createAgentTaskForAgent looks
\* for one and inserts in two statements (agent-tasks.js:152-161).
OneActive ==
    \A t, u \in Tasks : status[t] \in Active /\ status[u] \in Active => t = u

\* A claim reads the queue before it takes the task (agent-tasks.js:197-210),
\* and requests the manager gave up on still run: no task is handed out twice.
GivenOnce == \A t \in Tasks : given[t] <= 1

\* Once the administrator's stop is recorded the task can only end as stopped,
\* and its result never reaches the target, whatever report, expiry or
\* recovery was already under way (agent-tasks.js:316-322).
CancelWins ==
    \A t \in cancelled :
        /\ status[t] \in Active \cup {"cancelled"}
        /\ target # t

\* A result the manager has is with the manager or on its disk as long as its
\* task still waits for it, however deliveries fail and whatever restarts the
\* manager survives (tasks.rs:204-207).  Excepted are results lost with the
\* process before they were written, and failed writes.
ResultKept ==
    \A t \in made \ dropped :
        status[t] = "running" /\ t \notin cancelled =>
            \/ runner.phase = "deliver" /\ runner.task = t
            \/ pending # None /\ pending.task = t

\* An ended task keeps its outcome until it is cleaned up, whatever late
\* report, expiry, recovery or stop follows.
OutcomeStays ==
    [][\A t \in Tasks : status[t] \in Finished =>
           status'[t] \in {status[t], "deleted"}]_vars

\* The task a live thread executes is not taken from it while it sends
\* heartbeats: only its deadline, or the recovery of a claim that an earlier
\* instance had under way, ends it before its report.
TakenOnlyIfRaced ==
    [][\A t \in Tasks :
           (/\ runner.phase = "execute" /\ runner.task = t
            /\ status[t] = "running" /\ status'[t] # "running")
           => \/ t \in lapsed \cup quiet
              \/ \E r \in Requests :
                     At(r, "recover") /\ req[r].instance < runner.instance]_vars

\* Every task ends, although the manager may restart, miss its claim's answer
\* or go silent: as long as no undelivered result keeps it from polling.
TaskEnds ==
    \A t \in Tasks :
        status[t] \in Active ~> (status[t] \notin Active \/ pending # None)

\* A result on the disk is delivered, or discarded when the Worker does not
\* accept it any more (tasks.rs:204-207).
StoredResultLeaves == pending # None ~> pending = None
=============================================================================
