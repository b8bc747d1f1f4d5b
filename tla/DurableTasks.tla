----------------------------- MODULE DurableTasks -----------------------------
(***************************************************************************)
(* Durable tasks: work that outlives its worker.  The rows of              *)
(* `durable_tasks`, `team_budgets` and `team_budget_reservations`          *)
(* (crates/storage/src/lib.rs), the daemon's built-in agent worker         *)
(* (run_durable_agent_task), the Linux runner that works over HTTP         *)
(* (crates/linux-runner/src/lib.rs), the operators' endpoints and the      *)
(* turns a paused agent task waits for.                                    *)
(*                                                                         *)
(* Every storage operation is one SQLite transaction and one action here,  *)
(* except the renewal of a lease, whose SELECT and UPDATE are two.  A      *)
(* worker's steps are separated wherever it awaits a storage call.         *)
(*                                                                         *)
(* Abstractions.  A lease token is the attempt it was issued for: leasing  *)
(* draws a fresh token and increments the attempt in the same UPDATE.      *)
(* 0 stands for NULL.  Time is what it makes true: a lease that is no      *)
(* longer live, a task past its maximum runtime.  The two costs (model and *)
(* runner) go through the same comparisons and appear once.  The turn an   *)
(* attempt creates is named by that attempt.  The budget is one period of  *)
(* one team.                                                               *)
(***************************************************************************)
EXTENDS Integers, FiniteSetsExt

CONSTANTS
    AgentWorkers,   \* built-in workers of the daemon
    RunnerWorkers,  \* Linux runner processes
    Kinds,          \* kinds of task that are created, of {"agent", "runner"}
    MaxTasks,       \* bound: tasks created
    MaxAttempts,    \* max_attempts of every task
    Costs,          \* maximum costs a task, or a direct consumption, may have
    PlanSteps,      \* steps of a runner's tool plan
    Limit,          \* limit of the team's budget period
    HardLimit,      \* whether that limit is hard
    Concurrency,    \* agent_concurrency of the team
    MaxOther,       \* bound: consumption outside the tasks
    Faults          \* what else happens, of the set below

ASSUME ConstantsAssumption ==
    /\ Kinds \subseteq {"agent", "runner"}
    /\ AgentWorkers \cap RunnerWorkers = {}
    /\ {MaxTasks, MaxAttempts, PlanSteps} \subseteq Nat \ {0}
    /\ {Limit, Concurrency, MaxOther} \subseteq Nat
    /\ Costs \subseteq Nat
    /\ HardLimit \in BOOLEAN
    /\ Faults \subseteq {"expire", "overdue", "crash", "lost", "isolate",
                         "cancel", "pause", "abort", "switch"}

Tasks == 1 .. MaxTasks
Workers == AgentWorkers \cup RunnerWorkers
Statuses == {"absent", "queued", "leased", "running", "paused",
             "succeeded", "failed", "cancelled"}
Active == {"leased", "running"}
Terminal == {"succeeded", "failed", "cancelled"}

VARIABLES
    task,     \* durable_tasks: the row of every task
    resv,     \* team_budget_reservations: the reservation of every task
    team,     \* team_budgets, durable_task_controls, team_budget_consumptions
    wk,       \* every worker: where it is, and the lease it believes it has
    turn,     \* the latest turn of the task's session
    resume    \* the task that executes a resumed turn and reconciles after it

store == <<task, resv, team>>
vars == <<task, resv, team, wk, turn, resume>>

KindOf(w) == IF w \in AgentWorkers THEN "agent" ELSE "runner"

Idle == [pc |-> "idle", task |-> 0, token |-> 0, spent |-> 0, left |-> 0]

NoTask == [status |-> "absent", kind |-> "none", attempt |-> 0, token |-> 0,
           live |-> FALSE, overdue |-> FALSE, cancel |-> FALSE,
           consumed |-> 0, max |-> 0, link |-> 0]

Init ==
    /\ task = [t \in Tasks |-> NoTask]
    /\ resv = [t \in Tasks |-> [status |-> "none", remaining |-> 0, settled |-> 0]]
    /\ team = [reserved |-> 0, consumed |-> 0, other |-> 0, enabled |-> TRUE]
    /\ wk = [w \in Workers |-> Idle]
    /\ turn = [t \in Tasks |-> [id |-> 0, state |-> "closed"]]
    /\ resume = [t \in Tasks |-> [id |-> 0, state |-> "none"]]

-----------------------------------------------------------------------------
(* The store.                                                              *)

(* settle_durable_budget: charge `d` to the budget; a terminal settlement   *)
(* gives the rest of the reservation back.                                  *)
Released(t, d, terminal) == IF terminal THEN resv[t].remaining ELSE d

CanSettle(t, d, terminal) ==
    resv[t].status = "active" =>
        /\ d <= resv[t].remaining
        /\ Released(t, d, terminal) <= team.reserved

Settle(t, d, terminal) ==
    IF resv[t].status # "active" THEN UNCHANGED <<resv, team>>
    ELSE /\ team' = [team EXCEPT !.consumed = @ + d,
                                 !.reserved = @ - Released(t, d, terminal)]
         /\ resv' = [resv EXCEPT
                        ![t].remaining = @ - Released(t, d, terminal),
                        ![t].settled = @ + d,
                        ![t].status = IF terminal THEN "settled" ELSE @]

(* Mutant: the admission compares the maximum with what was consumed only.   *)
CreateIgnoresReserved(kind, max) ==
    LET t == Cardinality({u \in Tasks : task[u].status # "absent"}) + 1 IN
    /\ t \in Tasks
    /\ (max > 0 /\ HardLimit) => team.consumed + max <= Limit
    /\ task' = [task EXCEPT ![t] = [NoTask EXCEPT !.status = "queued",
                                                  !.kind = kind, !.max = max]]
    /\ resv' = [resv EXCEPT ![t] = [status |-> "active",
                                    remaining |-> max, settled |-> 0]]
    /\ team' = [team EXCEPT !.reserved = @ + max]
    /\ UNCHANGED <<wk, turn, resume>>

(* create_durable_task, with a fresh idempotency key (a used one changes    *)
(* nothing).  A hard limit that cannot cover the maximum rolls it all back. *)
Create(kind, max) ==
    LET t == Cardinality({u \in Tasks : task[u].status # "absent"}) + 1 IN
    /\ t \in Tasks
    /\ (max > 0 /\ HardLimit) => team.consumed + team.reserved + max <= Limit
    /\ task' = [task EXCEPT ![t] = [NoTask EXCEPT !.status = "queued",
                                                  !.kind = kind, !.max = max]]
    /\ IF max = 0 THEN UNCHANGED <<resv, team>>
       ELSE /\ resv' = [resv EXCEPT ![t] = [status |-> "active",
                                            remaining |-> max, settled |-> 0]]
            /\ team' = [team EXCEPT !.reserved = @ + max]
    /\ UNCHANGED <<wk, turn, resume>>

(* consume_team_budget: consumption that belongs to no task.                *)
Consume(n) ==
    /\ team.other + n <= MaxOther
    /\ HardLimit => team.consumed + team.reserved + n <= Limit
    /\ team' = [team EXCEPT !.consumed = @ + n, !.other = @ + n]
    /\ UNCHANGED <<task, resv, wk, turn, resume>>

(* The WHERE clause of lease_durable_task_kind.                             *)
Leases == {t \in Tasks : task[t].status \in Active /\ task[t].live}

Eligible(kind) ==
    {t \in Tasks :
        /\ task[t].kind = kind
        /\ team.enabled
        /\ ~task[t].cancel
        /\ task[t].attempt < MaxAttempts
        /\ task[t].consumed <= task[t].max
        /\ \/ task[t].status = "queued"
           \/ task[t].status \in Active /\ ~task[t].live
        /\ ~task[t].overdue
        /\ Cardinality(Leases) < Concurrency}

(* update_leased_task: what start, checkpoint and complete require.         *)
CanUpdate(t, token, cost, terminal) ==
    /\ task[t].token = token
    /\ task[t].status \in Active
    /\ ~task[t].cancel
    /\ task[t].live
    /\ cost \in task[t].consumed .. task[t].max
    /\ CanSettle(t, cost - task[t].consumed, terminal)

(* fail_durable_task_costs_inner asks for the token and a cost that is in   *)
(* range, neither for a live lease nor for the absence of a cancellation.   *)
WillRetry(t, retryable) ==
    retryable /\ task[t].attempt < MaxAttempts /\ ~task[t].cancel

(* Mutant: the report of a failure is taken from any worker of the task.     *)
CanFailAnyLease(t, token, cost, retryable) ==
    /\ task[t].status \in Active
    /\ cost \in task[t].consumed .. task[t].max
    /\ CanSettle(t, cost - task[t].consumed, ~WillRetry(t, retryable))

CanFail(t, token, cost, retryable) ==
    /\ task[t].token = token
    /\ task[t].status \in Active
    /\ cost \in task[t].consumed .. task[t].max
    /\ CanSettle(t, cost - task[t].consumed, ~WillRetry(t, retryable))

(* set_durable_task_status takes no lease token.                            *)
CanTransition(t, status) ==
    \/ status = "paused" /\ task[t].status \in {"queued", "leased", "running"}
    \/ status = "queued" /\ task[t].status = "paused"
    \/ /\ status = "cancelled"
       /\ task[t].status \notin Terminal \cup {"absent"}
       /\ CanSettle(t, 0, TRUE)

SetStatus(t, status) ==
    /\ IF status = "cancelled" THEN Settle(t, 0, TRUE) ELSE UNCHANGED <<resv, team>>
    /\ task' = [task EXCEPT ![t].status = status,
                            ![t].cancel = (status = "cancelled"),
                            ![t].token = 0, ![t].live = FALSE]

(* What renew_durable_task_lease reads: not whether the lease is live.      *)
CanRenew(t, token) ==
    /\ task[t].token = token
    /\ task[t].status \in Active
    /\ ~task[t].cancel
    /\ ~task[t].overdue

-----------------------------------------------------------------------------
(* Workers.  A worker makes its calls in the order of run_durable_agent_task *)
(* or LinuxRunner::run_task; `pc` is the call it makes next.                 *)

Goto(w, pc) == wk' = [wk EXCEPT ![w] = IF pc = "idle" THEN Idle
                                       ELSE [@ EXCEPT !.pc = pc]]

(* What a refused call leads to: the agent worker returns and leaves the     *)
(* row as it is; the runner reports a failure that is not to be retried.     *)
Refused(w) == IF w \in AgentWorkers THEN "idle" ELSE "giveup"

(* Whether the reply to a call that was carried out reaches the worker.      *)
Replies(w) == IF w \in RunnerWorkers /\ "lost" \in Faults THEN BOOLEAN ELSE {TRUE}

(* A call of update_leased_task by `w`.                                      *)
Update(w, status, cost, link, pc) ==
    LET t == wk[w].task
        terminal == status = "succeeded" IN
    \/ /\ CanUpdate(t, wk[w].token, cost, terminal)
       /\ Settle(t, cost - task[t].consumed, terminal)
       /\ task' = [task EXCEPT ![t].status = status, ![t].consumed = cost,
                               ![t].link = link,
                               ![t].token = IF terminal THEN 0 ELSE @,
                               ![t].live = ~terminal]
       /\ \E seen \in Replies(w) : Goto(w, IF seen THEN pc ELSE Refused(w))
    \/ /\ ~CanUpdate(t, wk[w].token, cost, terminal)
       /\ Goto(w, Refused(w))
       /\ UNCHANGED store

(* A call of fail_durable_task by `w`.                                       *)
Fail(w, retryable, cost, refused) ==
    LET t == wk[w].task
        retry == WillRetry(t, retryable) IN
    \/ /\ CanFail(t, wk[w].token, cost, retryable)
       /\ Settle(t, cost - task[t].consumed, ~retry)
       /\ task' = [task EXCEPT ![t].status = IF retry THEN "queued" ELSE "failed",
                               ![t].consumed = cost, ![t].token = 0,
                               ![t].live = FALSE]
       /\ Goto(w, "idle")
    \/ /\ ~CanFail(t, wk[w].token, cost, retryable)
       /\ Goto(w, refused)
       /\ UNCHANGED store

(* A call of set_durable_task_status by `w`, after which it is done.         *)
Transition(w, status) ==
    LET t == wk[w].task IN
    /\ IF CanTransition(t, status) THEN SetStatus(t, status) ELSE UNCHANGED store
    /\ Goto(w, "idle")

(* lease_durable_task_kind: the oldest eligible task.  A runner whose reply  *)
(* is lost has leased the task and does not know it.                         *)
Lease(w) ==
    /\ wk[w].pc = "idle"
    /\ Eligible(KindOf(w)) # {}
    /\ LET t == Min(Eligible(KindOf(w))) IN
       /\ task' = [task EXCEPT ![t].status = "leased", ![t].attempt = @ + 1,
                               ![t].token = task[t].attempt + 1, ![t].live = TRUE]
       /\ \E seen \in Replies(w) :
             wk' = [wk EXCEPT ![w] =
                IF ~seen THEN Idle
                ELSE [pc |-> "leased", task |-> t, token |-> task[t].attempt + 1,
                      spent |-> IF w \in AgentWorkers THEN task[t].consumed ELSE 0,
                      left |-> PlanSteps]]
    /\ UNCHANGED <<resv, team, turn, resume>>

(* The task is older than the file protection's cutoff, its content names a  *)
(* protected file, or its session goal is over: it is cancelled.             *)
Isolate(w) ==
    /\ "isolate" \in Faults
    /\ wk[w].pc = "leased"
    /\ Transition(w, "cancelled")
    /\ UNCHANGED <<turn, resume>>

(* A payload that does not parse or a session that is gone: the agent worker *)
(* returns an error and the lease is left to lapse.  A session of another    *)
(* scope fails the task.                                                     *)
Invalid(w) ==
    /\ "isolate" \in Faults
    /\ wk[w].pc = "leased"
    /\ \/ Goto(w, Refused(w)) /\ UNCHANGED store
       \/ w \in AgentWorkers /\ Fail(w, FALSE, wk[w].spent, "idle")
    /\ UNCHANGED <<turn, resume>>

(* start_durable_task.                                                       *)
Start(w) ==
    /\ wk[w].pc = "leased"
    /\ Update(w, "running", task[wk[w].task].consumed, task[wk[w].task].link,
              IF w \in AgentWorkers THEN "creating" ELSE "executing")
    /\ UNCHANGED <<turn, resume>>

-----------------------------------------------------------------------------
(* The agent worker.                                                         *)

(* create_turn_with_user_message_if_idle: refused while the session has a    *)
(* turn that is not over, or because the session belongs to another task's   *)
(* turn or does not take the message.                                        *)
CreateTurn(w) ==
    /\ wk[w].pc = "creating"
    /\ turn[wk[w].task].state = "closed"
    /\ turn' = [turn EXCEPT ![wk[w].task] = [id |-> wk[w].token, state |-> "open"]]
    /\ Goto(w, "linking")
    /\ UNCHANGED <<store, resume>>

TurnRefused(w) ==
    /\ wk[w].pc = "creating"
    /\ \/ Fail(w, TRUE, wk[w].spent, "idle")
       \/ turn[wk[w].task].state = "closed" /\ Fail(w, FALSE, wk[w].spent, "idle")
    /\ UNCHANGED <<turn, resume>>

(* checkpoint_durable_task links the turn.  When it is refused the worker    *)
(* returns, and the turn it created stays open.                              *)
Link(w) ==
    /\ wk[w].pc = "linking"
    /\ Update(w, "running", wk[w].spent, wk[w].token, "executing")
    /\ UNCHANGED <<turn, resume>>

(* run_turn is over, and the worker reads how.                               *)
Outcomes == {"completed", "awaiting", "aborted", "failed"}

TurnEnds(t, id, outcome) ==
    turn' = IF turn[t].id # id THEN turn
            ELSE [turn EXCEPT ![t].state = IF outcome = "awaiting" THEN "awaiting"
                                           ELSE "closed"]

Settled(w, outcome) ==
    /\ Goto(w, outcome)
    /\ TurnEnds(wk[w].task, wk[w].token, outcome)

EndTurn(w) ==
    /\ w \in AgentWorkers
    /\ wk[w].pc = "executing"
    /\ \E outcome \in Outcomes : Settled(w, outcome)
    /\ UNCHANGED <<store, resume>>

ReportCompleted(w) ==
    /\ wk[w].pc = "completed"
    /\ Update(w, "succeeded", wk[w].spent, task[wk[w].task].link, "idle")
    /\ UNCHANGED <<turn, resume>>

(* A turn that awaits a decision: the task is checkpointed, then paused, in  *)
(* two transactions.                                                         *)
CheckpointAwaiting(w) ==
    /\ wk[w].pc = "awaiting"
    /\ Update(w, "running", wk[w].spent, wk[w].token, "pausing")
    /\ UNCHANGED <<turn, resume>>

PauseAwaiting(w) ==
    /\ wk[w].pc = "pausing"
    /\ Transition(w, "paused")
    /\ UNCHANGED <<turn, resume>>

ReportAborted(w) ==
    /\ wk[w].pc = "aborted"
    /\ Transition(w, "cancelled")
    /\ UNCHANGED <<turn, resume>>

(* Every error is retried but the tool-call limit.                           *)
ReportFailed(w) ==
    /\ wk[w].pc = "failed"
    /\ \E retryable \in BOOLEAN : Fail(w, retryable, wk[w].spent, "idle")
    /\ UNCHANGED <<turn, resume>>

(* Mutant: a refused renewal is ignored.                                     *)
RenewRefusedIgnored(w) == Goto(w, "executing") /\ UNCHANGED turn

(* The heartbeat, for both kinds of worker: renew_durable_task_lease reads   *)
(* the row, then updates it.  The agent worker whose renewal is refused      *)
(* stops its turn and reports how that ended; the runner drops the task.     *)
RenewRefused(w) ==
    IF w \in AgentWorkers THEN \E outcome \in Outcomes : Settled(w, outcome)
    ELSE Goto(w, "idle") /\ UNCHANGED turn

RenewRead(w) ==
    /\ wk[w].pc = "executing"
    /\ IF CanRenew(wk[w].task, wk[w].token)
       THEN Goto(w, "renewing") /\ UNCHANGED turn
       ELSE RenewRefused(w)
    /\ UNCHANGED <<store, resume>>

RenewWrite(w) ==
    LET t == wk[w].task IN
    /\ wk[w].pc = "renewing"
    /\ \/ /\ task[t].token = wk[w].token /\ ~task[t].cancel
          /\ task' = [task EXCEPT ![t].live = TRUE]
          /\ \E seen \in Replies(w) : Goto(w, IF seen THEN "executing" ELSE "idle")
          /\ UNCHANGED turn
       \/ /\ ~(task[t].token = wk[w].token /\ ~task[t].cancel)
          /\ RenewRefused(w)
          /\ UNCHANGED task
    /\ UNCHANGED <<resv, team, resume>>

-----------------------------------------------------------------------------
(* The Linux runner.                                                         *)

(* A step of the plan ends, or cannot be executed.                           *)
EndStep(w) ==
    /\ w \in RunnerWorkers
    /\ wk[w].pc = "executing"
    /\ \/ \E cost \in wk[w].spent .. task[wk[w].task].max :
             wk' = [wk EXCEPT ![w].pc = "stepped", ![w].spent = cost,
                              ![w].left = @ - 1]
       \/ Goto(w, "giveup")
    /\ UNCHANGED <<store, turn, resume>>

(* The checkpoint after a step; then the next step, the completion, or the   *)
(* report of a step that exited with an error.                               *)
CheckpointStep(w) ==
    /\ wk[w].pc = "stepped"
    /\ \E pc \in {IF wk[w].left = 0 THEN "completing" ELSE "executing", "failing"} :
          Update(w, "running", wk[w].spent, 0, pc)
    /\ UNCHANGED <<turn, resume>>

CompletePlan(w) ==
    /\ wk[w].pc = "completing"
    /\ \E cost \in wk[w].spent .. task[wk[w].task].max :
          Update(w, "succeeded", cost, 0, "idle")
    /\ UNCHANGED <<turn, resume>>

FailStep(w) ==
    /\ wk[w].pc = "failing"
    /\ Fail(w, FALSE, wk[w].spent, "giveup")
    /\ UNCHANGED <<turn, resume>>

(* run_forever reports every error of run_task, once, with a cost of 0.      *)
GiveUp(w) ==
    /\ wk[w].pc = "giveup"
    /\ Fail(w, FALSE, 0, "idle")
    /\ UNCHANGED <<turn, resume>>

(* A request that never reaches the daemon.                                  *)
RequestLost(w) ==
    /\ "lost" \in Faults
    /\ w \in RunnerWorkers
    /\ \/ wk[w].pc \in {"leased", "stepped", "completing", "failing"} /\ Goto(w, "giveup")
       \/ wk[w].pc \in {"renewing", "giveup"} /\ Goto(w, "idle")
    /\ UNCHANGED <<store, turn, resume>>

-----------------------------------------------------------------------------
(* The turn a paused task waits for.                                         *)

(* spawn_resumed_turn, once wait_for_paused_durable_task_for_turn has found  *)
(* the task paused and linked to the turn.                                   *)
ResumeTurn(t) ==
    /\ turn[t].state = "awaiting"
    /\ resume[t].state = "none"
    /\ task[t].status = "paused" /\ ~task[t].cancel
    /\ task[t].link = turn[t].id
    /\ turn' = [turn EXCEPT ![t].state = "open"]
    /\ resume' = [resume EXCEPT ![t] = [id |-> turn[t].id, state |-> "running"]]
    /\ UNCHANGED <<store, wk>>

EndResumed(t) ==
    /\ resume[t].state = "running"
    /\ \E outcome \in {"awaiting", "completed", "failed"} :
          /\ TurnEnds(t, resume[t].id, outcome)
          /\ resume' = [resume EXCEPT ![t] = IF outcome = "awaiting"
                                             THEN [id |-> 0, state |-> "none"]
                                             ELSE [@ EXCEPT !.state = outcome]]
    /\ UNCHANGED <<store, wk>>

(* reconcile_paused_durable_task; a refusal is only logged.                  *)
CanReconcile(t) ==
    /\ task[t].status = "paused"
    /\ task[t].link = resume[t].id
    /\ CanSettle(t, 0, TRUE)

(* Mutant: the reservation is not settled.                                   *)
ReconcileKeepsReservation(t) ==
    /\ resume[t].state \in {"completed", "failed"}
    /\ task' = IF CanReconcile(t)
               THEN [task EXCEPT ![t].status = IF resume[t].state = "completed"
                                               THEN "succeeded" ELSE "failed"]
               ELSE task
    /\ resume' = [resume EXCEPT ![t] = [id |-> 0, state |-> "none"]]
    /\ UNCHANGED <<resv, team, wk, turn>>

Reconcile(t) ==
    /\ resume[t].state \in {"completed", "failed"}
    /\ \/ /\ CanReconcile(t)
          /\ Settle(t, 0, TRUE)
          /\ task' = [task EXCEPT ![t].status = IF resume[t].state = "completed"
                                                THEN "succeeded" ELSE "failed"]
       \/ ~CanReconcile(t) /\ UNCHANGED store
    /\ resume' = [resume EXCEPT ![t] = [id |-> 0, state |-> "none"]]
    /\ UNCHANGED <<wk, turn>>

(* The session is closed, and perhaps restored later: close_session cancels  *)
(* its turn, whether or not someone executes it.  cancel_turn does not reach *)
(* a turn that nobody executes.                                              *)
CloseSession(t) ==
    /\ "abort" \in Faults
    /\ turn[t].state # "closed"
    /\ turn' = [turn EXCEPT ![t].state = "closed"]
    /\ UNCHANGED <<store, wk, resume>>

-----------------------------------------------------------------------------
(* Operators and the team.                                                   *)

(* The pause, resume and cancel endpoints.                                   *)
OperatorSets(t, status) ==
    /\ IF status = "cancelled" THEN "abort" \in Faults ELSE "pause" \in Faults
    /\ CanTransition(t, status)
    /\ SetStatus(t, status)
    /\ UNCHANGED <<wk, turn, resume>>

(* Mutant: work that is not leased is cancelled without settling its         *)
(* reservation.                                                              *)
CancelWithoutSettling(t) ==
    /\ "cancel" \in Faults
    /\ task[t].status \notin Terminal \cup {"absent"}
    /\ task' = IF task[t].cancel THEN task
               ELSE [task EXCEPT ![t].cancel = TRUE,
                        ![t].status = IF @ \in Active THEN @ ELSE "cancelled"]
    /\ UNCHANGED <<resv, team, wk, turn, resume>>

(* request_durable_task_cancellation.  The settlement of work that is not    *)
(* leased is not conditional on the UPDATE that follows it.                  *)
RequestCancellation(t) ==
    LET active == task[t].status \in Active IN
    /\ "cancel" \in Faults
    /\ task[t].status \notin Terminal \cup {"absent"}
    /\ IF active THEN UNCHANGED <<resv, team>> ELSE Settle(t, 0, TRUE)
    /\ task' = IF task[t].cancel THEN task
               ELSE [task EXCEPT ![t].cancel = TRUE,
                                 ![t].status = IF active THEN @ ELSE "cancelled"]
    /\ UNCHANGED <<wk, turn, resume>>

(* set_team_durable_tasks_enabled.  Disabling takes every active reservation *)
(* off the budget, and releases and cancels the tasks that are not over.     *)
SetEnabled(enabled) ==
    /\ "switch" \in Faults
    /\ LET reserved == [t \in Tasks |-> IF resv[t].status = "active"
                                       THEN resv[t].remaining ELSE 0]
           Over(t) == task[t].status \in Terminal \cup {"absent"} IN
       IF enabled
       THEN team' = [team EXCEPT !.enabled = TRUE] /\ UNCHANGED <<task, resv>>
       ELSE /\ team' = [team EXCEPT !.enabled = FALSE,
                                    !.reserved = @ - SumFunction(reserved)]
            /\ resv' = [t \in Tasks |->
                    IF Over(t) \/ resv[t].status # "active" THEN resv[t]
                    ELSE [resv[t] EXCEPT !.remaining = 0, !.status = "released"]]
            /\ task' = [t \in Tasks |->
                    IF Over(t) THEN task[t]
                    ELSE [task[t] EXCEPT !.status = "cancelled", !.cancel = TRUE,
                                         !.token = 0, !.live = FALSE]]
    /\ UNCHANGED <<wk, turn, resume>>

-----------------------------------------------------------------------------
(* Time and crashes.                                                         *)

Expire(t) ==
    /\ "expire" \in Faults
    /\ t \in Leases
    /\ task' = [task EXCEPT ![t].live = FALSE]
    /\ UNCHANGED <<resv, team, wk, turn, resume>>

Overrun(t) ==
    /\ "overdue" \in Faults
    /\ task[t].attempt > 0 /\ ~task[t].overdue
    /\ task[t].status \notin Terminal
    /\ task' = [task EXCEPT ![t].overdue = TRUE]
    /\ UNCHANGED <<resv, team, wk, turn, resume>>

(* The daemon stops and starts again: its workers and the resumed turns are  *)
(* gone.  Turns stay as they are, but for those in the middle of a code mode *)
(* call, which interrupt_code_mode_calls cancels.                            *)
CrashDaemon ==
    /\ "crash" \in Faults
    /\ wk' = [w \in Workers |-> IF w \in AgentWorkers THEN Idle ELSE wk[w]]
    /\ resume' = [t \in Tasks |-> [id |-> 0, state |-> "none"]]
    /\ \E interrupted \in SUBSET Tasks :
          turn' = [t \in Tasks |-> IF t \in interrupted
                                   THEN [turn[t] EXCEPT !.state = "closed"]
                                   ELSE turn[t]]
    /\ UNCHANGED store

CrashRunner(w) ==
    /\ "crash" \in Faults
    /\ wk' = [wk EXCEPT ![w] = Idle]
    /\ UNCHANGED <<store, turn, resume>>

-----------------------------------------------------------------------------
Heartbeat(w) == RenewRead(w) \/ RenewWrite(w)

(* The calls a worker makes one after the other.                             *)
Call(w) ==
    \/ Start(w)
    \/ CreateTurn(w) \/ TurnRefused(w) \/ Link(w)
    \/ ReportCompleted(w) \/ CheckpointAwaiting(w) \/ PauseAwaiting(w)
    \/ ReportAborted(w) \/ ReportFailed(w)
    \/ CheckpointStep(w) \/ CompletePlan(w) \/ FailStep(w) \/ GiveUp(w)

Execution(w) == EndTurn(w) \/ EndStep(w)

Worker(w) ==
    \/ Lease(w) \/ Isolate(w) \/ Invalid(w) \/ Call(w)
    \/ Execution(w) \/ Heartbeat(w) \/ RequestLost(w)

Next ==
    \/ \E kind \in Kinds, max \in Costs : Create(kind, max)
    \/ \E n \in Costs : Consume(n)
    \/ \E w \in Workers : Worker(w)
    \/ \E t \in Tasks :
          \/ ResumeTurn(t) \/ EndResumed(t) \/ Reconcile(t) \/ CloseSession(t)
          \/ RequestCancellation(t) \/ Expire(t) \/ Overrun(t)
          \/ \E status \in {"paused", "queued", "cancelled"} : OperatorSets(t, status)
    \/ \E enabled \in BOOLEAN : SetEnabled(enabled)
    \/ CrashDaemon
    \/ \E w \in RunnerWorkers : CrashRunner(w)

(* Fairness.  The worker loop polls every 500 ms, its calls are awaited one  *)
(* after the other, and the heartbeat's interval fires in the same select    *)
(* loop as the execution.  Whether an execution ends is the business of      *)
(* AgentRunner (Termination) and of the process the runner started, so it is *)
(* assumed only where a property says so.  Nothing obliges a lease to expire *)
(* or a user to answer.                                                      *)
Fairness ==
    /\ \A w \in Workers : WF_vars(Lease(w)) /\ WF_vars(Call(w)) /\ WF_vars(Heartbeat(w))
    /\ \A t \in Tasks : WF_vars(Reconcile(t))

Spec == Init /\ [][Next]_vars /\ Fairness

(* With executions that end: the heartbeat takes turns with them, so they    *)
(* are enabled again and again rather than all the time.                     *)
EndingSpec == Spec /\ \A w \in Workers : SF_vars(Execution(w))

-----------------------------------------------------------------------------
(* Properties.                                                               *)

(* Every row and every worker has its type; a lease token is held exactly    *)
(* while a task is leased or running, and is that of the latest attempt.     *)
TypeOK ==
    /\ \A t \in Tasks :
          /\ task[t].status \in Statuses
          /\ task[t].attempt \in 0 .. MaxAttempts
          /\ task[t].token = IF task[t].status \in Active THEN task[t].attempt ELSE 0
          /\ task[t].live => task[t].status \in Active
          /\ task[t].max \in Costs \cup {0} /\ task[t].consumed \in 0 .. task[t].max
          /\ task[t].link \in 0 .. task[t].attempt
          /\ turn[t].state \in {"closed", "open", "awaiting"}
          /\ resume[t].state \in {"none", "running", "completed", "failed"}
    /\ {team.reserved, team.consumed, team.other} \subseteq Nat
    /\ \A w \in Workers :
          /\ wk[w].pc = "idle" <=> wk[w].task = 0
          /\ wk[w].task # 0 => /\ wk[w].task \in Tasks
                               /\ wk[w].token \in 1 .. task[wk[w].task].attempt
                               /\ task[wk[w].task].kind = KindOf(w)

(* The totals of the team's budget row are those of the reservation rows:    *)
(* what is reserved is what active reservations have left, what is consumed  *)
(* is what was settled plus the direct consumption.  Nothing leaks when      *)
(* settlements, retries, cancellations and the kill switch interleave        *)
(* (settle_durable_budget, set_team_durable_tasks_enabled).                  *)
BudgetConserved ==
    /\ team.reserved = SumFunction([t \in Tasks |-> resv[t].remaining])
    /\ team.consumed = team.other + SumFunction([t \in Tasks |-> resv[t].settled])

(* A task with a maximum cost has an active reservation exactly until it is  *)
(* over, the reservation holds exactly what the task may still spend, and    *)
(* what was charged to the team is what the task's row says it consumed,     *)
(* whichever of the seven operations that end a task ended it.               *)
ReservationTracksTask ==
    \A t \in Tasks : task[t].max > 0 =>
        /\ resv[t].status = "active" <=> task[t].status \notin Terminal
        /\ resv[t].settled = task[t].consumed
        /\ resv[t].remaining = IF task[t].status \in Terminal THEN 0
                               ELSE task[t].max - task[t].consumed

(* The budget, the reservations and the tasks fit together.                  *)
AccountsConsistent == TypeOK /\ BudgetConserved /\ ReservationTracksTask

(* The store keeps the ledger of BudgetLedger: work is opened only if its    *)
(* whole maximum fits under a hard limit, charged within its maximum, and    *)
(* closed once, and that is decided on totals the store maintains by         *)
(* increments (create_durable_task, consume_team_budget).                    *)
Ledger == INSTANCE BudgetLedger WITH
    phase <- [t \in Tasks |-> IF task[t].status = "absent" THEN "none"
                             ELSE IF task[t].status \in Terminal THEN "closed"
                             ELSE "open"],
    promised <- [t \in Tasks |-> task[t].max],
    spent <- [t \in Tasks |-> task[t].consumed],
    other <- team.other

KeepsLedger == Ledger!Spec

(* Leased work that succeeds, fails or goes back to the queue does so by a   *)
(* report of the worker that has its latest lease, never by that of a worker *)
(* whose lease was taken over, paused away or revoked; and a row that says   *)
(* succeeded, failed or cancelled is never written again: no late report,    *)
(* renewal, reconciliation, cancellation or kill switch touches it.          *)
OnlyLeaseholderReports ==
    [][\A t \in Tasks :
        /\ /\ task[t].status \in Active
           /\ task'[t].status \in {"succeeded", "failed", "queued"}
           => \E w \in Workers : /\ wk[w].task = t /\ wk'[w] # wk[w]
                                 /\ wk[w].token = task[t].attempt
        /\ task[t].status \in Terminal => task'[t] = task[t]]_vars

(* A worker that executes a task it has lost, or whose cancellation was      *)
(* requested, notices at a heartbeat and stops, even if the execution itself *)
(* would never end.                                                          *)
Executing(w) == wk[w].pc \in {"executing", "renewing"}

RevokedWorkStops ==
    \A w \in Workers :
        (/\ Executing(w)
         /\ \/ task[wk[w].task].token # wk[w].token
            \/ task[wk[w].task].cancel) ~> ~Executing(w)

(* The comment on request_durable_task_cancellation: leased or running work  *)
(* keeps its lease so that the worker can observe the request "and           *)
(* atomically persist a cancellation result".  A task whose cancellation was *)
(* accepted is therefore eventually over.                                    *)
CancellationSettles ==
    \A t \in Tasks : task[t].cancel ~> task[t].status \in Terminal
=============================================================================
