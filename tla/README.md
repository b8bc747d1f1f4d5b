# A TLA+ verification project for s-code

s-code is a coding agent: a daemon that keeps sessions, turns and their inputs
in a database, runs one agent loop per active turn, and serves terminal, editor,
desktop and web clients over HTTP. This directory holds TLA+ models of the parts
in which tasks, handlers and restarts meet, the TLC configurations that check
them, and TLAPS proofs about each of these models: the tool scheduler, the agent loop, tool
calls, the prompt queue, pause and resume, durable tasks, undo and the transcript.

Paths below are relative to the repository; `daemon` is
`crates/daemon/src/lib.rs`, `storage` is `crates/storage/src/lib.rs`, `agent-core`
is `crates/agent-core/src/lib.rs`.

## 1. Inventory of the system

| part | state it keeps | operations | what is hard |
|---|---|---|---|
| tool scheduler (`agent-core/src/tool`) | calls of one response waiting for a wave, each with resource claims | push, take_ready_wave | calls run concurrently; a later call must not pass an earlier one it conflicts with; nothing may starve |
| agent loop (`agent-core`, `AgentRunner`) | turn machine, budgets, retry counters, step queue, conversation | model call, stream, tool waves, pause, end | a `select!` over stream, clock, cancellation and incoming input; every exit must leave a conversation that can be continued |
| step queue (`agent-core/src/step`) | requests with admission and merge rules | enqueue, take_next_batch, drain | order of inputs, nothing lost at the end of a run |
| running turns (`daemon`, `RuntimeScopes`) | one scope per executing turn, cancellation barriers, closed sessions | open, close, cancel, submit input | races of resume, cancel and session close |
| turn rows and questions (`storage`) | status, error code, checkpoint; questions with revisions | update_turn, claim/confirm/restore of a resume, answer, reopen, cancel | each is one statement; every sequence of them can be interleaved or cut off by a crash |
| prompt queue (`storage` turn_inputs, `daemon` worker and bridge) | inputs pending, processing, consumed, cancelled | create, bridge, claim, start, requeue, cancel | three consumers of one row; recovery of claims; starvation |
| file protection (`daemon/src/protection.rs`, `storage/src/protection.rs`) | policy and its revision, cutoff for older content | replace, checks at admission, bridge, worker, run | checked content becomes outdated before it is used |
| durable tasks (`storage`, `daemon`, `linux-runner`) | tasks with leases, checkpoints and attempts; reservations; a budget per team | create, lease, renew, start, checkpoint, complete, fail, pause, resume, cancel, reconcile, kill switch | lapsed leases with a live worker, lost replies, a budget kept by increments, revocation of running work |
| output of a turn (`daemon` ChannelObserver, `execute_turn`) | bounded queue of events with open batches of text | emit, take, publish, store | agent and publisher change one batch concurrently; overflow |
| events (`daemon` EventPublisher, `storage` audit_events, `audit` HashChain) | numbered, chained log; broadcast channel | publish, replay, subscribe, restart | replay meets live stream; lagging readers; a crash between commit and broadcast |
| central audit export (`daemon` CentralAuditExporter) | cursor, pending batch | build, store, send, advance, delete | lost receipts, late requests, restarts |
| transcript (`daemon` snapshots, `cli/src/state.rs`) | shown text and notices, cursor | load a snapshot, apply an event, reconnect | snapshot and replay overlap |
| tool calls and approvals (`execution`, `storage`) | call rows, approvals, the protection gate | prepare, submit, decide, execute, finish | several deciders, work that goes on after its turn, policy that changes |
| code mode (`daemon/src/code_mode.rs`) | programs with a worker process and child calls | supervise, admit, authorize, finish, interrupt | a process that never answers, children at the end of their program |
| workspace editing and undo (`execution/src/editing.rs`, `execution`, `tool-runtime`) | planned and applied file changes, goal checkpoints | plan, write, complete, undo | crash between file and row; the user edits the same files |
| policy, identity, config, context engine, protocol | rules, tokens, settings | pure evaluation | little beyond functional tests |
| model gateway, tools themselves, MCP client, connectors, runners | connections, processes | input and output | environment of the agent loop |
| CLI, web, VS Code, JetBrains, macOS clients, evals, compliance | interface state | calls of the HTTP API | not part of the core |

How they interact. A message creates a turn row and a scope, and a task executes
the turn: it writes `preparing_context` and `calling_model`, starts a bridge that
feeds inputs of the prompt queue into the run's ingress channel, and calls the
agent loop. The loop hands every response's tool calls to the scheduler. The run
ends completed, failed or cancelled, or it pauses: for a question of the model,
for an approval, or because the tool budget is spent. The task writes the outcome
and closes the scope. Answering a question takes the paused turn up again through
the same registry. An input that no run took in starts a turn of its own through
the worker. A durable task is work in the background: the daemon's own worker
leases an agent task and runs a turn for it, a Linux runner leases a tool plan over
HTTP; both renew the lease while they execute and report in the end, and the most a
task may cost is reserved from the team's budget until then.

The output of a run goes through a bounded queue to a task that numbers and chains
each event, stores and broadcasts it; clients load a snapshot of the rows, replay the
log from its cursor and go on with the live stream, and an exporter copies the log of a
team to a collector. A tool call is decided by the policy, by the user, or by both; it
runs inside a gate that a change of file protection takes exclusively. An edit records
what it replaces before it replaces it, so that the turn can be undone.

What makes each part correct: conflicting calls are ordered as the model asked
for them and concurrency is invisible (scheduler); every tool call gets one
answer, no received input is lost, the run ends (loop); a turn is executed by one
task, a decision of the user is carried out or asked for again, a terminal turn
stays as it is (pause and resume); an input is delivered once or cancelled, in
the end (prompt queue); only the latest lease reports, a reservation follows its task
to every end, the budget's totals are those of its rows and a hard limit holds,
revoked work stops (durable tasks); what the agent puts out is stored, shown and
exported once and in order, across lost connections and restarts (events); an operation
is begun once and only with consent, outcomes are final, an acknowledged change of
protection has nothing running under the old rules (tool calls); a file is as it would
be without the turn or its change is on record, and undo puts it back (editing).

## 2. Modules

| module | models | composes |
|---|---|---|
| `ResourceClaims` | claims, `conflicts_with`, `normalized_claims` | |
| `ToolSchedule` | `ToolSchedule` and the wave loop of `run_inner`, with a store behind the claims | ResourceClaims |
| `ToolScheduleProofs` | theorems about `ToolSchedule` | ToolSchedule |
| `StepQueue` | `StepRequest`, `StepRequestQueue` as operators that select requests by their places | |
| `AgentRunner` | `AgentRunner::run_inner`, `stream_with_retry`, the bridge | StepQueue, ResourceClaims |
| `PauseResume` | one turn, its questions, `RuntimeScopes`, the tasks that race for them | |
| `TurnInputs` | turns and turn_inputs, bridge, worker, protection reset | |
| `BudgetLedger` | abstract: work is opened with its maximum, charged, closed once, within the limit | |
| `DurableTasks` | task and reservation rows, the team's budget, the agent worker, the Linux runner, resumed turns, operators | BudgetLedger (refined) |
| `Ascending` | `ORDER BY sequence`: the numbers of a finite set in their order | |
| `EventFeed` | abstract: a client gets the events it may see once each, in order, from its cursor on | |
| `DeltaChannel` | `ChannelObserver`, the queue and the batches that grow in place | |
| `EventLog` | `EventPublisher`, hash chain, replay, live stream, reconnecting client | Ascending, EventFeed (refined) |
| `AuditExport` | `CentralAuditExporter`, its stored batch and cursor, the wire and the collector | Ascending |
| `Transcript` | one turn from the agent's output to what a reader has | DeltaChannel, EventLog, AuditExport |
| `ToolCalls` | calls, approvals, protection gate, programs and children of one turn | |
| `TurnUndo` | edits, goal checkpoints and undo of one turn, with the user's own edits | |
| `AgentRunnerProofs`, `ToolCallsProofs`, `TurnInputsProofs`, `PauseResumeProofs`, `TurnUndoProofs` | theorems about the module each is named after | that module |
| `DurableTasksProofs` | theorems about `DurableTasks`, the refinement of `BudgetLedger` included | DurableTasks |
| `TranscriptProofs` | theorems about `Transcript`, the refinement of `EventFeed` included | Transcript |
| `MC*` | instances for TLC | |

**ToolSchedule.** `Push` is `push`; `Scan` is one iteration of the loop of
`take_ready_wave`, `Launch` its end; `Start` and `Finish` are the polls of one call
of the wave inside `join_all`; `NextWave`, `Defer` and `Drop` are what the runner
does with the outcomes. Keys are sequences of path components. `content` and
`seen` are the workspace as the calls see it: they exist to say what "safe" means.

**AgentRunner.** One action is what the runner does between two awaits, so each
branch of each `select!` is an action. `pc` names the await. Messages keep what the
control flow and the providers look at: that a frame made calls, that a result
answers one, that a step came from the user. The model, the tools and the clock may
do anything at any time. Abstracted: token counts (a usage event may exceed its
limit at any time), compaction, prompt texts, the event journal.

**PauseResume.** One turn and a pool of tasks; a pause is for a tool limit, a question
or an approval. An action is one SQL statement or
transaction, or one critical section of the registry's mutex, in the order of the
code. `update_turn` is two actions because it is a read followed by an
unconditional write. A handler that resumes the turn becomes the task that
executes it. `Crash` clears the memory and starts the reconciliation of tool-limit
pauses. Publishing an event, finding a provider and every wait may fail.

**TurnInputs.** Turn rows are reduced to idle, running, paused, terminal, and
`unlaunched` for a row that is not terminal and that no task will touch again (its
launch failed, or the daemon died). `stale` marks what is older than the last
change of file protection. `delivered` is a history variable. `scenario`, chosen in
Init, says which sessions and which faults a behaviour has.

**DurableTasks.** A storage operation is one transaction and one action, except the
renewal of a lease, which is a read and a write outside any transaction. The
operators named after storage functions (`Create`, `Update`, `Fail`, `SetStatus`,
`Settle`, ...) are those functions; the actions of a worker call them in the order of
`run_durable_agent_task` or `LinuxRunner::run_task`, and `pc` is the call it makes
next. A lease token is the attempt it was issued for, since leasing changes both in
one UPDATE. Time is what it makes true: `Expire` ends a lease, `Overrun` passes the
maximum runtime. The model cost and the runner cost go through the same comparisons
and appear as one. A crash of the daemon loses its worker and the resumed turns and
leaves turn rows open, except turns in the middle of a code mode call, which the start
cancels. `Faults` says which of these things may happen in an instance. `DurableTasks` is shown to implement
`BudgetLedger` with an open task for every row that is not terminal: the ledger sums
over the tasks what the store maintains by increments.

**DeltaChannel, EventLog, AuditExport, Transcript.** A unit of output is its position
among all the agent put out; a batch is a sequence of units. An action is one critical
section of the batches' lock, one transaction, or one message. `lock` is the mutex of the
hash chain, held from commit to broadcast. A connection subscribes, reads the watermark,
replays page by page and then follows the broadcast; one that lags is closed by the
server and opened again by the client from the last number it received. `Transcript`
composes them with `execute_turn` and the interface, which reads a snapshot's cursor
before its rows. The interface and the exporter only read the log, so a behaviour has one of
them or neither (`reader`), which keeps the state space a sum and not a product. `Crash` loses
memory and restarts the publisher from the stored log. The collector is external: it is
modelled from the receipts the exporter validates. `DeliversFeed` is the refinement of
`EventFeed` by what `stream_events` receives.

**ToolCalls.** `call` is the row of a call with its approval, `at` the place of every
task that works on one: the run of the turn (or the supervisor of its program) and the
requests that decide an approval. `effects` counts how often an operation was begun.
The policy's decision is open at each evaluation. An operation whose future was
dropped while it blocks a thread is `detached` and keeps its guard of the gate.

**TurnUndo.** A content stands for its hash. A write is two steps, the check of the
hash and the rename, because an editor of the user may come between. `kept` is what a
file would be without the turn. `mixed` holds the files of which the code cannot tell the
turn's content from the user's: an edit between check and rename, or an edit to a
content the turn's own record names. The properties are stated for the others.

## 3. Runs

| run | states | checks |
|---|---|---|
| `schedule` | 21 thousand | types; `NoConflictingWave`, `ConflictingCallsKeepOrder`, `SerialEquivalence`; `NoStarvation` |
| `agent_run` | 754 thousand | `MachineConsistent` (types and channel capacity, the queue never runs dry, the turn machine never refuses, a paused run waits only for its wave, inputs of a kind keep their order, repeated failures stop the run), `EveryCallAnsweredOnce`, `NoInputIsLost`; `Termination` |
| `pause` | 951 thousand | `RegistryConsistent` (types, every barrier has an owner), `OneExecution`, `BarrierExcludesExecution`, `LimitDecisionNotLost`; `TerminalIsFinal` |
| `turn_inputs` | 649 thousand | `QueueConsistent` (types, one active turn per session), `DeliveredOnce`, `FreshTurnHasOnlyFreshInput`; `InputOutcomeIsFinal`, `QueuedInputSettles` |
| `durable_budget` | 870 thousand | `AccountsConsistent` (types, totals are those of the rows, a reservation follows its task); `KeepsLedger` (refinement) |
| `durable_leases` | 221 thousand | `AccountsConsistent`; `OnlyLeaseholderReports`, `RevokedWorkStops`, although executions may never end |
| `transcript` | 748 thousand | `LogConsistent` (types, published in the order of output, the chain survives a restart), `TextIsPrefix`, `CollectorIsExact`; `DeliversFeed` (refinement), `TurnIsShown`, `ExportCatchesUp` |
| `undo` | 4.9 million | `RecordsConsistent` (types, every change of the turn is on record), `UndoneOnce`, `UndoRestores` |
| `tools` | 189 thousand | `CallsConsistent` (types, limit of child calls, no child outlives its program, a running program has a supervisor), `OnlyAuthorizedActs`, `ActsOnce`, `ProtectionHolds`; `OutcomeIsFinal`, `ProgramSettles`, `ProtectionApplies` |
| `pause_question` | violated | `QuestionDecisionNotLost` |
| `durable_cancel_stuck` | violated | `CancellationSettles` |
| `transcript_reasoning` | violated | `ReasoningShownOnce` |

### Bounds

* `schedule`: three calls are the least with a wave, a call set aside, and one that
  could pass it; eight claim sets cover all kinds of overlap (equal, below a
  recursive claim, the root, two namespaces, nothing declared). The theorems hold
  for any number of calls and any claims.
* `agent_run`: three model calls and two tool calls per response, so that a call
  over the budget, a conflicting pair, a retry of each kind and a continuation all
  occur; two inputs, of one kind or of both, and a channel of one, so that the
  bridge has to wait; one fingerprint that may fail twice.
* `pause`: three tasks (the run and two handlers that race; interchangeable), three
  pauses of any of the three kinds, three handlers started, one crash, the session closed
  and restored. With two pauses a late second approval cannot meet a pause of another
  kind, which is where it does harm (see below).
* `turn_inputs`: two inputs, up to four turns (one is reserved per input so that a
  bound never keeps the worker from starting one); either two sessions without faults, where
  one could starve the other, or one session with every fault and a change of protection.
* `durable_budget`: two tasks that cost 1 or 2 and a limit of 3, so that the second
  fits or not depending on what the first has settled; two runners and two attempts,
  so that a lapsed lease is taken over; runners are interchangeable (symmetry).
  `durable_leases` has one task of either kind, the daemon's one agent worker and two
  runners, three attempts, and two steps, so that a checkpoint with a cost precedes
  every kind of end; every fault is on.
* `transcript`: queue, broadcast channel and replay page of one entry, so that each
  overflows; batches of two units. With the interface, two units of text, one other event
  and two faults (a lost connection in the middle of a recovery); with the exporter, five
  other events in batches of two and two faults; with neither, four units of text,
  reasoning and plain events, the least in which a batch grows, is closed by another kind
  and a third follows.
* `undo`: two files, two contents besides absence, two edits, two undo requests, one
  edit of the user and one crash or failed write. Files, contents and requests are
  interchangeable.
* `tools`: two direct calls, a direct call and a program, or two programs; three
  children and a limit of two, so that the second program finds the limit used; two
  requests that decide approvals; one crash.
* Deadlock is not checked in any run: each model ends, when the run is over or the
  requests are used up.

### Fairness

Only what the runtime gives: a task that can go on is polled. `AgentRunner`: the
runner (its timers fire, so that no wait is for ever) and the bridge; not the events
of the stream, which the provider may withhold. `ToolSchedule`: the runner, and each
call of a wave, which an executor's timeout ends. `PauseResume`: every task; each
wait in it has a timeout, and that a run ends is `Termination` of `AgentRunner`.
`TurnInputs`: the worker (it polls every 100 ms), launching and ending of turns, and
requests already accepted. `DurableTasks`: the worker's poll (every 500 ms), the calls
it makes one after the other, the heartbeat, which the `select!` loop polls with the
execution, and the reconciliation after a resumed turn. `EndingSpec` adds that
executions end, which is `Termination` of `AgentRunner` for agent tasks; strong
fairness, because a renewal in progress interrupts their polling. Only
`durable_cancel_stuck` uses it, so that its counterexample is not a turn that never
ends; `RevokedWorkStops` does without. `Transcript`: the publishing task and the end of
the turn, the interface with its reconnects, and the export worker, which polls every
second; faults are bounded, the agent may stop at any time. `ToolCalls`: the restart after
a crash, the change of protection, every operation (commands and git run with a timeout)
and the supervisor's timer; the worker process need never answer. Users are never fair.

### What the violated runs show

* `pause_question`. `ask_user` publishes the question before the run has paused. An
  answer that comes in between finds the turn not awaiting input, and
  `maybe_resume_question` returns success (`daemon:9311`). The turn then pauses for a
  question that is answered already. Tool-limit questions are not affected: the
  question and the pause are one transaction.
* `durable_cancel_stuck`. After a request start, checkpoint and complete are refused
  and the worker returns; the task is not leased again, and nothing but a test calls
  `acknowledge_durable_task_cancellation`. Only a worker that meets the request at a
  heartbeat ends the task, as failed.
* `transcript_reasoning`. The row of a reasoning summary is written before its event
  is published. A snapshot between the two contains the delta, and its cursor is before
  the event; the client appends the replayed delta without looking at an offset
  (`cli/src/state.rs:860`), and the part is shown twice. A comment of the daemon
  (`daemon:11405`) says that clients upsert by item ID and revision.

Known from the models, without a run of their own:

* `update_turn` checks the status and writes in two statements (`storage:4031`,
  `storage:4049`). Closing the session in between cancels the turn, and the write
  undoes it: `TerminalIsFinal` is stated for turns whose session was not closed.
* `maybe_resume_turn` (`daemon:9205`, `daemon:9229`) neither asks which approval the turn
  awaits nor claims the row. In a turn with several approvals a late decision therefore
  resumes whatever pause the turn is in, a tool-limit pause included: the answer to that
  question can be lost, and a cancellation of that pause overwritten by the resumed turn. `LimitDecisionNotLost` and `TerminalIsFinal` except turns with several approvals
  (`SeveralApprovals`). If the session is closed and restored as well, the turn can be
  executed twice at once: `OneExecution` excepts that. The first two cases were found by
  trying to prove the invariants: they take three pauses, and the run had two. An approval
  given before the pause is written is lost as a question is.
* After a change of protection a claimed input that is older should be cancelled, but
  `cancel_turn_input` refuses an input that is processing (`daemon:15674`,
  `storage:3676`). The worker puts it back and claims it again, ahead of everything
  else: `QueuedInputSettles` is stated for sessions that nothing befalls.
* An edit of the user between the check of a hash and the rename is overwritten
  (`tool-runtime:1314`); a crash leaves a planned change of which nobody knows whether
  it was made. `TurnUndo` names these cases in `mixed`.
* The row of a direct tool call that a cancellation cuts off stays running; an
  approval given after the session was closed still executes.
* A task whose turn awaits a decision is checkpointed and then paused in a second
  transaction that takes no token and clears `cancel_requested` (`daemon:2251`,
  `storage:5476`). A cancellation accepted in between is gone.
* The runner's last resort reports a cost of 0 (`linux-runner:107`), which the store
  refuses after a checkpoint with a cost; in the last attempt the task stays running.
* More ways to strand a task: one resumed in its last attempt is queued and never
  leased; a paused one whose turn dies in a crash or with its session stays paused; one
  whose lease lapses in the last attempt stays running; a turn whose link was refused
  stays open and keeps later attempts out of the session.

## 4. Proofs

The `*Proofs` modules prove for every value of the constants what the runs check on small
instances: every safety invariant and every action property of the passing runs, and the
refinements of `BudgetLedger` and `EventFeed`. No theorem needs fairness.

| module | theorem | states |
|---|---|---|
| `ToolScheduleProofs` | `TypeCorrect` | `TypeOK` |
| | `WavesAreConflictFree` | `NoConflictingWave` |
| | `ConflictingCallsStayOrdered` | `ConflictingCallsKeepOrder` |
| | `WavesAreSerializable` | `SerialEquivalence` |
| `AgentRunnerProofs` | `AgentRunnerMachine` | `MachineConsistent` |
| | `AgentRunnerAnswers` | `EveryCallAnsweredOnce` |
| | `AgentRunnerInputs` | `NoInputIsLost` |
| `ToolCallsProofs` | `RecordsFitTasks` | `CallsConsistent` |
| | `NothingActsUnauthorized` | `OnlyAuthorizedActs` |
| | `EveryCallActsOnce` | `ActsOnce` |
| | `ProtectionIsExclusive` | `ProtectionHolds` |
| | `OutcomesStay` | `OutcomeIsFinal` |
| `TurnInputsProofs` | `SessionHasOneActiveTurn` | `QueueConsistent` |
| | `FollowUpIsDeliveredOnce` | `DeliveredOnce` |
| | `ResetCutsFollowUpsOff` | `FreshTurnHasOnlyFreshInput` |
| | `FollowUpOutcomeStays` | `InputOutcomeIsFinal` |
| `PauseResumeProofs` | `BarriersHaveOwners` | `RegistryConsistent` |
| | `BarrierKeepsTurnClosed` | `BarrierExcludesExecution` |
| | `OneTaskExecutes` | `OneExecution` |
| | `LimitAnswersAreKept` | `LimitDecisionNotLost` |
| | `OutcomeOfTurnStays` | `TerminalIsFinal` |
| `TurnUndoProofs` | `ChangesStayRecorded` | `RecordsConsistent` |
| | `ConversationIsUndoneOnce` | `UndoneOnce` |
| | `UndoPutsBack` | `UndoRestores` |
| `DurableTasksProofs` | `BudgetFollowsTasks` | `AccountsConsistent` |
| | `LatestLeaseReports` | `OnlyLeaseholderReports` |
| | `StoreKeepsLedger` | `KeepsLedger` |
| `TranscriptProofs` | `TranscriptLog` | `LogConsistent` |
| | `TranscriptText` | `TextIsPrefix` |
| | `TranscriptCollector` | `CollectorIsExact` |
| | `TranscriptFeed` | `DeliversFeed` |

The assumptions are the named `ASSUME`s of the modules: bounds are natural numbers, sets
that are counted are finite, and names that must differ do. `ToolSchedule` also assumes that
resources lie in a namespace other than `global`. TLC evaluates each of them in the runs.
Every inductive invariant was checked by TLC on the run's instance before it was proved.

**Tool scheduler.** `NoConflictingWave` alone is inductive, the order is not: that a call
compared with the *current* wave and the calls set aside *in this scan* cannot pass
any earlier unfinished call needs to know where those calls are. `IInv` adds:
`InOrder`, that the set-aside calls precede the calls not yet scanned and both are
in response order, so the head of `waiting` is later than everything in `blocked`;
`StatusOK`, that a pushed call is in one of the two queues, in the wave, or
finished; `PhaseOK`, that `blocked` is empty outside a scan and nothing runs during
one; and `AdmittedInOrder`, the order stated for admission rather than start. An
earlier conflicting call is then done, in the wave or set aside, and in the last two
cases `MustWait` holds. `SInv` adds `ContentOK`: a resource holds the effect of the
latest finished call that writes it. With `SharedResourceConflicts` (two calls that
touch a common resource, one writing, conflict: a fact about prefixes of keys) the
order makes the store agree with the sequential view when a call starts.

**Tool calls.** That an operation is begun once and with consent is a matter of who may
still begin it. `DirectOK` says for every place of the run and of each deciding request what
the row is there and whether the operation was begun; in particular a request past its
decision is the only one, because the approval row is decided in one statement and never
again. `ChildrenOK` says the same of a child call and its program. `ProgramsOK` (one program
after the other, each from an empty row) and `BudgetOK` (what a program may still call fits
into what its predecessors left) carry the limit over several programs, whose children are
counted with the cardinality theorems. `ProtectionHolds` rests on the gate alone: a change
commits only when nobody holds it, and nobody enters under the old rules after that.

**Prompt queue.** `DeliveryOK` ties the history `delivered` to the row: a consumed input is
in one conversation, any other in none, which makes the three consumers of the row agree
whatever they read before. `FreshOK` says that what the bridge or the worker holds after its
comparison with the policy is no older than the turn it goes to: a reset ages a running turn
together with the input, and the worker holds the gate until its turn is created. `OneActiveTurn` needs only that a turn is inserted where none is active.
`RowsOK`, `ScopesOK`, `RequestsOK` and `WorkerOK` keep ids within the rows; `ReserveOK` does
so for the bound on turns.

**Pause and resume.** `blocks = Cardinality(Blocking)` counts the cancellations that have a
barrier, and is all that `RegistryConsistent` needs beside types. The rest is per task
(`TaskOK`): which places each role has, which question it carries, which registry entry is its
own, and what its read of the row, followed by an unconditional write, can be at the moment of
the write. While a turn has at most one approval, `TurnOK` says that a task that executes the
turn, or is past its look at the row, is the only such task (`Engaged`), and that next to a
paused row it is the one that resumes this very pause; `PauseOK` ties the marker of a tool-limit
pause to its question. The claim of the row and the scope exclude the others between them.
`DecisionKept` and `KeptOK` follow an answered tool-limit question from claim to confirmation
or back, while no session is closed. With several approvals uniqueness fails; the properties
name that exception, which this proof attempt found (section 3).

**Undo.** `FileOK` says of every file that is not in `mixed` that a content named by its record
is the turn's, and that without the turn the file would have the content recorded before;
`CallOK` and `UndoOK` keep that across the two steps of a write, of the call and of every undo
under way, with the content each has compared. `UndoOK` also says that an undo has every open
record in its list until it has restored it, so that the marker is written with nothing left to
restore (`MessagesOK`). `GoalOK` is the same for the goal and its checkpoint.

**Durable tasks.** Each of the some thirty actions changes the store in one of five ways
(`StoreStep`): not at all, one row that is not over together with its reservation and the team's
totals (`RowStep`), a new row, a direct consumption, or the kill switch. `NextIsStep` proves that
action by action. The invariant is then preserved by five cases: `StoreOK` (types, `RowOK` of
each row with its reservation, `BudgetConserved`, tasks created in order of their numbers, and
`WithinLimit`), `WorkOK` (a worker's lease is one its task has given) and `TurnsOK`. The finality of
outcomes follows from the same cases, and so does the refinement: a `RowStep` is `Charge` or
`Close`, a creation `Open`, a consumption `Spend`, the kill switch `CloseAll`, and everything
else stutters. That `Open` and `Spend` are affordable compares a sum over the tasks with totals kept
by increments (`CommittedIsBooked`).

The first part of `DurableTasksProofs` supplies what is needed about sums over any finite set
of tasks: that they are natural numbers, change with one term, add up, and bound their terms.
`SumFunction` is a recursive function, so its defining equation has to be shown to have a
solution first (`SumsExist`). Induction is carried out on a *set* of subsets, or of numbers,
with the theorems on well-founded orders, which need no operator as parameter.

**Agent loop.** Two things travel to the conversation through the queue: the answers of calls and
the inputs of the user. The invariant follows both over `Flow`, the queue and the channel behind
it. `ResultsOK` says that a call the model made either waits (in the schedule, in the wave, or
in the reply being prepared; `WaitingOK`: at one place only) or has its answer, which is in the
conversation or still in `Flow`, and not in `Flow` while the model is called. `ConsumedOK` says
the same of inputs, with the bridge's hands as a further place, and `BridgeOK` that the channel
has room for what the bridge holds a permit for. `Order` says that steps of one mode stand in
the order of the inputs, across conversation and queue, and that nothing stands there twice.
`ControlOK` ties `pc` to the status of the turn machine, so that no transition is refused, and
`Over` says what each outcome leaves behind. The work is in the queue: a batch is its driver and
everything mergeable behind it, so that steering passes queued input and the order can only be
kept per mode. `Takes` and `Picked` say which places of the queue a selection comes from and
in which order; they are proved of `Batch`, `AfterBatch`, `DrainMaterialized` and
`AbortTurnScoped` by induction over the length, and every action is reasoned about with them
alone (`OrderMoves`, `OrderPart`, `OrderDrained`).

**Transcript.** `LogOK` says that the stored log is chained and that the publisher's hash and
number are those of its end, or one behind it between commit and broadcast, while the lock is
held. `ChannelOK` is the conservation of output: what is published, what the publisher holds and
what the channel holds are together, and in this order, what the agent put out; a batch that is
still open is the last entry, so growing it cannot reorder. `StreamOK` says that no visible
event lies between a client's cursor and the place its replay or its live stream has reached,
whatever the broadcast drops; the refinement of `EventFeed` is its consequence, since a step of
the stream then delivers the next visible event or none. `TextOK` says
that the text of each stored event stands in the agent's text at the offset the event carries,
which is why a replay that overlaps the snapshot adds nothing twice. `ExportOK` says of the collector that it has what the cursor says or the pending batch
more, which is what makes a lost receipt or a late request harmless. A selection from the log is
by number (`InOrder` of `Ascending`), and `TranscriptProofs` shows once that this is the order
of the numbers.

Only model-checked, and why:

* all liveness (`NoStarvation`, `Termination`, `QueuedInputSettles`, `RevokedWorkStops`,
  `ProgramSettles`, `ProtectionApplies`, `TurnIsShown`, `ExportCatchesUp`): TLAPS has no backend
  for fairness and ENABLED;
* the violated runs, which are about what the code does not do.

## 5. Not modelled

Within the modelled parts: database errors; compaction and token counts; idempotency
keys and session goals in the prompt queue; several budget periods, changes of a limit and
the continuation of goals in durable tasks; the cancellation of code mode turns by a
restart in `PauseResume` and `TurnInputs` (it is in `ToolCalls` and `DurableTasks`);
retention of events; turns of one manual call, Session Full access and background
terminals in `ToolCalls`; the parsing of patches in `TurnUndo`.

Whole components marked `not_modelled` in `PROJECT.json`. Most of the repository's lines
have no state that a model checker would explore: the tests inside the source files (some
sixteen thousand lines of the daemon alone), HTTP handlers that check a request and call the
store, wire formats of model providers and MCP servers, command-line parsing and terminal
rendering, configuration, process and file-system access. The modules map the parts that
keep state and meet concurrently; a larger share of mapped lines could only come from
transliterating sequential code over strings.

## 6. Plan

Every safety property of the passing runs is proved; liveness stays with TLC. What remains is
more of the system: background terminals and their orphans after a restart; the retention of
events next to export and replay; and an abstract specification of the prompt queue (an input is
pending, then delivered to one turn or cancelled) refined by `TurnInputs`.
