----------------------------- MODULE PauseResume -----------------------------
(***************************************************************************)
(* How one turn pauses for its user and is taken up again: the turn row    *)
(* and its questions (storage/src/lib.rs), the registry of running turns   *)
(* with its cancellation barrier (daemon/src/lib.rs, RuntimeScopes), and   *)
(* the tasks that race for them: the task that executes the turn, the      *)
(* handlers that answer a question, cancel the turn, or close and restore  *)
(* its session, and the reconciliation after a restart.                    *)
(*                                                                         *)
(* An action is one database statement or transaction, or one critical     *)
(* section of the registry's mutex; between two of them any other task may *)
(* run.  A pause is of kind "limit" (the tool-call budget is spent),       *)
(* "question" (the model asked the user something) or "approval" (a tool   *)
(* call needs the user's consent, and the request that gives it also runs  *)
(* the tool).  A handler that resumes the turn becomes the task that       *)
(* executes it.                                                            *)
(***************************************************************************)
EXTENDS Naturals, Sequences, FiniteSets

CONSTANTS
    Tasks,          \* task slots
    NoTask,         \* the registry holds no scope for the turn
    Kinds,          \* kinds of pause the run may come to
    Lifecycle,      \* whether the session may be closed and restored
    MaxQuestions,   \* bound: pauses of the turn
    MaxRequests,    \* bound: handlers started
    MaxCrashes      \* bound: restarts of the daemon

ASSUME PauseAssumption ==
    /\ Kinds \subseteq {"limit", "question", "approval"} /\ Lifecycle \in BOOLEAN
    /\ {MaxQuestions, MaxRequests, MaxCrashes} \subseteq Nat
    /\ IsFiniteSet(Tasks) /\ NoTask \notin Tasks

VARIABLES
    row,        \* the turn: status, error_code, question its checkpoint awaits
    questions,  \* question_requests and approvals of the turn, in order of creation
    session,    \* status of the session row
    scope,      \* the task whose scope the registry holds for the turn
    blocks,     \* turn_start_blocks of the turn
    closed,     \* the session is in closed_sessions
    tasks,      \* what each task is doing
    requests, crashes,
    cancelAsked,\* history: somebody has asked to cancel the turn
    everClosed  \* history: the session has been closed

vars == <<row, questions, session, scope, blocks, closed, tasks, requests, crashes,
          cancelAsked, everClosed>>
memory == <<scope, blocks, closed>>
bounds == <<requests, crashes, cancelAsked, everClosed>>

Terminal == {"completed", "failed", "cancelled"}
Row(status, marker, asks) == [status |-> status, marker |-> marker, asks |-> asks]

Roles == {"none", "run", "answer", "cancel", "close", "restore", "reconcile"}
Executing == {"check", "write", "running", "asked", "pause", "error", "fail", "finish"}
Handling  == {"answered", "resume", "await", "claim", "unclaimed", "open", "refused",
              "confirm", "spawn", "unwind", "stop", "stopping", "unstopped",
              "rollback", "token", "restore", "reopen", "early",
              "cancel", "barrier", "drain", "latest", "unblock", "signal",
              "close_scope", "reopen_scope", "reconcile"}

Idle == [role |-> "none", pc |-> "idle", q |-> 0, revision |-> 0, action |-> "resume",
         cancelled |-> FALSE, write |-> Row("idle", "none", 0)]

Goto(t, pc) == tasks' = [tasks EXCEPT ![t].pc = pc]
Done(t)     == tasks' = [tasks EXCEPT ![t] = Idle]

\* A handler runs only while the daemon serves requests; the reconciliation of
\* the tool-limit pauses comes first after a restart.
Serving == \A t \in Tasks : tasks[t].role # "reconcile"

Spawn(record) ==
    /\ Serving /\ requests < MaxRequests
    /\ requests' = requests + 1
    /\ \E t \in Tasks : /\ tasks[t].pc = "idle"
                        /\ tasks' = [tasks EXCEPT ![t] = record]
    /\ UNCHANGED crashes

Init ==
    /\ row = Row("idle", "none", 0)
    /\ questions = <<>> /\ session = "active"
    /\ \E t \in Tasks :
         /\ scope = t
         /\ tasks = [u \in Tasks |->
                       IF u = t THEN [Idle EXCEPT !.role = "run", !.pc = "check",
                                          !.write = Row("preparing_context", "none", 0)]
                       ELSE Idle]
    /\ blocks = 0 /\ closed = FALSE /\ requests = 0 /\ crashes = 0
    /\ cancelAsked = FALSE /\ everClosed = FALSE

-----------------------------------------------------------------------------
(* The executing task.                                                     *)

Update(t, new) == tasks' = [tasks EXCEPT ![t].pc = "check", ![t].write = new]

\* update_turn reads the row and refuses a terminal one ...  The checks before
\* it (file protection, session, model policy) may fail as well.
UpdateTurnCheck(t) ==
    /\ tasks[t].pc = "check"
    /\ Goto(t, IF row.status \in Terminal THEN "error" ELSE "write")
    /\ UNCHANGED <<row, questions, session, memory, bounds>>

PrepareFails(t) ==
    /\ tasks[t].pc = "check" /\ tasks[t].write.status \in {"preparing_context", "calling_model"}
    /\ Goto(t, "error")
    /\ UNCHANGED <<row, questions, session, memory, bounds>>

\* ... and then writes it, whatever its status is by now.
UpdateTurnWrite(t) ==
    /\ tasks[t].pc = "write"
    /\ row' = tasks[t].write
    /\ CASE row'.status = "preparing_context" -> Update(t, Row("calling_model", "none", 0))
         [] row'.status = "calling_model" -> Goto(t, "running")
         [] OTHER -> \E pc \in {"finish", "error"} : Goto(t, pc)  \* publishing may fail
    /\ UNCHANGED <<questions, session, memory, bounds>>

Awaiting(q) == IF questions[q].kind = "approval" THEN "awaiting_approval" ELSE "awaiting_input"

\* The agent run ends.  A cancelled token always ends it as cancelled unless it
\* got to another end first.
RunEnds(t) ==
    /\ tasks[t].pc \in {"running", "asked"}
    /\ \/ Update(t, Row("failed", "none", 0))
       \/ tasks[t].pc = "running" /\ Update(t, Row("completed", "none", 0))
       \/ tasks[t].cancelled /\ Update(t, Row("cancelled", "none", 0))
       \/ tasks[t].pc = "asked" /\ Update(t, Row(Awaiting(Len(questions)), "none", Len(questions)))
       \/ /\ tasks[t].pc = "running" /\ "limit" \in Kinds /\ Len(questions) < MaxQuestions
          /\ Goto(t, "pause")
       \/ Goto(t, "error")
    /\ UNCHANGED <<row, questions, session, memory, bounds>>

NewQuestion(kind) ==
    Append(questions, [kind |-> kind, status |-> "pending", revision |-> 1, action |-> "none"])

\* The ask_user tool stores and publishes the question, and a tool call that
\* needs consent its approval, while the run goes on.
AskUser(t) ==
    /\ tasks[t].pc = "running" /\ Len(questions) < MaxQuestions
    /\ \E kind \in Kinds \ {"limit"} : questions' = NewQuestion(kind)
    /\ \E pc \in {"asked", "running"} : Goto(t, pc)  \* publishing may fail: the tool fails
    /\ UNCHANGED <<row, session, memory, bounds>>

\* create_question_and_pause_turn: the question and the pause in one transaction.
PauseForLimit(t) ==
    /\ tasks[t].pc = "pause"
    /\ IF row.status = "calling_model"
       THEN /\ questions' = NewQuestion("limit")
            /\ row' = Row("awaiting_input", "limit", Len(questions) + 1)
            /\ \E pc \in {"finish", "error"} : Goto(t, pc)
       ELSE Goto(t, "error") /\ UNCHANGED <<row, questions>>
    /\ UNCHANGED <<session, memory, bounds>>

\* A resumed task that failed before it executed anything gives the decision
\* back; any other failure is settled in the row.
ExecutionFails(t) ==
    /\ tasks[t].pc = "error"
    /\ Goto(t, IF tasks[t].q # 0 /\ questions[tasks[t].q].kind = "limit"
                  /\ row.status = "preparing_context"
               THEN "early" ELSE "fail")
    /\ UNCHANGED <<row, questions, session, memory, bounds>>

CloseTurn == scope' = NoTask /\ UNCHANGED <<blocks, closed>>

FailsEarly(t) ==
    /\ tasks[t].pc = "early"
    /\ CloseTurn /\ Goto(t, "rollback")
    /\ UNCHANGED <<row, questions, session, bounds>>

\* Mutant: the failure is written without looking at the status.
FailTurnAlways(t) ==
    /\ tasks[t].pc = "fail"
    /\ row' = Row("failed", "none", 0)
    /\ Goto(t, "finish")
    /\ UNCHANGED <<questions, session, memory, bounds>>

FailTurnIfActive(t) ==
    /\ tasks[t].pc = "fail"
    /\ row' = IF row.status \in {"idle", "preparing_context", "calling_model"}
              THEN Row("failed", "none", 0) ELSE row
    /\ Goto(t, "finish")
    /\ UNCHANGED <<questions, session, memory, bounds>>

Finish(t) ==
    /\ tasks[t].pc = "finish"
    /\ CloseTurn /\ Done(t)
    /\ UNCHANGED <<row, questions, session, bounds>>

-----------------------------------------------------------------------------
(* Answering a question.                                                   *)

\* resolve_question, or the worker for questions that are due, or
\* resolve_approval: a compare and swap, so that only one answer counts.
Answer(q, action) ==
    /\ questions[q].status = "pending"
    /\ questions[q].kind # "limit" => action = "resume"
    /\ questions' = [questions EXCEPT ![q].status = "answered", ![q].action = action,
                                      ![q].revision = @ + 1]
    /\ Spawn([Idle EXCEPT !.role = "answer", !.pc = "answered", !.q = q,
                          !.revision = questions[q].revision + 1, !.action = action])
    /\ UNCHANGED <<row, session, memory, cancelAsked, everClosed>>

\* A decision on a question that cannot be carried out is given back; one on
\* an approval is not: its tool has run.
GiveUp(t) == IF questions[tasks[t].q].kind = "approval" THEN Done(t) ELSE Goto(t, "rollback")

\* The answer is published; an approved tool is run before.
PublishAnswer(t) ==
    /\ tasks[t].pc = "answered"
    /\ Goto(t, "resume") \/ GiveUp(t)
    /\ UNCHANGED <<row, questions, session, memory, bounds>>

\* maybe_resume_question and maybe_resume_turn; the latter does not ask which
\* approval the turn awaits.
MaybeResume(t) ==
    /\ tasks[t].pc = "resume"
    /\ \/ row.status # Awaiting(tasks[t].q) /\ Done(t)
       \/ /\ row.status = Awaiting(tasks[t].q)
          /\ \/ GiveUp(t)                       \* file protection changed
             \/ row.asks # tasks[t].q /\ row.status = "awaiting_input" /\ GiveUp(t)
             \/ /\ row.asks = tasks[t].q \/ row.status = "awaiting_approval"
                /\ Goto(t, IF questions[tasks[t].q].kind = "limit" /\ tasks[t].action = "stop"
                           THEN "stop" ELSE "await")
    /\ UNCHANGED <<row, questions, session, memory, bounds>>

\* wait_for_turn_closed; the provider may be unavailable and the wait times out.
AwaitClosed(t) ==
    /\ tasks[t].pc = "await"
    /\ \/ GiveUp(t)
       \/ /\ scope = NoTask
          /\ Goto(t, IF questions[tasks[t].q].kind = "limit" THEN "claim" ELSE "open")
    /\ UNCHANGED <<row, questions, session, memory, bounds>>

StillAnswered(t) ==
    /\ questions[tasks[t].q].status = "answered"
    /\ questions[tasks[t].q].revision = tasks[t].revision

\* claim_awaiting_turn_resume
ClaimResume(t) ==
    /\ tasks[t].pc = "claim"
    /\ IF row.status = "awaiting_input" /\ row.marker = "limit" /\ StillAnswered(t)
       THEN row' = [row EXCEPT !.status = "preparing_context"] /\ Goto(t, "open")
       ELSE Goto(t, "unclaimed") /\ UNCHANGED row
    /\ UNCHANGED <<questions, session, memory, bounds>>

ClaimLost(t) ==
    /\ tasks[t].pc = "unclaimed"
    /\ IF row.status # "awaiting_input" THEN Done(t) ELSE Goto(t, "rollback")
    /\ UNCHANGED <<row, questions, session, memory, bounds>>

\* Mutant: open_turn does not look at turn_start_blocks.
MayOpenDespiteBarrier == ~closed /\ scope = NoTask

\* Mutant: a turn that another task opened meanwhile is opened again.
MayOpenTwice == ~closed /\ blocks = 0

\* open_turn's conditions.
MayOpen == ~closed /\ blocks = 0 /\ scope = NoTask

\* The row the resumed execution will write first.  A tool-limit resume keeps
\* the checkpoint and its marker until the run writes its next one.
Resumed(t) ==
    IF questions[tasks[t].q].kind = "limit"
    THEN Row("calling_model", "limit", tasks[t].q) ELSE Row("calling_model", "none", 0)

Execute(t) == tasks' = [tasks EXCEPT ![t].role = "run", ![t].pc = "check",
                                     ![t].write = Resumed(t)]

\* open_turn
OpenTurn(t) ==
    /\ tasks[t].pc = "open"
    /\ LET limit == questions[tasks[t].q].kind = "limit"
       IN IF MayOpen
          THEN /\ scope' = t /\ UNCHANGED <<blocks, closed>>
               /\ IF limit THEN Goto(t, "confirm") ELSE Execute(t)
          ELSE /\ IF limit THEN Goto(t, "refused") ELSE GiveUp(t)
               /\ UNCHANGED memory
    /\ UNCHANGED <<row, questions, session, bounds>>

OpenRefused(t) ==
    /\ tasks[t].pc = "refused"
    /\ IF scope # NoTask THEN Done(t) ELSE Goto(t, "rollback")
    /\ UNCHANGED <<row, questions, session, memory, bounds>>

\* confirm_preparing_turn_resume
ConfirmResume(t) ==
    /\ tasks[t].pc = "confirm"
    /\ Goto(t, IF row.status = "preparing_context" /\ row.marker = "limit" /\ StillAnswered(t)
               THEN "spawn" ELSE "unwind")
    /\ UNCHANGED <<row, questions, session, memory, bounds>>

SpawnResumed(t) ==
    /\ tasks[t].pc = "spawn"
    /\ IF tasks[t].cancelled THEN Goto(t, "unwind") ELSE Execute(t)
    /\ UNCHANGED <<row, questions, session, memory, bounds>>

Unwind(t) ==
    /\ tasks[t].pc = "unwind"
    /\ CloseTurn /\ Done(t)
    /\ UNCHANGED <<row, questions, session, bounds>>

-----------------------------------------------------------------------------
(* Stopping a paused turn, and giving a decision back.                     *)

StopFailed(t) == Goto(t, IF tasks[t].role = "cancel" THEN "unblock" ELSE "rollback")
Stopped(t)    == IF tasks[t].role = "cancel" THEN Goto(t, "unblock") ELSE Done(t)

\* stop_tool_call_limit_turn: wait_for_turn_closed ...
StopWaits(t) ==
    /\ tasks[t].pc = "stop"
    /\ (scope = NoTask /\ Goto(t, "stopping")) \/ StopFailed(t)
    /\ UNCHANGED <<row, questions, session, memory, bounds>>

\* Mutant: a turn whose resume was claimed counts as executing.
PreExecutionUnclaimed == row.status = "awaiting_input" /\ row.marker = "limit"

\* cancel_turn's tool_limit_pre_execution
PreExecution == row.status \in {"awaiting_input", "preparing_context"} /\ row.marker = "limit"

Withdrawn == [q \in DOMAIN questions |->
                IF questions[q].status = "pending" /\ questions[q].kind # "approval"
                THEN [questions[q] EXCEPT !.status = "cancelled", !.revision = @ + 1]
                ELSE questions[q]]

\* ... and cancel_paused_turn_and_pending_questions.
StopPaused(t) ==
    /\ tasks[t].pc = "stopping"
    /\ IF PreExecution
       THEN /\ row' = [row EXCEPT !.status = "cancelled", !.marker = "none"]
            /\ questions' = Withdrawn
            /\ Stopped(t)
       ELSE Goto(t, "unstopped") /\ UNCHANGED <<row, questions>>
    /\ UNCHANGED <<session, memory, bounds>>

StopLost(t) ==
    /\ tasks[t].pc = "unstopped"
    /\ IF row.status \in Terminal THEN Stopped(t) ELSE StopFailed(t)
    /\ UNCHANGED <<row, questions, session, memory, bounds>>

\* rollback_question_decision: the turn is read, ...
Rollback(t) ==
    /\ tasks[t].pc = "rollback"
    /\ LET q == tasks[t].q
           limit == row.marker = "limit" /\ row.asks = q
       IN CASE row.status = "preparing_context" /\ limit -> Goto(t, "token")
            [] row.status = "awaiting_input" /\ row.asks = q -> Goto(t, "reopen")
            [] OTHER -> Done(t)
    /\ UNCHANGED <<row, questions, session, memory, bounds>>

RollbackToken(t) ==
    /\ tasks[t].pc = "token"
    /\ IF scope # NoTask THEN Done(t) ELSE Goto(t, "restore")
    /\ UNCHANGED <<row, questions, session, memory, bounds>>

\* ... restore_preparing_turn_resume takes the claim back, ...
RestorePreparing(t) ==
    /\ tasks[t].pc = "restore"
    /\ IF row.status = "preparing_context" /\ row.marker = "limit"
       THEN row' = [row EXCEPT !.status = "awaiting_input"] /\ Goto(t, "reopen")
       ELSE Done(t) /\ UNCHANGED row
    /\ UNCHANGED <<questions, session, memory, bounds>>

\* ... and reopen_answered_question_request asks again.
ReopenQuestion(t) ==
    /\ tasks[t].pc = "reopen"
    /\ LET q == tasks[t].q
       IN questions' = IF StillAnswered(t) /\ row.status = "awaiting_input"
                          /\ row.marker = (IF questions[q].kind = "limit" THEN "limit" ELSE "none")
                       THEN [questions EXCEPT ![q].status = "pending", ![q].action = "none",
                                               ![q].revision = @ + 1]
                       ELSE questions
    /\ Done(t)
    /\ UNCHANGED <<row, session, memory, bounds>>

-----------------------------------------------------------------------------
(* Cancelling the turn.                                                    *)

RequestCancel ==
    /\ Spawn([Idle EXCEPT !.role = "cancel", !.pc = "cancel"]) /\ cancelAsked' = TRUE
    /\ UNCHANGED <<row, questions, session, memory, everClosed>>

\* cancel_turn reads the row and takes one of two ways.
CancelReads(t) ==
    /\ tasks[t].pc = "cancel"
    /\ Goto(t, IF PreExecution THEN "barrier" ELSE "signal")
    /\ UNCHANGED <<row, questions, session, memory, bounds>>

CancelToken == IF scope = NoTask THEN tasks ELSE [tasks EXCEPT ![scope].cancelled = TRUE]

CancelSignals(t) ==
    /\ tasks[t].pc = "signal"
    /\ tasks' = [CancelToken EXCEPT ![t] = Idle]
    /\ UNCHANGED <<row, questions, session, memory, bounds>>

\* begin_turn_cancellation
BeginCancellation(t) ==
    /\ tasks[t].pc = "barrier"
    /\ blocks' = blocks + 1
    /\ tasks' = [CancelToken EXCEPT ![t].pc = "drain"]
    /\ UNCHANGED <<row, questions, session, scope, closed, bounds>>

CancelDrains(t) ==
    /\ tasks[t].pc = "drain"
    /\ (scope = NoTask /\ Goto(t, "latest")) \/ Goto(t, "unblock")
    /\ UNCHANGED <<row, questions, session, memory, bounds>>

\* Mutant: an early return skips finish_turn_cancellation.
CancelLatestLeaks(t) ==
    /\ tasks[t].pc = "latest"
    /\ IF PreExecution THEN Goto(t, "stop") ELSE Done(t)
    /\ UNCHANGED <<row, questions, session, memory, bounds>>

CancelLatest(t) ==
    /\ tasks[t].pc = "latest"
    /\ Goto(t, IF PreExecution THEN "stop" ELSE "unblock")
    /\ UNCHANGED <<row, questions, session, memory, bounds>>

\* finish_turn_cancellation
FinishCancellation(t) ==
    /\ tasks[t].pc = "unblock"
    /\ blocks' = blocks - 1 /\ Done(t)
    /\ UNCHANGED <<row, questions, session, scope, closed, bounds>>

-----------------------------------------------------------------------------
(* The session and the daemon around the turn.                             *)

\* close_session: one transaction on the rows, then the registry.
CloseSession ==
    /\ Lifecycle /\ session = "active"
    /\ session' = "archived"
    /\ row' = IF row.status \in Terminal THEN row
              ELSE [row EXCEPT !.status = "cancelled", !.marker = "closed"]
    /\ questions' = Withdrawn
    /\ Spawn([Idle EXCEPT !.role = "close", !.pc = "close_scope"])
    /\ everClosed' = TRUE
    /\ UNCHANGED <<memory, cancelAsked>>

CloseScope(t) ==
    /\ tasks[t].pc = "close_scope"
    /\ closed' = TRUE /\ scope' = NoTask /\ UNCHANGED blocks
    /\ tasks' = [CancelToken EXCEPT ![t] = Idle]
    /\ UNCHANGED <<row, questions, session, bounds>>

\* restore_session, then reopen_session.
RestoreSession ==
    /\ Lifecycle /\ session = "archived"
    /\ session' = "active"
    /\ Spawn([Idle EXCEPT !.role = "restore", !.pc = "reopen_scope"])
    /\ UNCHANGED <<row, questions, memory, cancelAsked, everClosed>>

ReopenScope(t) ==
    /\ tasks[t].pc = "reopen_scope"
    /\ closed' = FALSE /\ UNCHANGED <<scope, blocks>> /\ Done(t)
    /\ UNCHANGED <<row, questions, session, bounds>>

\* The daemon dies and comes back: its memory is gone, the rows are kept, and
\* reconcile_tool_call_limit_pauses looks at the question the turn awaits.
Crash ==
    /\ crashes < MaxCrashes /\ crashes' = crashes + 1
    /\ scope' = NoTask /\ blocks' = 0 /\ closed' = FALSE
    /\ \E t \in Tasks :
         tasks' = [u \in Tasks |->
           IF u = t /\ PreExecution /\ questions[row.asks].status = "answered"
           THEN [Idle EXCEPT !.role = "reconcile", !.pc = "reconcile", !.q = row.asks,
                             !.revision = questions[row.asks].revision,
                             !.action = questions[row.asks].action]
           ELSE Idle]
    /\ UNCHANGED <<row, questions, session, requests, cancelAsked, everClosed>>

\* One claimed before the crash is given back first; then the persisted choice
\* is carried out, or given back when no provider is ready.
Reconcile(t) ==
    /\ tasks[t].pc = "reconcile"
    /\ row' = [row EXCEPT !.status = "awaiting_input"]
    /\ \/ tasks[t].action = "stop" /\ Goto(t, "stop")
       \/ tasks[t].action = "resume" /\ \E pc \in {"resume", "rollback"} : Goto(t, pc)
    /\ UNCHANGED <<questions, session, memory, bounds>>

-----------------------------------------------------------------------------
Step(t) ==
    \/ UpdateTurnCheck(t) \/ PrepareFails(t) \/ UpdateTurnWrite(t) \/ RunEnds(t)
    \/ AskUser(t) \/ PauseForLimit(t) \/ ExecutionFails(t) \/ FailsEarly(t)
    \/ FailTurnIfActive(t) \/ Finish(t)
    \/ PublishAnswer(t) \/ MaybeResume(t) \/ AwaitClosed(t) \/ ClaimResume(t)
    \/ ClaimLost(t) \/ OpenTurn(t) \/ OpenRefused(t) \/ ConfirmResume(t)
    \/ SpawnResumed(t) \/ Unwind(t)
    \/ StopWaits(t) \/ StopPaused(t) \/ StopLost(t)
    \/ Rollback(t) \/ RollbackToken(t) \/ RestorePreparing(t) \/ ReopenQuestion(t)
    \/ CancelReads(t) \/ CancelSignals(t) \/ BeginCancellation(t) \/ CancelDrains(t)
    \/ CancelLatest(t) \/ FinishCancellation(t)
    \/ CloseScope(t) \/ ReopenScope(t) \/ Reconcile(t)

Next ==
    \/ \E t \in Tasks : Step(t)
    \/ \E q \in DOMAIN questions, action \in {"resume", "stop"} : Answer(q, action)
    \/ RequestCancel \/ CloseSession \/ RestoreSession \/ Crash

\* Every wait in a task has a timeout and every agent run ends, so the runtime
\* takes each task on until it is done.
Spec == Init /\ [][Next]_vars /\ \A t \in Tasks : WF_vars(Step(t))

-----------------------------------------------------------------------------
\* Every variable keeps its type.
TypeOK ==
    /\ row \in [status : {"idle", "preparing_context", "calling_model", "awaiting_input",
                         "awaiting_approval"}
                          \cup Terminal,
               marker : {"none", "limit", "closed"}, asks : 0..Len(questions)]
    /\ questions \in Seq([kind : Kinds, status : {"pending", "answered", "cancelled"},
                          revision : Nat, action : {"none", "resume", "stop"}])
    /\ session \in {"active", "archived"}
    /\ scope \in Tasks \cup {NoTask} /\ blocks \in Nat /\ closed \in BOOLEAN
    /\ \A t \in Tasks : /\ tasks[t].role \in Roles
                        /\ tasks[t].pc \in Executing \cup Handling \cup {"idle"}
                        /\ tasks[t].q \in 0..Len(questions)

\* Every barrier against starting the turn has a cancellation that will lift it,
\* also when that cancellation fails, when several run at once and when one
\* finds the turn settled: a barrier without an owner would keep the turn from
\* ever being resumed.
BarrierOwned ==
    blocks = Cardinality({t \in Tasks : tasks[t].role = "cancel"
                                        /\ tasks[t].pc \notin {"cancel", "barrier", "signal"}})

\* The registry of running turns fits the tasks that use it.
RegistryConsistent == TypeOK /\ BarrierOwned

\* The turn has asked for more than one approval.
SeveralApprovals ==
    Cardinality({q \in DOMAIN questions : questions[q].kind = "approval"}) > 1

\* Never do two tasks run the agent for the turn at once: each would call the
\* model and run tools on the same conversation.  open_turn, wait_for_turn_closed,
\* the claim of the row and update_turn must exclude it between them, also when a
\* session close has taken a running task's scope away.  The exception is a turn
\* with several approvals whose session is closed and restored while they are
\* being carried out: maybe_resume_turn neither asks which approval the turn
\* awaits nor claims the row.
OneExecution ==
    \/ everClosed /\ SeveralApprovals
    \/ Cardinality({t \in Tasks : tasks[t].pc \in {"running", "asked", "pause"}}) <= 1

\* begin_turn_cancellation promises that once the running turn is gone, none is
\* opened until the barrier is lifted: while a cancellation looks at the row to
\* stop it, the registry holds no scope and nobody executes the turn, but for a
\* task that a session close cut loose.
BarrierExcludesExecution ==
    (\E t \in Tasks : tasks[t].role = "cancel"
                     /\ tasks[t].pc \in {"latest", "stop", "stopping", "unstopped"})
    => /\ scope = NoTask
       /\ ~everClosed => \A t \in Tasks : tasks[t].pc \notin Executing \ {"finish"}

\* A paused turn whose question has been answered is in the hands of some task.
\* Nothing else would ever take the answer up: the question is no longer
\* pending, and the turn is not running.
InHand(q) == \E t \in Tasks : tasks[t].q = q /\ tasks[t].pc # "idle"
Stranded(kind) ==
    /\ row.status \in {"awaiting_input", "preparing_context"} /\ row.asks # 0
    /\ questions[row.asks].kind = kind /\ questions[row.asks].status = "answered"
    /\ ~InHand(row.asks)

\* An answer to the tool-limit question is carried out or given back, also when
\* tasks race for the turn and when the daemon dies half-way.  The exceptions
\* are a turn somebody asked to cancel during the handoff, which is then left
\* where a further cancellation stops it, one whose session was closed, and one
\* with several approvals: the request that gives a late one takes the turn up
\* without asking what it awaits, and so over a tool-limit pause.
LimitDecisionNotLost ==
    Stranded("limit") =>
      everClosed \/ SeveralApprovals \/ (cancelAsked /\ row.status = "preparing_context")

\* An answer to a question of the model is carried out: the agent loop continues
\* until the turn completes, pauses, fails or is cancelled.
QuestionDecisionNotLost == ~Stranded("question")

\* A turn that was completed, failed or cancelled keeps that outcome: update_turn
\* refuses to touch a terminal turn.  It reads the row before it writes, and what
\* ends the turn in between is overwritten: a session close, or a cancellation of
\* the tool-limit pause that a late one of several approvals has resumed.  Apart
\* from these nothing may.
TerminalIsFinal ==
    [][row.status \in Terminal /\ ~everClosed /\ ~SeveralApprovals
         => row'.status = row.status]_vars
=============================================================================
