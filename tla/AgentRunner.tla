----------------------------- MODULE AgentRunner -----------------------------
(***************************************************************************)
(* One run of the agent loop (agent-core/src/lib.rs, run_inner) with the   *)
(* turn machine, the step queue, the tool waves, the retries, the ways a   *)
(* run is cut short, and the bridge task that feeds user input into it     *)
(* (daemon/src/lib.rs, bridge_persistent_step_inputs).                     *)
(*                                                                         *)
(* The runner is one task; an action is what it does between two awaits.   *)
(* Every select! is a choice between the branches that are ready.  The     *)
(* model, the tools, the clock and the user are the environment.  Message  *)
(* texts, token counts and tool arguments are abstracted to what the       *)
(* control flow looks at.                                                  *)
(***************************************************************************)
EXTENDS Integers, FiniteSets, StepQueue, ResourceClaims

CONSTANTS
    MaxModelCalls,      \* TurnLimits.max_model_calls
    MaxToolCalls,       \* TurnLimits.max_tool_calls
    MaxRetries,         \* MAX_{EMPTY_MODEL,INCOMPLETE_MODEL,MODEL_STREAM}_RETRIES
    MaxProviderRetries, \* AgentRunner.max_provider_retries
    RepeatedFailures,   \* AgentRunner.repeated_failure_limit
    MaxCallsPerFrame,   \* bound: tool calls of one model response
    Fingerprints,       \* name:arguments of tool calls
    ToolClaims,         \* claim sets a prepared call may have
    Inputs,             \* what users may submit: sequences of names of inputs
    Steers,             \* the names among them submitted in steer mode
    Capacity            \* capacity of the ingress channel

ASSUME BoundsAssumption ==
    /\ {MaxModelCalls, MaxToolCalls, MaxRetries, MaxProviderRetries} \subseteq Nat
    /\ {RepeatedFailures, MaxCallsPerFrame, Capacity} \subseteq Nat \ {0}
    /\ \A steps \in Inputs : steps \in Seq(STRING) /\ IsInjective(steps)

VARIABLES
    pc,         \* which await the runner is at
    status,     \* TurnMachine.status
    outcome,    \* "none" while running, then the AgentRunStatus or "error"
    modelCalls, toolCalls,
    retries,    \* the three consecutive_* counters
    start,      \* locals of stream_with_retry
    queue,      \* StepRequestQueue
    messages,   \* request.messages
    reminded,   \* budget_convergence_reminder_sent
    reply,      \* what the current stream produced
    proposed,   \* number of calls the model has made: the next call's id
    schedule,   \* calls waiting in the ToolSchedule
    wave,       \* calls that are running
    failures,   \* consecutive failures per fingerprint
    cancelled,  \* the cancellation token
    chan,       \* messages in the ingress channel
    closed,     \* the receiver was closed
    bridge,     \* what the bridge task is doing
    next,       \* index of the next input the bridge looks at
    consumed,   \* inputs whose rows say they were consumed by this turn
    inputs      \* the inputs of this behaviour, in submission order; never changes

machine == <<status, modelCalls, toolCalls, retries>>
ingress == <<chan, closed, bridge, next, consumed>>
tools   == <<proposed, schedule, wave, failures>>
vars    == <<pc, outcome, machine, start, queue, messages, reminded, reply,
             tools, cancelled, ingress, inputs>>

-----------------------------------------------------------------------------
(* Data *)

Msg(k, calls, step) == [k |-> k, calls |-> calls, step |-> step]

UserMsg      == Msg("user", {}, <<>>)
TextMsg      == Msg("assistant", {}, <<>>)
FrameMsg(cs) == Msg("frame", cs, <<>>)
ResultMsg(c) == Msg("result", {c}, <<>>)
StepMsg(s)   == Msg("step", {}, <<s>>)
NudgeMsg     == Msg("nudge", {}, <<>>)
ReminderMsg  == Msg("reminder", {}, <<>>)

\* Steer merges into the next step, queue drives one of its own.
StepRequest(s) ==
    IF s \in Steers
    THEN Request("steer_input", <<StepMsg(s)>>, "active_turn_only", TRUE, FALSE)
    ELSE Request("queued_input", <<StepMsg(s)>>, "active_or_next_turn", FALSE, FALSE)

Outcomes == {"completed", "failed", "awaiting_input", "awaiting_approval"}

\* Locals that go out of scope return to these values.
FreshStart(media) == [attempt |-> 0, compacted |-> FALSE, media |-> media]

EmptyReply == [text |-> "none", calls |-> <<>>]

Calls(frame) == {frame[i].id : i \in DOMAIN frame}

\* valid(from, to), the transition table of TurnMachine.
Valid(from, to) ==
    \/ /\ to = "cancelled"
       /\ from \in {"idle", "preparing_context", "calling_model", "awaiting_input",
                    "awaiting_approval", "running_tool"}
    \/ from = "idle" /\ to = "preparing_context"
    \/ from = "preparing_context" /\ to \in {"calling_model", "failed"}
    \/ /\ from = "calling_model"
       /\ to \in {"awaiting_input", "awaiting_approval", "running_tool",
                  "completed", "failed"}
    \/ /\ from \in {"awaiting_input", "awaiting_approval"}
       /\ to \in {"running_tool", "calling_model", "failed"}
    \/ /\ from = "running_tool"
       /\ to \in {"awaiting_input", "awaiting_approval", "calling_model", "failed"}

\* The run returns Ok(result(..)) in status s, or Err when the machine refuses.
End(s, msgs) ==
    /\ pc' = "end"
    /\ messages' = msgs /\ queue' = <<>>
    /\ IF Valid(status, s)
       THEN status' = s /\ outcome' = s
       ELSE status' = status /\ outcome' = "invalid_transition"
    /\ UNCHANGED <<modelCalls, toolCalls, retries>>

\* The run returns Err: the caller gets no messages.
Abort ==
    /\ pc' = "end" /\ outcome' = "error"
    /\ UNCHANGED <<machine, queue, messages>>

Drained   == messages \o DrainMaterialized(queue)
Cancelled == messages \o DrainMaterialized(AbortTurnScoped(queue))

Init ==
    /\ pc = "loop" /\ outcome = "none" /\ status = "calling_model"
    /\ modelCalls = 0 /\ toolCalls = 0
    /\ retries = [empty |-> 0, incomplete |-> 0, stream |-> 0]
    /\ start \in {FreshStart(media) : media \in BOOLEAN}
    /\ queue = <<Request("user_input", <<UserMsg>>, "new_turn", FALSE, TRUE)>>
    /\ messages = <<>> /\ reminded = FALSE /\ reply = EmptyReply
    /\ proposed = 0 /\ schedule = <<>> /\ wave = <<>>
    /\ failures = [f \in Fingerprints |-> 0]
    /\ cancelled = FALSE
    /\ chan = <<>> /\ closed = FALSE /\ bridge = "idle" /\ next = 1
    /\ consumed = {} /\ inputs \in Inputs

-----------------------------------------------------------------------------
(* Head of the loop: no await between drain_external_steps and the model call. *)

\* drain_external_steps
Gathered == queue \o Admissible(chan)

\* Cancelled, or nothing to do: both return with what was gathered.
LoopStops ==
    /\ pc = "loop" /\ (cancelled \/ Gathered = <<>>)
    /\ chan' = <<>>
    /\ IF cancelled
       THEN End("cancelled", messages \o DrainMaterialized(AbortTurnScoped(Gathered)))
       ELSE End("completed", messages)
    /\ UNCHANGED <<start, reminded, reply, tools, cancelled, closed, bridge, next,
                   consumed>>

LoopOverLimit ==
    /\ pc = "loop" /\ ~cancelled /\ Gathered # <<>>
    /\ modelCalls >= MaxModelCalls
    /\ chan' = <<>>
    /\ End("failed", messages \o DrainMaterialized(Gathered))
    /\ UNCHANGED <<start, reminded, reply, tools, cancelled, closed, bridge, next,
                   consumed>>

\* Four fifths of the budget, rounded up.
ConvergenceThreshold == (4 * MaxModelCalls + 4) \div 5

LoopCallModel ==
    /\ pc = "loop" /\ ~cancelled /\ Gathered # <<>>
    /\ modelCalls < MaxModelCalls
    /\ chan' = <<>>
    /\ queue' = AfterBatch(Gathered)
    /\ LET remind == ~reminded /\ modelCalls >= ConvergenceThreshold IN
         /\ reminded' = (reminded \/ remind)
         /\ messages' = messages \o Batch(Gathered)
                          \o (IF remind THEN <<ReminderMsg>> ELSE <<>>)
    /\ modelCalls' = modelCalls + 1
    /\ pc' = "start"
    /\ UNCHANGED <<outcome, status, toolCalls, retries, start, reply, tools, cancelled,
                   closed, bridge, next, consumed>>

-----------------------------------------------------------------------------
(* stream_with_retry inside the first select.                              *)

StartFrame == UNCHANGED <<reminded, tools, cancelled, ingress>>

\* The cancelled branch returns without materialising what is still queued.
StartCancelled ==
    /\ pc = "start" /\ cancelled
    /\ End("cancelled", messages)
    /\ start' = FreshStart(FALSE) /\ UNCHANGED reply /\ StartFrame

\* turn_deadline or the idle timer fires before the provider answers.
StartTimeout ==
    /\ pc = "start"
    /\ End("failed", Drained)
    /\ start' = FreshStart(FALSE) /\ UNCHANGED reply /\ StartFrame

ProviderStream ==
    /\ pc = "start"
    /\ pc' = "stream" /\ start' = FreshStart(start.media)
    /\ UNCHANGED <<outcome, machine, queue, messages, reply>> /\ StartFrame

\* The provider rejects a request with media: the media is withdrawn.
ProviderRejectsMedia ==
    /\ pc = "start" /\ start.media
    /\ start' = [start EXCEPT !.media = FALSE]
    /\ UNCHANGED <<pc, outcome, machine, queue, messages, reply>> /\ StartFrame

\* Mutant: the request is compacted as often as it overflows, each time with the
\* full number of attempts.
ProviderOverflowAgain ==
    /\ pc = "start"
    /\ start' = [start EXCEPT !.attempt = 0]
    /\ UNCHANGED <<pc, outcome, machine, queue, messages, reply>> /\ StartFrame

\* The first context overflow compacts the request and tries again.
ProviderOverflow ==
    /\ pc = "start" /\ ~start.compacted
    /\ start' = [start EXCEPT !.compacted = TRUE]
    /\ UNCHANGED <<pc, outcome, machine, queue, messages, reply>> /\ StartFrame

ProviderRetry ==
    /\ pc = "start" /\ start.attempt < MaxProviderRetries
    /\ start' = [start EXCEPT !.attempt = @ + 1]
    /\ UNCHANGED <<pc, outcome, machine, queue, messages, reply>> /\ StartFrame

\* Any other provider error, or an overflow that cannot be compacted.
ProviderError ==
    /\ pc = "start"
    /\ Abort
    /\ start' = FreshStart(FALSE) /\ UNCHANGED reply /\ StartFrame

-----------------------------------------------------------------------------
(* The event loop over the model stream.                                   *)

StreamFrame == UNCHANGED <<start, reminded, tools, cancelled>>

\* preserve_partial_model_text
WithPartialText(msgs) ==
    IF reply.text = "none" THEN msgs ELSE Append(msgs, TextMsg)

StreamCancelled ==
    /\ pc = "stream" /\ cancelled
    /\ End("cancelled",
           WithPartialText(messages) \o DrainMaterialized(AbortTurnScoped(queue)))
    /\ reply' = EmptyReply /\ UNCHANGED ingress /\ StreamFrame

StreamFails ==
    End("failed", WithPartialText(messages) \o DrainMaterialized(queue))

StreamDeadline ==
    /\ pc = "stream"
    /\ StreamFails
    /\ reply' = EmptyReply /\ UNCHANGED ingress /\ StreamFrame

\* Nothing usable arrived yet, and a retry is left.
StreamRetryAllowed ==
    reply = EmptyReply /\ retries.stream < MaxRetries

StreamRetry ==
    /\ retries' = [retries EXCEPT !.stream = @ + 1]
    /\ queue' = Append(queue, Retry("model_stream_retry", <<>>))
    /\ pc' = "loop"
    /\ UNCHANGED <<outcome, status, modelCalls, toolCalls, messages>>

StreamIdle ==
    /\ pc = "stream"
    /\ IF StreamRetryAllowed THEN StreamRetry ELSE StreamFails
    /\ reply' = EmptyReply /\ UNCHANGED ingress /\ StreamFrame

StreamError ==
    /\ pc = "stream" /\ ~cancelled
    /\ IF StreamRetryAllowed THEN StreamRetry ELSE Abort
    /\ reply' = EmptyReply /\ UNCHANGED ingress /\ StreamFrame

\* receive_external_step wins the select.
StreamIngress ==
    /\ pc = "stream" /\ chan # <<>>
    /\ queue' = Append(queue, Head(chan)) /\ chan' = Tail(chan)
    /\ UNCHANGED <<pc, outcome, machine, messages, reply, closed, bridge, next,
                   consumed>>
    /\ StreamFrame

\* A text delta; "blank" text is whitespace only.
StreamText(t) ==
    /\ pc = "stream" /\ ~cancelled /\ reply.text # "full" /\ reply.text # t
    /\ reply' = [reply EXCEPT !.text = t]
    /\ UNCHANGED <<pc, outcome, machine, queue, messages, ingress>> /\ StreamFrame

\* The deltas of one tool call; a call without id or name is malformed.
StreamCall(f, malformed) ==
    /\ pc = "stream" /\ ~cancelled /\ Len(reply.calls) < MaxCallsPerFrame
    /\ reply' = [reply EXCEPT !.calls =
                   Append(@, [id |-> proposed + Len(@) + 1, fp |-> f,
                              malformed |-> malformed])]
    /\ UNCHANGED <<pc, outcome, machine, queue, messages, ingress>> /\ StreamFrame

\* record_usage over max_total_tokens.
StreamUsageOverLimit ==
    /\ pc = "stream" /\ ~cancelled
    /\ Abort
    /\ reply' = EmptyReply /\ UNCHANGED ingress /\ StreamFrame

-----------------------------------------------------------------------------
(* The stream ended; what follows runs to the next await.                  *)

HasText == reply.text = "full"

RetryOrFail(counter, request, msgs) ==
    IF retries[counter] < MaxRetries
    THEN /\ retries' = [retries EXCEPT !.stream = 0,
                          !.empty = IF counter = "empty" THEN @ + 1 ELSE 0,
                          !.incomplete = IF counter = "incomplete" THEN @ + 1 ELSE @]
         /\ queue' = Append(queue, request)
         /\ messages' = msgs /\ pc' = "loop"
         /\ UNCHANGED <<outcome, status, modelCalls, toolCalls>>
    ELSE End("failed", msgs \o DrainMaterialized(queue))

EmptyResponse ==
    /\ pc = "stream" /\ reply.calls = <<>> /\ ~HasText
    /\ RetryOrFail("empty", Retry("empty_model_retry", <<NudgeMsg>>), messages)
    /\ reply' = EmptyReply /\ UNCHANGED ingress /\ StreamFrame

\* Output limit reached: the text is kept, the calls are not.
TruncatedResponse ==
    /\ pc = "stream" /\ (reply.calls # <<>> \/ HasText)
    /\ RetryOrFail("incomplete", Retry("incomplete_model_retry", <<NudgeMsg>>),
                   WithPartialText(messages))
    /\ reply' = EmptyReply /\ UNCHANGED ingress /\ StreamFrame

ResetRetries == [empty |-> 0, incomplete |-> 0, stream |-> 0]

\* A final answer: go on if a step arrived meanwhile, else close the ingress.
FinalResponse ==
    /\ pc = "stream" /\ reply.calls = <<>> /\ HasText
    /\ messages' = Append(messages, TextMsg)
    /\ retries' = ResetRetries
    /\ queue' = Gathered /\ chan' = <<>>
    /\ IF Gathered # <<>> THEN pc' = "loop" /\ UNCHANGED closed
                          ELSE pc' = "closing" /\ closed' = TRUE
    /\ reply' = EmptyReply
    /\ UNCHANGED <<outcome, status, modelCalls, toolCalls, bridge, next, consumed>>
    /\ StreamFrame

\* close_and_drain_external_steps: recv() on the closed channel returns what is
\* left, and ends only when no permit is outstanding.
ClosingReceive ==
    /\ pc = "closing" /\ chan # <<>>
    /\ queue' = queue \o Admissible(<<Head(chan)>>) /\ chan' = Tail(chan)
    /\ UNCHANGED <<pc, outcome, machine, start, messages, reminded, reply, tools,
                   cancelled, closed, bridge, next, consumed>>

\* Mutant: the drain stops when the channel is empty, permit or not.
ClosingIgnoresPermit ==
    /\ pc = "closing" /\ chan = <<>>
    /\ IF queue # <<>>
       THEN pc' = "loop" /\ UNCHANGED <<outcome, machine, queue, messages>>
       ELSE End("completed", messages)
    /\ UNCHANGED <<start, reminded, reply, tools, cancelled, ingress>>

ClosingDone ==
    /\ pc = "closing" /\ chan = <<>> /\ bridge = "idle"
    /\ IF queue # <<>>
       THEN pc' = "loop" /\ UNCHANGED <<outcome, machine, queue, messages>>
       ELSE End("completed", messages)
    /\ UNCHANGED <<start, reminded, reply, tools, cancelled, ingress>>

MalformedCalls ==
    /\ pc = "stream" /\ \E i \in DOMAIN reply.calls : reply.calls[i].malformed
    /\ Abort
    /\ reply' = EmptyReply /\ UNCHANGED ingress /\ StreamFrame

\* All calls of the response count against the tool budget at once.
OverBudget == toolCalls + Len(reply.calls) > MaxToolCalls

\* The response has well-formed calls, but more than the budget has left: all
\* of them are answered without being run and the run pauses.
OverToolLimit ==
    /\ pc = "stream" /\ reply.calls # <<>>
    /\ \A i \in DOMAIN reply.calls : ~reply.calls[i].malformed
    /\ OverBudget
    /\ proposed' = proposed + Len(reply.calls)
    /\ End("awaiting_input",
           Append(messages, FrameMsg(Calls(reply.calls)))
             \o [i \in DOMAIN reply.calls |-> ResultMsg(reply.calls[i].id)]
             \o DrainMaterialized(queue))
    /\ reply' = EmptyReply
    /\ UNCHANGED <<start, reminded, schedule, wave, failures, cancelled, ingress>>

RunTools ==
    /\ pc = "stream" /\ reply.calls # <<>>
    /\ \A i \in DOMAIN reply.calls : ~reply.calls[i].malformed
    /\ ~OverBudget
    /\ messages' = Append(messages, FrameMsg(Calls(reply.calls)))
    /\ proposed' = proposed + Len(reply.calls)
    /\ retries' = ResetRetries
    /\ status' = "running_tool" /\ pc' = "prepare"
    /\ toolCalls' = toolCalls + 1
    /\ reply' = [reply EXCEPT !.text = "none"]
    /\ UNCHANGED <<outcome, modelCalls, start, queue, reminded,
                   schedule, wave, failures, cancelled, ingress>>

-----------------------------------------------------------------------------
(* Preparation and execution of the calls of one response.                 *)

\* take_ready_wave: a call joins the wave unless it conflicts with an earlier
\* call of the schedule, run or set aside (see ToolSchedule).
Blocked(calls) ==
    {i \in DOMAIN calls : \E j \in 1..(i - 1) : ToolsConflict(calls[i].claims, calls[j].claims)}

TakeReadyWave(calls) ==
    [ready   |-> Kept(calls, DOMAIN calls \ Blocked(calls)),
     blocked |-> Kept(calls, Blocked(calls))]

\* The preparation of the first call of the reply returns its claims (a call
\* that may pause, and one preparation already answered, excludes every other
\* call).  The next call is recorded and prepared, or the first wave is taken.
Prepare(claims) ==
    /\ pc = "prepare"
    /\ reply' = [reply EXCEPT !.calls = Tail(@)]
    /\ LET c == Head(reply.calls)
           pushed == Append(schedule, [id |-> c.id, fp |-> c.fp,
                                       claims |-> NormalizedClaims(claims)])
       IN  IF Len(reply.calls) > 1
           THEN /\ toolCalls' = toolCalls + 1 /\ schedule' = pushed
                /\ UNCHANGED <<pc, wave>>
           ELSE /\ wave' = TakeReadyWave(pushed).ready
                /\ schedule' = TakeReadyWave(pushed).blocked
                /\ pc' = "wave" /\ UNCHANGED toolCalls
    /\ UNCHANGED <<outcome, status, modelCalls, retries, start, queue, messages,
                   reminded, proposed, failures, cancelled, ingress>>

ToolsFrame == UNCHANGED <<start, reminded, reply, tools, cancelled, ingress>>

ToolsCancelled ==
    /\ pc \in {"prepare", "wave"} /\ cancelled
    /\ End("cancelled", Cancelled)
    /\ ToolsFrame

ToolsDeadline ==
    /\ pc \in {"prepare", "wave"}
    /\ End("failed", Drained)
    /\ ToolsFrame

Results == {"completed", "failed", "awaiting_input", "awaiting_approval"}

TooManyFailures(n) == n >= RepeatedFailures

\* Consecutive failures of f when the first n outcomes have been looked at, in
\* wave order: those after the last completion, or added to the earlier ones.
Streak(outcomes, f, n) ==
    LET with(result) == {i \in 1..n : wave[i].fp = f /\ outcomes[i] = result}
        since == {i \in with("failed") : \A j \in with("completed") : j < i}
    IN  Cardinality(since) + (IF with("completed") = {} THEN failures[f] ELSE 0)

\* What the outcomes of a wave come to: interactive calls pause the run and stay
\* without an answer, the first of them decides how.
Settle(outcomes) ==
    LET answered == {i \in DOMAIN wave : outcomes[i] \in {"completed", "failed"}}
        open     == DOMAIN wave \ answered
        results  == Kept(wave, answered)
    IN  [queue    |-> queue \o [k \in DOMAIN results |-> ToolResult(ResultMsg(results[k].id))],
         failures |-> [f \in Fingerprints |-> Streak(outcomes, f, Len(wave))],
         paused   |-> IF open = {} THEN "no" ELSE outcomes[Min(open)],
         repeated |-> \E i \in DOMAIN wave : /\ outcomes[i] = "failed"
                                             /\ TooManyFailures(Streak(outcomes, wave[i].fp, i))]

\* Mutant: the waiting calls of a paused run are left without an answer.
DeferNone == <<>>

\* defer_pending_tool_calls
DeferPending == [i \in DOMAIN schedule |-> ToolResult(ResultMsg(schedule[i].id))]

\* join_all returned.
WaveSettled(outcomes) ==
    /\ pc = "wave"
    /\ LET s == Settle(outcomes) IN
       /\ failures' = s.failures
       /\ \/ /\ s.paused # "no"
             /\ End(s.paused, messages \o DrainMaterialized(s.queue \o DeferPending))
             /\ schedule' = <<>> /\ UNCHANGED wave
          \/ /\ s.paused = "no" /\ s.repeated
             /\ End("failed", messages \o DrainMaterialized(s.queue))
             /\ UNCHANGED <<schedule, wave>>
          \/ /\ s.paused = "no" /\ ~s.repeated /\ schedule # <<>>
             /\ queue' = s.queue
             /\ wave' = TakeReadyWave(schedule).ready
             /\ schedule' = TakeReadyWave(schedule).blocked
             /\ UNCHANGED <<pc, outcome, machine, messages>>
          \/ /\ s.paused = "no" /\ ~s.repeated /\ schedule = <<>>
             /\ queue' = Append(s.queue, Continuation("tool_results_ready"))
             /\ status' = "calling_model" /\ pc' = "loop" /\ wave' = <<>>
             /\ UNCHANGED <<outcome, modelCalls, toolCalls, retries, messages, schedule>>
    /\ UNCHANGED <<start, reminded, reply, proposed, cancelled, ingress>>

-----------------------------------------------------------------------------
(* The user and the bridge task.                                           *)

Cancel ==
    /\ pc # "end" /\ ~cancelled
    /\ cancelled' = TRUE
    /\ UNCHANGED <<pc, outcome, machine, start, queue, messages, reminded, reply,
                   tools, ingress>>

BridgeFrame == UNCHANGED <<pc, outcome, machine, start, queue, messages, reminded,
                           reply, tools, cancelled, closed>>

\* sender.reserve() succeeds while the channel is open and has room.
BridgeReserve ==
    /\ pc # "end" /\ bridge = "idle" /\ next <= Len(inputs)
    /\ ~closed /\ Len(chan) < Capacity
    /\ bridge' = "permit"
    /\ UNCHANGED <<chan, next, consumed>> /\ BridgeFrame

\* consume_turn_input_into_active_turn commits: the input will not be offered
\* to another turn.
BridgeConsume ==
    /\ pc # "end" /\ bridge = "permit"
    /\ bridge' = "consumed" /\ consumed' = consumed \cup {inputs[next]}
    /\ UNCHANGED <<chan, next>> /\ BridgeFrame

\* The input was cancelled, is refused by the protection policy or could not be
\* read: the permit is dropped.
BridgeSkip ==
    /\ pc # "end" /\ bridge = "permit"
    /\ bridge' = "idle" /\ next' = next + 1
    /\ UNCHANGED <<chan, consumed>> /\ BridgeFrame

BridgeSend ==
    /\ pc # "end" /\ bridge = "consumed"
    /\ chan' = Append(chan, StepRequest(inputs[next]))
    /\ bridge' = "idle" /\ next' = next + 1
    /\ UNCHANGED consumed /\ BridgeFrame

Runner ==
    \/ LoopStops \/ LoopOverLimit \/ LoopCallModel
    \/ StartCancelled \/ StartTimeout \/ ProviderStream \/ ProviderRejectsMedia
    \/ ProviderOverflow \/ ProviderRetry \/ ProviderError
    \/ StreamCancelled \/ StreamDeadline \/ StreamIdle \/ StreamError
    \/ EmptyResponse \/ TruncatedResponse \/ FinalResponse
    \/ ClosingReceive \/ ClosingDone
    \/ MalformedCalls \/ OverToolLimit \/ RunTools
    \/ \E c \in ToolClaims : Prepare(c)
    \/ ToolsCancelled \/ ToolsDeadline
    \/ \E o \in [DOMAIN wave -> Results] : WaveSettled(o)

\* Events of the stream that do not end it.
StreamEvent ==
    \/ \E t \in {"blank", "full"} : StreamText(t)
    \/ \E f \in Fingerprints, m \in BOOLEAN : StreamCall(f, m)
    \/ StreamIngress \/ StreamUsageOverLimit

Bridge == BridgeReserve \/ BridgeConsume \/ BridgeSkip \/ BridgeSend

Next == (Runner \/ StreamEvent \/ Bridge \/ Cancel) /\ UNCHANGED inputs

\* The task of a runner that can go on is scheduled: providers and tools answer
\* or the timers of the select fire.  The bridge's storage calls return.
Spec == Init /\ [][Next]_vars /\ WF_vars(Runner /\ UNCHANGED inputs)
        /\ WF_vars(Bridge /\ UNCHANGED inputs)

-----------------------------------------------------------------------------
(* Properties *)

\* Every variable keeps its type, and the channel its capacity.
TypeOK ==
    /\ pc \in {"loop", "start", "stream", "closing", "prepare", "wave", "end"}
    /\ outcome \in {"none", "error", "cancelled", "invalid_transition"} \cup Outcomes
    /\ modelCalls \in 0..MaxModelCalls /\ toolCalls \in 0..(MaxToolCalls + 1)
    /\ retries \in [{"empty", "incomplete", "stream"} -> 0..MaxRetries]
    /\ start \in [attempt : 0..MaxProviderRetries, compacted : BOOLEAN, media : BOOLEAN]
    /\ reply.text \in {"none", "blank", "full"}
    /\ Len(chan) <= Capacity
    /\ bridge \in {"idle", "permit", "consumed"} /\ next \in 1..(Len(inputs) + 1)

Answers(c) == {i \in DOMAIN messages : messages[i] = ResultMsg(c)}

Framed == UNION {messages[i].calls : i \in {j \in DOMAIN messages : messages[j].k = "frame"}}

Unanswered == {c \in Framed : Answers(c) = {}}

\* The model is never called, and a run never completes, while a tool call it
\* made is without its one answer: run, refused by the budget, deferred behind
\* an interactive call, or failed.
EveryCallAnsweredOnce ==
    /\ \A c \in Framed : Cardinality(Answers(c)) <= 1
    /\ pc = "start" \/ outcome = "completed" => Unanswered = {}

\* A paused run leaves open exactly calls of the wave that paused; the calls
\* that were still waiting have a "deferred" answer, so that the checkpoint can
\* be resumed by answering the interactive calls alone.
PausedRunOnlyWaitsForItsWave ==
    /\ outcome = "awaiting_approval" => Unanswered # {}
    /\ outcome \in {"awaiting_input", "awaiting_approval"} => Unanswered \subseteq Calls(wave)

Occurrences(s) == {i \in DOMAIN messages : messages[i] = StepMsg(s)}

\* Input whose row says "consumed" reaches the model context of a run that
\* completes, once: closing the ingress waits for a permit that is still out.
CompletedRunLosesNoInput ==
    /\ \A i \in DOMAIN inputs : Cardinality(Occurrences(inputs[i])) <= 1
    /\ outcome = "completed" => \A s \in consumed : Occurrences(s) # {}

InFlight ==
    {s \in consumed : \/ \E i \in DOMAIN chan : chan[i].msgs = <<StepMsg(s)>>
                      \/ bridge = "consumed" /\ inputs[next] = s}

\* However a run ends, short of cancellation or an error, the input it had
\* taken from the channel is in the messages it returns.
ReceivedInputSurvives ==
    outcome \in Outcomes =>
        \A s \in consumed \ InFlight : Occurrences(s) # {}

\* Inputs of one mode enter the model context in the order of submission.
InputsKeepTheirOrder ==
    \A i, j \in DOMAIN inputs :
        (i < j /\ (inputs[i] \in Steers <=> inputs[j] \in Steers)) =>
            \A m \in Occurrences(inputs[i]), n \in Occurrences(inputs[j]) : m < n

\* The loop never comes around with nothing to do: every `continue` leaves a
\* request in the queue, so a run cannot end "completed" by running dry.
NeverRunsDry == pc = "loop" => queue # <<>>

\* The turn machine never refuses the runner: every transition it asks for is in
\* the table and the budgets checked beforehand keep record_* from failing.
MachineNeverRefuses ==
    /\ outcome # "invalid_transition"
    /\ toolCalls <= MaxToolCalls
    /\ pc \in {"loop", "start", "stream", "closing"} => status = "calling_model"
    /\ pc \in {"prepare", "wave"} => status = "running_tool"

\* A call that has failed RepeatedFailures times in a row with the same
\* arguments is never put before the model again: the run ends.
RepeatedFailureStops ==
    pc = "start" => \A f \in Fingerprints : failures[f] < RepeatedFailures

\* The runner and its turn machine agree about where the run is, and the budgets
\* and orders between its parts hold at every step.
MachineConsistent ==
    /\ TypeOK /\ NeverRunsDry /\ MachineNeverRefuses
    /\ PausedRunOnlyWaitsForItsWave /\ InputsKeepTheirOrder /\ RepeatedFailureStops

\* Input that was taken over from the user is never lost by a run that ends in
\* order.
NoInputIsLost == CompletedRunLosesNoInput /\ ReceivedInputSurvives

\* Every run ends, also when the model never stops producing calls or empty
\* answers and whatever the bridge does while the ingress is being closed.
Termination == <>(pc = "end")
==============================================================================
