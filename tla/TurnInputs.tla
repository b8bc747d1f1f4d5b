----------------------------- MODULE TurnInputs ------------------------------
(***************************************************************************)
(* The prompt queue: how follow-ups that a user sends while a turn is      *)
(* active reach that turn or start the next one (storage/src/lib.rs, the   *)
(* turns and turn_inputs tables; daemon/src/lib.rs, create_turn_input, the *)
(* bridge of a running turn and start_turn_input_worker), and the reset of *)
(* file protection, which cuts all of it off from earlier content          *)
(* (storage/src/protection.rs).                                            *)
(*                                                                         *)
(* An action is one statement or transaction, or one critical section of   *)
(* the registry of running turns.  What a turn does while it runs is       *)
(* AgentRunner; how it pauses and is resumed is PauseResume.               *)
(***************************************************************************)
EXTENDS Naturals, Sequences, FiniteSets

CONSTANTS
    Sessions,
    MaxTurns,   \* bound: turns created, one for each follow-up kept in reserve
    MaxInputs,  \* bound: follow-ups accepted
    Scenarios   \* what a behaviour may meet: the sessions in use, a bound on the
                \* changes of file protection, and what may go wrong

ASSUME InputsAssumption ==
    /\ {MaxTurns, MaxInputs} \subseteq Nat
    /\ Scenarios \subseteq [sessions : SUBSET Sessions, resets : Nat,
                            faults : SUBSET {"crash", "launch", "refuse", "pause"}]

VARIABLES
    turns,      \* turn rows, in order of creation
    inputs,     \* turn_inputs rows, in order of creation
    runtime,    \* turns that the registry holds a scope for
    mail,       \* per turn: the inputs sent to its scope
    bridge,     \* per turn: the input its bridge has looked at, 0 for none
    client,     \* per session: the create_turn_input request in progress
    worker,     \* the turn input worker
    delivered,  \* history: per input, the turns whose conversation has it
    resets,
    scenario    \* the member of Scenarios the behaviour is about; never changes

vars  == <<turns, inputs, runtime, mail, bridge, client, worker, delivered, resets, scenario>>
scopes == <<runtime, mail, bridge>>

TurnIds  == 1..MaxTurns
InputIds == 1..MaxInputs
NoRequest  == [pc |-> "none", target |-> 0, mode |-> "queue", active |-> FALSE, input |-> 0]
IdleWorker == [pc |-> "idle", input |-> 0]

Unsettled(s) == \E i \in DOMAIN inputs : inputs[i].session = s
                                         /\ inputs[i].status \in {"pending", "processing"}
\* Mutant: a turn that waits for its user does not count.
ActiveUnlessPaused(s) == \E t \in DOMAIN turns : turns[t].session = s
                                                 /\ turns[t].status \notin {"terminal", "paused"}

ActiveTurn(s) == \E t \in DOMAIN turns : turns[t].session = s /\ turns[t].status # "terminal"

Init ==
    /\ turns = <<>> /\ inputs = <<>> /\ runtime = {} /\ resets = 0
    /\ mail = [t \in TurnIds |-> <<>>] /\ bridge = [t \in TurnIds |-> 0]
    /\ client = [s \in Sessions |-> NoRequest] /\ worker = IdleWorker
    /\ delivered = [i \in InputIds |-> {}] /\ scenario \in Scenarios

NewTurn(s) == Append(turns, [session |-> s, status |-> "idle", stale |-> FALSE])

SetStatus(i, status) == inputs' = [inputs EXCEPT ![i].status = status]

-----------------------------------------------------------------------------
(* Turns.                                                                  *)

\* start_agent_turn: create_turn_with_message_and_attachments_if_idle.
PostMessage(s) ==
    /\ Len(turns) + MaxInputs < MaxTurns
    /\ ~ActiveTurn(s) /\ ~Unsettled(s)
    /\ turns' = NewTurn(s)
    /\ UNCHANGED <<inputs, scopes, client, worker, delivered, resets>>

\* launch_prepared_agent_turn opens the scope and starts the task.  The worker
\* waits for it; a handler of the API does it for a turn the user started.
Launch(t) ==
    /\ turns[t].status = "idle" /\ t \notin runtime
    /\ turns' = [turns EXCEPT ![t].status = "running"]
    /\ runtime' = runtime \cup {t}
    /\ worker' = IF worker.pc = "launch" /\ t \in delivered[worker.input] THEN IdleWorker ELSE worker
    /\ UNCHANGED <<inputs, mail, bridge, client, delivered, resets>>

\* The event of the launch cannot be published: the scope is closed and the turn
\* stays as it was created.
LaunchFails(t) ==
    /\ "launch" \in scenario.faults /\ turns[t].status = "idle" /\ t \notin runtime
    /\ turns' = [turns EXCEPT ![t].status = "unlaunched"]
    /\ worker' = IF worker.pc = "launch" /\ t \in delivered[worker.input] THEN IdleWorker ELSE worker
    /\ UNCHANGED <<inputs, scopes, client, delivered, resets>>

StopBridge(t) == mail' = [mail EXCEPT ![t] = <<>>] /\ bridge' = [bridge EXCEPT ![t] = 0]

\* execute_turn stops the bridge and writes the outcome; the scope goes later.
TurnEnds(t) ==
    /\ turns[t].status = "running" /\ t \in runtime
    /\ \E status \in {"terminal"} \cup (IF "pause" \in scenario.faults THEN {"paused"} ELSE {}) :
         turns' = [turns EXCEPT ![t].status = status]
    /\ StopBridge(t)
    /\ UNCHANGED <<inputs, runtime, client, worker, delivered, resets>>

CloseScope(t) ==
    /\ t \in runtime /\ turns[t].status # "running"
    /\ runtime' = runtime \ {t} /\ StopBridge(t)
    /\ UNCHANGED <<turns, inputs, client, worker, delivered, resets>>

ResumeTurn(t) ==
    /\ turns[t].status = "paused" /\ t \notin runtime
    /\ turns' = [turns EXCEPT ![t].status = "running"]
    /\ runtime' = runtime \cup {t}
    /\ UNCHANGED <<inputs, mail, bridge, client, worker, delivered, resets>>

-----------------------------------------------------------------------------
(* A follow-up comes in: create_turn_input of the daemon, then of storage.  *)

\* A steer needs a running turn; a queued input does not.
AdmitInput(s, t, mode) ==
    /\ client[s].pc = "none" /\ turns[t].session = s /\ Len(inputs) < MaxInputs
    /\ mode = "steer" => t \in runtime
    /\ client' = [client EXCEPT ![s] = [NoRequest EXCEPT !.pc = "validate", !.target = t,
                                          !.mode = mode, !.active = t \in runtime]]
    /\ UNCHANGED <<turns, inputs, scopes, worker, delivered, resets>>

ValidateInput(s) ==
    /\ client[s].pc = "validate"
    /\ client' = [client EXCEPT ![s] = IF turns[client[s].target].status = "terminal"
                                       THEN NoRequest ELSE [@ EXCEPT !.pc = "insert"]]
    /\ UNCHANGED <<turns, inputs, scopes, worker, delivered, resets>>

\* INSERT OR IGNORE: the index turn_inputs_one_active_steer allows one unsettled
\* steer per turn.
InsertInput(s) ==
    LET r == client[s]
        duplicate == \E i \in DOMAIN inputs :
            /\ r.mode = "steer" /\ inputs[i].mode = "steer" /\ inputs[i].target = r.target
            /\ inputs[i].status \in {"pending", "processing"}
    IN /\ r.pc = "insert" /\ Len(inputs) < MaxInputs
       /\ IF duplicate
          THEN client' = [client EXCEPT ![s] = NoRequest] /\ UNCHANGED inputs
          ELSE /\ inputs' = Append(inputs, [session |-> s, target |-> r.target, mode |-> r.mode,
                                            status |-> "pending", stale |-> FALSE])
               /\ client' = [client EXCEPT ![s].pc = "submit", ![s].input = Len(inputs) + 1]
       /\ UNCHANGED <<turns, scopes, worker, delivered, resets>>

\* submit_step_input: sent when the turn was running at admission and still is.
SubmitInput(s) ==
    LET r == client[s]
    IN /\ r.pc = "submit"
       /\ client' = [client EXCEPT ![s] = NoRequest]
       /\ mail' = IF r.active /\ r.target \in runtime
                  THEN [mail EXCEPT ![r.target] = Append(@, r.input)] ELSE mail
       /\ UNCHANGED <<turns, inputs, runtime, bridge, worker, delivered, resets>>

\* Mutant: the UPDATE has no "AND status='pending'".
CancelInputAnyway(i) ==
    /\ inputs[i].status # "cancelled"
    /\ SetStatus(i, "cancelled")
    /\ UNCHANGED <<turns, scopes, client, worker, delivered, resets>>

\* cancel_turn_input
CancelInput(i) ==
    /\ inputs[i].status = "pending"
    /\ SetStatus(i, "cancelled")
    /\ UNCHANGED <<turns, scopes, client, worker, delivered, resets>>

\* cancel_turn_inputs_for_undo: the undo of a turn takes back what waits for it,
\* all of it or, when one is being started, nothing.
UndoInputs(t) ==
    LET ofTurn(status) == {i \in DOMAIN inputs : inputs[i].target = t /\ inputs[i].status = status}
    IN /\ turns[t].status = "terminal" /\ ofTurn("pending") # {} /\ ofTurn("processing") = {}
       /\ inputs' = [i \in DOMAIN inputs |-> IF i \in ofTurn("pending")
                       THEN [inputs[i] EXCEPT !.status = "cancelled"] ELSE inputs[i]]
       /\ UNCHANGED <<turns, scopes, client, worker, delivered, resets>>

-----------------------------------------------------------------------------
(* The bridge of a running turn: bridge_persistent_step_inputs.             *)

\* The input is read and compared with the protection policy; one that predates
\* it, or whose content is refused, is cancelled.
BridgeReads(t) ==
    /\ t \in runtime /\ turns[t].status = "running" /\ bridge[t] = 0 /\ mail[t] # <<>>
    /\ mail' = [mail EXCEPT ![t] = Tail(@)]
    /\ LET i == Head(mail[t])
       IN \/ /\ inputs[i].stale \/ "refuse" \in scenario.faults
             /\ inputs' = IF inputs[i].status = "pending"
                          THEN [inputs EXCEPT ![i].status = "cancelled"] ELSE inputs
             /\ UNCHANGED bridge
          \/ /\ ~inputs[i].stale
             /\ bridge' = [bridge EXCEPT ![t] = i] /\ UNCHANGED inputs
    /\ UNCHANGED <<turns, runtime, client, worker, delivered, resets>>

\* Mutant: what was read before is not read again in the transaction.
BridgeConsumesBlindly(t) ==
    /\ bridge[t] # 0
    /\ bridge' = [bridge EXCEPT ![t] = 0]
    /\ SetStatus(bridge[t], "consumed")
    /\ delivered' = [delivered EXCEPT ![bridge[t]] = @ \cup {t}]
    /\ UNCHANGED <<turns, runtime, mail, client, worker, resets>>

\* consume_turn_input_into_active_turn
BridgeConsumes(t) ==
    /\ bridge[t] # 0
    /\ bridge' = [bridge EXCEPT ![t] = 0]
    /\ LET i == bridge[t]
       IN IF inputs[i].status = "pending" /\ inputs[i].target = t /\ turns[t].status # "terminal"
          THEN SetStatus(i, "consumed") /\ delivered' = [delivered EXCEPT ![i] = @ \cup {t}]
          ELSE UNCHANGED <<inputs, delivered>>
    /\ UNCHANGED <<turns, runtime, mail, client, worker, resets>>

-----------------------------------------------------------------------------
(* The worker: start_turn_input_worker.                                     *)

Recovered == [i \in DOMAIN inputs |->
                IF inputs[i].status = "processing"
                THEN [inputs[i] EXCEPT !.status = "pending"] ELSE inputs[i]]

\* Mutant: only queued inputs outlive the turn they were sent to.
ReadyQueued(rows) == {i \in DOMAIN rows : /\ rows[i].status = "pending"
                                          /\ rows[i].mode = "queue"
                                          /\ turns[rows[i].target].status = "terminal"
                                          /\ ~ActiveTurn(rows[i].session)}

Ready(rows) == {i \in DOMAIN rows : /\ rows[i].status = "pending"
                                    /\ turns[rows[i].target].status = "terminal"
                                    /\ ~ActiveTurn(rows[i].session)}

\* Steers first, then by age.
First(rows) == CHOOSE i \in Ready(rows) : \A j \in Ready(rows) :
                  \/ rows[i].mode = "steer" /\ rows[j].mode = "queue"
                  \/ rows[i].mode = rows[j].mode /\ i <= j

\* claim_next_ready_turn_input.  A claim left over from before a restart is first
\* made pending again once it is a minute old.
Claim ==
    /\ worker.pc = "idle"
    /\ \E rows \in {inputs, Recovered} :
         /\ Ready(rows) # {}
         /\ inputs' = [rows EXCEPT ![First(rows)].status = "processing"]
         /\ worker' = [pc |-> "check", input |-> First(rows)]
    /\ UNCHANGED <<turns, scopes, client, delivered, resets>>

\* start_claimed_turn_input takes the protection gate and compares the input with
\* the policy.  An outdated or refused input is to be cancelled, but only a pending
\* one can be: the call fails, as it does when the session's model or workspace is
\* refused, and the input goes back to pending.
StartChecks ==
    /\ worker.pc = "check"
    /\ \/ /\ ~inputs[worker.input].stale
          /\ worker' = [worker EXCEPT !.pc = "consume"]
       \/ /\ inputs[worker.input].stale \/ "refuse" \in scenario.faults
          /\ worker' = [worker EXCEPT !.pc = "requeue"]
    /\ UNCHANGED <<turns, inputs, scopes, client, delivered, resets>>

\* requeue_turn_input
Requeue ==
    /\ worker.pc = "requeue"
    /\ inputs' = IF inputs[worker.input].status = "processing"
                 THEN [inputs EXCEPT ![worker.input].status = "pending"] ELSE inputs
    /\ worker' = IdleWorker
    /\ UNCHANGED <<turns, scopes, client, delivered, resets>>

\* consume_turn_input_into_turn
StartConsumes ==
    /\ worker.pc = "consume"
    /\ LET i == worker.input
       IN IF inputs[i].status = "processing" /\ ~ActiveTurn(inputs[i].session)
          THEN /\ turns' = NewTurn(inputs[i].session)
               /\ SetStatus(i, "consumed")
               /\ delivered' = [delivered EXCEPT ![i] = @ \cup {Len(turns) + 1}]
               /\ worker' = [worker EXCEPT !.pc = "launch"]
          ELSE /\ worker' = [worker EXCEPT !.pc = "requeue"]
               /\ UNCHANGED <<turns, inputs, delivered>>
    /\ UNCHANGED <<scopes, client, resets>>

-----------------------------------------------------------------------------
\* Mutant: the worker does not hold the gate from its check to its transaction.
ResetWithoutGate ==
    /\ resets < scenario.resets
    /\ resets' = resets + 1
    /\ turns' = [t \in DOMAIN turns |-> [turns[t] EXCEPT !.stale = TRUE]]
    /\ inputs' = [i \in DOMAIN inputs |-> [inputs[i] EXCEPT !.stale = TRUE]]
    /\ UNCHANGED <<scopes, client, worker, delivered>>

\* replace_file_protection, under the exclusive gate: everything stored so far
\* falls behind the cutoff.
ResetProtection ==
    /\ resets < scenario.resets /\ worker.pc # "consume"
    /\ resets' = resets + 1
    /\ turns' = [t \in DOMAIN turns |-> [turns[t] EXCEPT !.stale = TRUE]]
    /\ inputs' = [i \in DOMAIN inputs |-> [inputs[i] EXCEPT !.stale = TRUE]]
    /\ UNCHANGED <<scopes, client, worker, delivered>>

\* The daemon dies: rows stay, everything in memory is gone.
Crash ==
    /\ "crash" \in scenario.faults
    /\ runtime' = {} /\ mail' = [t \in TurnIds |-> <<>>] /\ bridge' = [t \in TurnIds |-> 0]
    /\ client' = [s \in Sessions |-> NoRequest] /\ worker' = IdleWorker
    /\ turns' = [t \in DOMAIN turns |-> IF turns[t].status \in {"idle", "running"}
                   THEN [turns[t] EXCEPT !.status = "unlaunched"] ELSE turns[t]]
    /\ UNCHANGED <<inputs, delivered, resets>>

TurnStep(t)   == t \in DOMAIN turns /\ (Launch(t) \/ TurnEnds(t) \/ CloseScope(t))
BridgeStep(t) == BridgeReads(t) \/ BridgeConsumes(t)
ClientStep(s) == ValidateInput(s) \/ InsertInput(s) \/ SubmitInput(s)
WorkerStep    == Claim \/ StartChecks \/ Requeue \/ StartConsumes

Step ==
    \/ \E s \in scenario.sessions : PostMessage(s) \/ ClientStep(s)
    \/ \E t \in DOMAIN turns : \/ TurnStep(t) \/ LaunchFails(t) \/ ResumeTurn(t)
                               \/ BridgeStep(t) \/ UndoInputs(t)
                               \/ \E mode \in {"steer", "queue"} :
                                    AdmitInput(turns[t].session, t, mode)
    \/ \E i \in DOMAIN inputs : CancelInput(i)
    \/ WorkerStep \/ ResetProtection \/ Crash

Next == Step /\ UNCHANGED scenario

Spec == Init /\ [][Next]_vars

\* The worker polls every 100 ms, a launched turn ends (AgentRunner's Termination)
\* and its guard closes the scope, and a request that came in is carried through.
Fairness ==
    /\ WF_vars(WorkerStep /\ UNCHANGED scenario)
    /\ \A t \in TurnIds : WF_vars(TurnStep(t) /\ UNCHANGED scenario)
    /\ \A s \in Sessions : WF_vars(ClientStep(s) /\ UNCHANGED scenario)

FairSpec == Spec /\ Fairness

-----------------------------------------------------------------------------
\* Every variable keeps its type.
TypeOK ==
    /\ turns \in Seq([session : Sessions, stale : BOOLEAN,
                      status : {"idle", "unlaunched", "running", "paused", "terminal"}])
    /\ inputs \in Seq([session : Sessions, target : TurnIds, mode : {"steer", "queue"},
                       status : {"pending", "processing", "consumed", "cancelled"},
                       stale : BOOLEAN])
    /\ runtime \subseteq DOMAIN turns
    /\ \A t \in TurnIds : bridge[t] \in 0..Len(inputs) /\ mail[t] \in Seq(DOMAIN inputs)
    /\ worker.pc \in {"idle", "check", "consume", "requeue", "launch"}

\* A session has one conversation in progress: at most one of its turns is not
\* terminal, whether it was started by a message or by the worker.
OneActiveTurn ==
    \A t, u \in DOMAIN turns :
        /\ turns[t].session = turns[u].session
        /\ turns[t].status # "terminal" /\ turns[u].status # "terminal"
        => t = u

\* The queue and the registry fit together.
QueueConsistent == TypeOK /\ OneActiveTurn

\* A follow-up reaches one turn at most, the bridge's or the worker's, and none
\* at all once the user was told that it is cancelled.
DeliveredOnce ==
    \A i \in DOMAIN inputs :
        /\ Cardinality(delivered[i]) <= 1
        /\ delivered[i] # {} <=> inputs[i].status = "consumed"

\* A follow-up's outcome is final: what the user cancelled is not delivered after
\* all, and what was delivered is not offered to another turn.
InputOutcomeIsFinal ==
    [][\A i \in DOMAIN inputs : inputs[i].status \in {"consumed", "cancelled"}
                               => inputs'[i].status = inputs[i].status]_vars

\* The boundary of a protection reset: a turn that may still call the model (it
\* was created after the reset) has no follow-up from before the reset in it.
FreshTurnHasOnlyFreshInput ==
    \A i \in DOMAIN inputs : \A t \in delivered[i] : inputs[i].stale => turns[t].stale

\* "Queue submits a follow-up for the next available step, which may belong to the
\* active task or a later turn": an accepted follow-up does not stay in the queue.
\* Where a launch fails, the daemon dies or file protection is reset it may: its
\* turn stays unlaunched, or the input is claimed and requeued for ever, because
\* cancel_turn_input refuses an input that is being processed.
Calm == scenario.resets = 0 /\ scenario.faults = {}
Queued(i) == i \in DOMAIN inputs /\ inputs[i].status \in {"pending", "processing"}
QueuedInputSettles ==
    \A i \in InputIds : Calm /\ Queued(i) ~> ~Queued(i)
=============================================================================
