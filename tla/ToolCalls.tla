------------------------------ MODULE ToolCalls ------------------------------
(***************************************************************************)
(* The tool calls of one turn, from the model's request to the stored      *)
(* outcome (execution/src/lib.rs, daemon/src/code_mode.rs and the tables   *)
(* tool_calls and approvals of storage/src/lib.rs): the policy decision,   *)
(* the approval that a user may give while the turn waits or after it has  *)
(* ended, the gate that a change of the file protection takes exclusively  *)
(* and every operation shares, and the programs of Code Mode, whose worker *)
(* process asks for child calls that must not outlive it.                  *)
(*                                                                         *)
(* An action is one statement or transaction of the store, together with   *)
(* the reads before it that no other task can come between to any effect:  *)
(* what was decided is checked again where it counts.  What the policy     *)
(* decides is open at each preflight, because rules, team configuration    *)
(* and exceptions may change between two of them.  Session Full access and *)
(* turns made of one manual call are left out.  How a turn that awaits an  *)
(* approval is taken up again is the subject of PauseResume; here it       *)
(* happens in one step.                                                    *)
(***************************************************************************)
EXTENDS Naturals, FiniteSets, FiniteSetsExt

CONSTANTS
    Direct,       \* calls the model makes itself
    Programs,     \* Code Mode programs of the turn, in the order they are run
    Children,     \* calls the programs may come to ask for
    Requests,     \* the sets of calls and programs the model may make in the turn
    Resolvers,    \* requests that decide an approval
    NoCall,
    MaxCalls,     \* MAX_CALLS: child calls of one turn
    MaxPending,   \* child calls of one program at a time
    MaxCrashes    \* bound: restarts of the daemon

ASSUME ToolAssumption ==
    /\ Programs \cup Children \subseteq Nat /\ Programs \cap Children = {}
    /\ IsFiniteSet(Programs) /\ IsFiniteSet(Children)
    /\ Direct \cap (Programs \cup Children) = {} /\ NoCall \notin Programs
    /\ "run" \notin Resolvers /\ Requests \subseteq SUBSET (Direct \cup Programs)
    /\ {MaxCalls, MaxPending, MaxCrashes} \subseteq Nat

VARIABLES
    call,       \* rows of tool_calls, each with its approval
    parent,     \* the program a child call belongs to
    at,         \* where each task that works on a call is
    program,    \* the supervisors of the programs
    turn,       \* the turn: running, awaiting, ended, or stale after a crash
    protecting, \* a change of the file protection waits for the gate
    changed,    \* the file protection changed after the turn started
    up, crashes,
    effects     \* history: how often the operation of a call was begun

rows == <<call, parent>>
policy == <<protecting, changed>>
daemon == <<up, crashes>>
vars == <<call, parent, at, program, turn, protecting, changed, up, crashes, effects>>

Calls == Direct \cup Programs \cup Children

\* The tasks: the run of the turn, or its program's supervisor, works on every
\* call; a request that decides an approval works on a direct call.
Actors == ((Direct \cup Children) \X {"run"}) \cup (Direct \X Resolvers)
Run(c) == <<c, "run">>

Statuses == {"none", "awaiting", "running", "completed", "failed", "denied", "cancelled"}
Settled  == {"completed", "failed", "denied", "cancelled"}
Row(status, pol) == [status |-> status, policy |-> pol, approval |-> "none"]
NoRow == Row("none", "none")

Supervised == {"count", "process", "ended"}

NotSupervised(pc) ==
    [pc |-> pc, cancelled |-> FALSE, remaining |-> 0, calls |-> 0, ok |-> FALSE]

Goto(a, pc) == at' = [at EXCEPT ![a] = pc]

Init ==
    /\ call = [c \in Calls |-> NoRow]
    /\ parent = [c \in Children |-> NoCall]
    /\ \E made \in Requests :
         /\ at = [a \in Actors |-> IF a \in (Direct \ made) \X {"run"} THEN "done" ELSE "idle"]
         /\ program = [p \in Programs |-> NotSupervised(IF p \in made THEN "idle" ELSE "done")]
    /\ turn = "running"
    /\ protecting = FALSE /\ changed = FALSE
    /\ up = TRUE /\ crashes = 0
    /\ effects = [c \in Calls |-> 0]

-----------------------------------------------------------------------------
(* The protection gate.                                                    *)

\* Mutant: an operation the run no longer waits for does not keep its guard.
HoldsWhileAwaited(a) == at[a] = "acting"

\* Mutant: the guard of an operation is never dropped.
HoldsForever(a) == at[a] \in {"acting", "detached", "resume", "done"}

\* The tasks inside the gate, also a blocking operation that goes on after the
\* run has dropped its future.
Holds(a) == at[a] \in {"acting", "detached"}

\* The gate is fair: a reader queues behind a writer that waits.
MayEnter == ~protecting

\* activate: replace_file_protection waits for the gate.  The running turns of
\* the owner are cancelled meanwhile; TurnEnds may happen at any time.
ProtectBegins ==
    /\ up /\ ~protecting /\ ~changed
    /\ protecting' = TRUE
    /\ UNCHANGED <<rows, at, program, turn, changed, daemon, effects>>

ProtectCommits ==
    /\ up /\ protecting /\ \A a \in Actors : ~Holds(a)
    /\ protecting' = FALSE /\ changed' = TRUE
    /\ UNCHANGED <<rows, at, program, turn, daemon, effects>>

-----------------------------------------------------------------------------
(* Calls the model makes itself.                                           *)

InFlight(d) == at[Run(d)] \notin {"idle", "ready", "may_pause", "paused", "done"}
WaveOver == \A d \in Direct : ~InFlight(d)
RunGoesOn ==
    /\ up /\ turn = "running" /\ WaveOver
    /\ \A d \in Direct : at[Run(d)] # "paused"
    /\ \A p \in Programs : program[p].pc \notin Supervised

\* prepare: preflight, the hooks, and the preflight of what they made of the
\* arguments; a denial is recorded at once, any refusal settles the call.
Prepare(d) ==
    /\ RunGoesOn /\ MayEnter /\ at[Run(d)] = "idle"
    /\ \/ Goto(Run(d), "done") /\ UNCHANGED call
       \/ ~changed /\ Goto(Run(d), "done") /\ call' = [call EXCEPT ![d] = Row("denied", "deny")]
       \/ /\ ~changed
          /\ \E pc \in {"ready", "may_pause"} : Goto(Run(d), pc)
          /\ UNCHANGED call
    /\ UNCHANGED <<parent, program, turn, policy, daemon, effects>>

\* take_ready_wave: a call that may pause runs alone.
StartWave ==
    /\ RunGoesOn
    /\ \E wave \in SUBSET Direct \ {{}} :
         /\ \/ \A d \in wave : at[Run(d)] = "ready"
            \/ \E d \in wave : wave = {d} /\ at[Run(d)] = "may_pause"
         /\ at' = [a \in Actors |-> IF a \in wave \X {"run"} THEN "submit" ELSE at[a]]
    /\ UNCHANGED <<rows, program, turn, policy, daemon, effects>>

\* execute_inner evaluates the policy once more, and this decision counts:
\* submit_prepared creates the row for it, and in the modes that approve by
\* themselves submit_prepared_with_automatic_approval.
Submit(d) ==
    /\ up /\ MayEnter /\ at[Run(d)] = "submit"
    /\ \/ Goto(Run(d), "done") /\ UNCHANGED call
       \/ /\ ~changed
          /\ \/ call' = [call EXCEPT ![d] = Row("denied", "deny")] /\ Goto(Run(d), "done")
             \/ call' = [call EXCEPT ![d] = Row("running", "allow")] /\ Goto(Run(d), "execute")
             \/ call' = [call EXCEPT ![d] = Row("awaiting", "ask")] /\ Goto(Run(d), "approve")
             \/ call' = [call EXCEPT ![d] = Row("running", "ask")] /\ Goto(Run(d), "automatic")
    /\ UNCHANGED <<parent, program, turn, policy, daemon, effects>>

\* create_approval, create_automatic_approval
CreateApproval(d) ==
    /\ up
    /\ \/ /\ at[Run(d)] = "approve" /\ Goto(Run(d), "paused")
          /\ call' = [call EXCEPT ![d].approval = "pending"]
       \/ /\ at[Run(d)] = "automatic" /\ Goto(Run(d), "execute")
          /\ call' = [call EXCEPT ![d].approval = "approved"]
    /\ UNCHANGED <<parent, program, turn, policy, daemon, effects>>

\* The run pauses after a wave with a call that awaits its approval; the calls
\* it has not started are deferred.
PauseTurn ==
    /\ up /\ turn = "running" /\ WaveOver /\ \E d \in Direct : at[Run(d)] = "paused"
    /\ turn' = "awaiting"
    /\ at' = [a \in Actors |-> IF at[a] \in {"paused", "ready", "may_pause"} THEN "done" ELSE at[a]]
    /\ UNCHANGED <<rows, program, policy, daemon, effects>>

-----------------------------------------------------------------------------
(* The operation itself, for every kind of call.                           *)

\* The rows finish_tool_call may write: a child only while it and its program run.
MayFinish(c) ==
    c \in Children => call[c].status = "running" /\ call[parent[c]].status = "running"

\* finish_tool_call, still inside the gate.
FinishToolCall(a, status) ==
    /\ call' = IF MayFinish(a[1]) THEN [call EXCEPT ![a[1]].status = status] ELSE call
    /\ Goto(a, IF a[2] = "run" THEN "done" ELSE "resume")

\* execute: inside the gate, the protection is checked and the tool runs.
Execute(a) ==
    /\ up /\ MayEnter /\ at[a] = "execute"
    /\ IF changed
       THEN FinishToolCall(a, "failed") /\ UNCHANGED effects
       ELSE /\ Goto(a, "acting") /\ UNCHANGED call
            /\ effects' = [effects EXCEPT ![a[1]] = @ + 1]
    /\ UNCHANGED <<parent, program, turn, policy, daemon>>

OperationEnds(a) ==
    /\ up /\ at[a] = "acting"
    /\ \E status \in {"completed", "failed"} : FinishToolCall(a, status)
    /\ UNCHANGED <<parent, program, turn, policy, daemon, effects>>

\* A blocking operation whose future was dropped comes to its end.
DetachedReturns(a) ==
    /\ up /\ at[a] = "detached"
    /\ Goto(a, "done")
    /\ UNCHANGED <<rows, program, turn, policy, daemon, effects>>

\* Dropping a future stops its task where it is; only an operation that has
\* begun may go on.
Dropped(S) == [a \in Actors |-> IF a \notin S THEN at[a]
                                ELSE IF at[a] = "acting" THEN "detached" ELSE "done"]

-----------------------------------------------------------------------------
(* Approvals.                                                              *)

\* Mutant: a repeated decision is accepted like the first.
DecideAgain(d, r, verdict) ==
    /\ up /\ at[<<d, r>>] = "idle" /\ call[d].approval \in {"pending", verdict}
    /\ call' = [call EXCEPT ![d].approval = verdict]
    /\ Goto(<<d, r>>, verdict)
    /\ UNCHANGED <<parent, program, turn, policy, daemon, effects>>

\* resolve_approval: a compare and swap on the pending approval.
Decide(d, r, verdict) ==
    /\ up /\ at[<<d, r>>] = "idle" /\ call[d].approval = "pending"
    /\ call' = [call EXCEPT ![d].approval = verdict]
    /\ Goto(<<d, r>>, verdict)
    /\ UNCHANGED <<parent, program, turn, policy, daemon, effects>>

\* Mutant: a rejection is taken for a decision like any other.
CheckAwaitingOnly(a) ==
    /\ up /\ at[a] \in {"approved", "rejected"}
    /\ Goto(a, IF call[a[1]].status # "awaiting" THEN "done" ELSE "grant")
    /\ UNCHANGED <<rows, program, turn, policy, daemon, effects>>

\* resolve reads the call again and refuses one that no longer waits ...
CheckAwaiting(a) ==
    /\ up /\ at[a] \in {"approved", "rejected"}
    /\ Goto(a, IF call[a[1]].status # "awaiting" THEN "done"
               ELSE IF at[a] = "approved" THEN "grant" ELSE "refuse")
    /\ UNCHANGED <<rows, program, turn, policy, daemon, effects>>

\* ... and then writes it and, if approved, executes it.
ApplyDecision(a) ==
    /\ up
    /\ \/ /\ at[a] = "grant" /\ Goto(a, "execute")
          /\ call' = [call EXCEPT ![a[1]].status = "running"]
       \/ /\ at[a] = "refuse" /\ Goto(a, "resume")
          /\ call' = [call EXCEPT ![a[1]].status = "denied"]
    /\ UNCHANGED <<parent, program, turn, policy, daemon, effects>>

\* maybe_resume_turn, as far as the calls see it.  It fails after a change of
\* the protection, and it may fail for other reasons.
MaybeResume(a) ==
    /\ up /\ at[a] = "resume"
    /\ Goto(a, "done")
    /\ \/ turn = "awaiting" /\ ~changed /\ turn' = "running"
       \/ UNCHANGED turn
    /\ UNCHANGED <<rows, program, policy, daemon, effects>>

-----------------------------------------------------------------------------
(* Code Mode.                                                              *)

\* code_mode_supervise: a program runs alone in its wave.
StartProgram ==
    /\ RunGoesOn
    /\ \E p \in Programs :
         /\ program[p].pc = "idle" /\ \A q \in Programs : q < p => program[q].pc # "idle"
         /\ program' = [program EXCEPT ![p].pc = "count"]
         /\ call' = [call EXCEPT ![p] = Row("running", "allow")]
    /\ UNCHANGED <<parent, at, turn, policy, daemon, effects>>

\* code_mode_call_count
Used == Cardinality({c \in Children : call[c].status # "none"})

Child(p) == {c \in Children : parent[c] = p}
Pending(p) == {c \in Child(p) : at[Run(c)] \notin {"done", "detached"}}

\* The process future ends, and with it the calls it waits for.
ProcessEnds(p, ok) ==
    /\ program' = [program EXCEPT ![p].pc = "ended", ![p].ok = ok]
    /\ at' = Dropped(Pending(p) \X {"run"})

\* code_mode_process
CountCalls(p) ==
    /\ up /\ program[p].pc = "count"
    /\ IF Used >= MaxCalls
       THEN program' = [program EXCEPT ![p].pc = "ended"]
       ELSE program' = [program EXCEPT ![p].pc = "process", ![p].remaining = MaxCalls - Used]
    /\ UNCHANGED <<rows, at, turn, policy, daemon, effects>>

\* The worker asks for a call; one beyond the budget ends the program.
WorkerCalls(p) ==
    /\ up /\ program[p].pc = "process" /\ ~program[p].cancelled
    /\ Cardinality(Pending(p)) < MaxPending
    /\ LET unused == {c \in Children : parent[c] = NoCall}
       IN \/ /\ program[p].calls >= program[p].remaining
             /\ ProcessEnds(p, FALSE) /\ UNCHANGED parent
          \/ /\ program[p].calls < program[p].remaining /\ unused # {}
             /\ program' = [program EXCEPT ![p].calls = @ + 1]
             /\ parent' = [parent EXCEPT ![Min(unused)] = p]
             /\ Goto(Run(Min(unused)), "admit")
    /\ UNCHANGED <<call, turn, policy, daemon, effects>>

\* code_mode_child: the admission is stored before anything else happens.
Admit(c) ==
    /\ up /\ at[Run(c)] = "admit"
    /\ IF ~program[parent[c]].cancelled /\ call[parent[c]].status = "running"
       THEN call' = [call EXCEPT ![c] = Row("running", "admission")] /\ Goto(Run(c), "preflight")
       ELSE Goto(Run(c), "done") /\ UNCHANGED call
    /\ UNCHANGED <<parent, program, turn, policy, daemon, effects>>

\* code_mode_child_admitted: preflight, hooks, preflight, and then
\* authorize_code_mode_call, a compare and swap on the admission.  A decision to
\* ask counts as a denial.
AuthorizeChild(c) ==
    /\ up /\ MayEnter /\ at[Run(c)] = "preflight"
    /\ \/ Goto(Run(c), "abandon") /\ UNCHANGED call
       \/ /\ ~changed /\ ~program[parent[c]].cancelled
          /\ call[c].status = "running" /\ call[c].policy = "admission"
          /\ call[parent[c]].status = "running"
          /\ \/ call' = [call EXCEPT ![c].policy = "allow"] /\ Goto(Run(c), "execute")
             \/ call' = [call EXCEPT ![c] = Row("denied", "deny")] /\ Goto(Run(c), "done")
    /\ UNCHANGED <<parent, program, turn, policy, daemon, effects>>

\* A child that failed before it was executed is recorded as failed.
AbandonChild(c) ==
    /\ up /\ at[Run(c)] = "abandon"
    /\ call' = IF MayFinish(c) THEN [call EXCEPT ![c].status = "failed"] ELSE call
    /\ Goto(Run(c), "done")
    /\ UNCHANGED <<parent, program, turn, policy, daemon, effects>>

\* The worker is done, or fails: a program with unfinished calls has failed.
WorkerEnds(p) ==
    /\ up /\ program[p].pc = "process"
    /\ \E ok \in BOOLEAN : (ok => Pending(p) = {}) /\ ProcessEnds(p, ok)
    /\ UNCHANGED <<rows, turn, policy, daemon, effects>>

\* Mutant: the program is stopped only by its cancellation.
StopProgramIfCancelled(p) ==
    /\ up /\ program[p].pc \in {"count", "process"} /\ program[p].cancelled
    /\ ProcessEnds(p, FALSE)
    /\ UNCHANGED <<rows, turn, policy, daemon, effects>>

\* The supervisor stops a program that was cancelled or took 30 seconds.
StopProgram(p) ==
    /\ up /\ program[p].pc \in {"count", "process"}
    /\ ProcessEnds(p, FALSE)
    /\ UNCHANGED <<rows, turn, policy, daemon, effects>>

Outcome(p) == IF program[p].cancelled THEN "cancelled"
              ELSE IF program[p].ok THEN "completed" ELSE "failed"

\* Mutant: every child is cancelled, whatever became of it.
FinishProgramAndAll(p) ==
    [c \in Calls |-> IF c = p THEN [call[c] EXCEPT !.status = Outcome(p)]
                     ELSE IF c \in Child(p) THEN [call[c] EXCEPT !.status = "cancelled"]
                     ELSE call[c]]

\* finish_code_mode: the program and its running children in one transaction.
FinishProgram(p) ==
    [c \in Calls |->
       IF c = p /\ call[p].status = "running" THEN [call[c] EXCEPT !.status = Outcome(p)]
       ELSE IF c \in Child(p) /\ call[c].status = "running"
            THEN [call[c] EXCEPT !.status = "cancelled"]
       ELSE call[c]]

FinishCodeMode(p) ==
    /\ up /\ program[p].pc = "ended"
    /\ call' = FinishProgram(p)
    /\ program' = [program EXCEPT ![p] = NotSupervised("done")]
    /\ UNCHANGED <<parent, at, turn, policy, daemon, effects>>

-----------------------------------------------------------------------------
(* The turn and the daemon.                                                *)

\* close_session cancels the turn that waits, or that a crash left behind; one
\* that runs ends by its token.  The approvals are left as they are.
CloseSession ==
    /\ up /\ turn \in {"awaiting", "stale"}
    /\ turn' = "ended"
    /\ UNCHANGED <<rows, at, program, policy, daemon, effects>>

\* The run ends: it has nothing left to do, its token is cancelled or its time
\* is up.  The futures of its calls are dropped; the supervisor of a program is
\* a task of its own and learns of it by its token.
TurnEnds ==
    /\ up /\ turn = "running"
    /\ turn' = "ended"
    /\ at' = Dropped((Direct \X {"run"}) \ {a \in Actors : at[a] = "detached"})
    /\ program' = [p \in Programs |->
                     IF program[p].pc \in Supervised
                     THEN [program[p] EXCEPT !.cancelled = TRUE] ELSE program[p]]
    /\ UNCHANGED <<rows, policy, daemon, effects>>

Crash ==
    /\ up /\ crashes < MaxCrashes
    /\ up' = FALSE /\ crashes' = crashes + 1
    /\ at' = [a \in Actors |-> IF at[a] = "idle" /\ a[2] # "run" THEN "idle" ELSE "done"]
    /\ program' = [p \in Programs |-> NotSupervised("done")]
    /\ turn' = IF turn = "running" THEN "stale" ELSE turn
    /\ protecting' = FALSE
    /\ UNCHANGED <<rows, changed, effects>>

\* Mutant: only the turns of the programs are cancelled.
InterruptedTurnsOnly == call

\* interrupt_code_mode_calls
Interrupted ==
    [c \in Calls |-> IF c \notin Direct /\ call[c].status = "running"
                     THEN [call[c] EXCEPT !.status = "cancelled"] ELSE call[c]]

Restart ==
    /\ ~up /\ up' = TRUE
    /\ call' = Interrupted
    /\ turn' = IF \E p \in Programs : call[p].status = "running" THEN "ended" ELSE turn
    /\ UNCHANGED <<parent, at, program, policy, crashes, effects>>

-----------------------------------------------------------------------------
Operation(a) ==
    Execute(a) \/ OperationEnds(a) \/ DetachedReturns(a)

Resolve(a) == CheckAwaiting(a) \/ ApplyDecision(a) \/ MaybeResume(a)

Next ==
    \/ ProtectBegins \/ ProtectCommits
    \/ StartWave \/ PauseTurn \/ StartProgram \/ CloseSession \/ TurnEnds
    \/ Crash \/ Restart
    \/ \E d \in Direct : \/ Prepare(d) \/ Submit(d) \/ CreateApproval(d)
                         \/ \E r \in Resolvers : \/ \E v \in {"approved", "rejected"} : Decide(d, r, v)
                                                 \/ Resolve(<<d, r>>)
    \/ \E a \in Actors : Operation(a)
    \/ \E p \in Programs : \/ CountCalls(p) \/ WorkerCalls(p) \/ WorkerEnds(p)
                           \/ StopProgram(p) \/ FinishCodeMode(p)
    \/ \E c \in Children : Admit(c) \/ AuthorizeChild(c) \/ AbandonChild(c)

\* Tasks go on while the daemon runs and it is started again after a crash; an
\* operation comes to an end (commands and git are run with a timeout).  Nobody
\* promises that a worker process asks for anything, or ends.
Fairness ==
    /\ WF_vars(Restart) /\ WF_vars(ProtectCommits)
    /\ \A a \in Actors : WF_vars(Operation(a))
    /\ \A p \in Programs : WF_vars(StopProgram(p)) /\ WF_vars(FinishCodeMode(p))

Spec == Init /\ [][Next]_vars /\ Fairness

-----------------------------------------------------------------------------
\* Every variable keeps its type.
TypeOK ==
    /\ call \in [Calls -> [status : Statuses,
                           policy : {"none", "admission", "allow", "ask", "deny"},
                           approval : {"none", "pending", "approved", "rejected"}]]
    /\ parent \in [Children -> Programs \cup {NoCall}]
    /\ at \in [Actors -> {"idle", "ready", "may_pause", "submit", "approve", "automatic", "paused",
                          "execute", "acting", "detached", "done", "approved", "rejected", "grant", "refuse", "resume",
                          "admit", "preflight", "abandon"}]
    /\ program \in [Programs -> [pc : {"idle", "done"} \cup Supervised, cancelled : BOOLEAN,
                                 remaining : 0..MaxCalls, calls : 0..MaxCalls, ok : BOOLEAN]]
    /\ turn \in {"running", "awaiting", "ended", "stale"}
    /\ {protecting, changed, up} \subseteq BOOLEAN
    /\ crashes \in 0..MaxCrashes /\ effects \in [Calls -> Nat]

\* An operation is begun only under a decision that allows it: the policy said
\* Allow, or it asked and the recorded approval is an approval.  Requests that
\* approve and reject the same call at the same time do not change that.
OnlyAuthorizedActs ==
    \A c \in Calls : effects[c] > 0 =>
        call[c].policy = "allow" \/ (call[c].policy = "ask" /\ call[c].approval = "approved")

\* An approval authorizes one operation: however many requests decide it, and
\* wherever the daemon crashes between decision, row and execution, the
\* operation of a call is begun at most once.
ActsOnce == \A c \in Calls : effects[c] <= 1

\* Once a change of the file protection is acknowledged, no operation that was
\* admitted under the old rules is still in progress, not even one whose turn
\* was cancelled or one that an approval started, and none begins.
ProtectionHolds == changed => \A a \in Actors : at[a] \notin {"acting", "detached"}

\* The programs of a turn together make at most MAX_CALLS child calls.
ChildCallLimit == Cardinality({c \in Children : call[c].status # "none"}) <= MaxCalls

\* No child call is left running when its program has been settled.
NoChildOutlivesProgram ==
    \A c \in Children : call[c].status = "running" => call[parent[c]].status = "running"

\* While the daemon serves, a program is recorded as running only if its
\* supervisor is there to settle it, also after a crash in the middle of one.
RunningProgramIsSupervised ==
    up => \A p \in Programs : call[p].status = "running" => program[p].pc \in Supervised

\* The records of calls and programs fit the tasks that carry them out.
CallsConsistent ==
    TypeOK /\ ChildCallLimit /\ NoChildOutlivesProgram /\ RunningProgramIsSupervised

\* The outcome of a call is final: a late completion, a late decision or the end
\* of its program does not overwrite it.
OutcomeIsFinal ==
    [][\A c \in Calls : call[c].status \in Settled => call'[c].status = call[c].status]_vars

\* A running program is settled in the end, whatever its worker does.
ProgramSettles ==
    \A p \in Programs : call[p].status = "running" ~> call[p].status # "running"

\* A change of the file protection that waits for the gate gets it: readers
\* queue behind it, and every operation inside ends, or the daemon crashes.
ProtectionApplies == protecting ~> ~protecting

=============================================================================
