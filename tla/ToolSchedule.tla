---------------------------- MODULE ToolSchedule ----------------------------
(***************************************************************************)
(* The wave scheduler of one assistant response's tool calls               *)
(* (agent-core/src/tool/scheduler.rs) and the loop of the agent runner     *)
(* that executes its waves (agent-core/src/lib.rs, run_inner).             *)
(*                                                                         *)
(* The runner first prepares and pushes every call, then repeats: take the *)
(* ready wave, run all of its calls concurrently, wait for all of them,    *)
(* look at the outcomes.  The while loop of take_ready_wave is modelled    *)
(* one iteration per step.  The resources behind the claims are a small    *)
(* store: a call reads what its claims cover while it runs and overwrites  *)
(* what its writing claims cover.                                          *)
(***************************************************************************)
EXTENDS ResourceClaims, FiniteSets

CONSTANTS
    NTools,      \* bound: calls of one assistant response
    ClaimSets,   \* the claim sets preparation may return
    Resources    \* concrete resources: [namespace, key]

ASSUME NToolsAssumption == NTools \in Nat
ASSUME ResourcesAssumption ==
    /\ Resources \subseteq
           [namespace : Namespaces \ {"global"}, key : Seq(STRING)]
    /\ ClaimSets \subseteq SUBSET ClaimType(STRING)

VARIABLES
    phase,    \* "prepare", "scan", "run", "end": where the runner is
    pushed,   \* number of calls pushed so far; calls are numbered in order
    claims,   \* claims[t]: normalised claims of call t
    waiting,  \* ToolSchedule.waiting
    blocked,  \* take_ready_wave's local of the same name
    wave,     \* take_ready_wave's `ready`, then the wave that is running
    status,   \* what happened to each call
    content,  \* content[r]: the last call that wrote resource r (0: none)
    seen      \* seen[t][r]: content of r when call t ran

vars == <<phase, pushed, claims, waiting, blocked, wave, status, content, seen>>

Tool == 1..NTools

Statuses == {"unknown", "waiting", "ready", "running", "done",
             "deferred", "dropped"}

\* A claim covers the resource it names and, when recursive, all below it.
ClaimCovers(c, r) ==
    \/ c.namespace = "global"
    \/ /\ c.namespace = r.namespace
       /\ c.key = r.key \/ (c.recursive /\ ContainsKey(c.key, r.key))

Touches(t, r) == \E c \in claims[t] : ClaimCovers(c, r)

WritesTo(t, r) == \E c \in claims[t] : Writes(c.mode) /\ ClaimCovers(c, r)

Conflict(t, u) == ToolsConflict(claims[t], claims[u])

TypeOK ==
    /\ phase \in {"prepare", "scan", "run", "end"}
    /\ pushed \in 0..NTools
    /\ claims \in [Tool -> SUBSET ClaimType(STRING)]
    /\ waiting \in Seq(Tool) /\ blocked \in Seq(Tool)
    /\ wave \subseteq Tool
    /\ status \in [Tool -> Statuses]
    /\ content \in [Resources -> 0..NTools]
    /\ seen \in [Tool -> [Resources -> 0..NTools]]

Init ==
    /\ phase = "prepare" /\ pushed = 0
    /\ claims = [t \in Tool |-> {}]
    /\ waiting = <<>> /\ blocked = <<>> /\ wave = {}
    /\ status = [t \in Tool |-> "unknown"]
    /\ content = [r \in Resources |-> 0]
    /\ seen = [t \in Tool |-> [r \in Resources |-> 0]]

-----------------------------------------------------------------------------
\* Mutant: the call is queued under its zero-based position.
PushZeroBased(c) ==
    /\ phase = "prepare" /\ pushed < NTools
    /\ pushed' = pushed + 1
    /\ claims' = [claims EXCEPT ![pushed + 1] = NormalizedClaims(c)]
    /\ waiting' = Append(waiting, pushed)
    /\ status' = [status EXCEPT ![pushed + 1] = "waiting"]
    /\ UNCHANGED <<phase, blocked, wave, content, seen>>

\* ToolSchedule::push of the next prepared call.
Push(c) ==
    /\ phase = "prepare" /\ pushed < NTools
    /\ pushed' = pushed + 1
    /\ claims' = [claims EXCEPT ![pushed + 1] = NormalizedClaims(c)]
    /\ waiting' = Append(waiting, pushed + 1)
    /\ status' = [status EXCEPT ![pushed + 1] = "waiting"]
    /\ UNCHANGED <<phase, blocked, wave, content, seen>>

\* All calls of the response are prepared: `while !schedule.is_empty()`.
Prepared ==
    /\ phase = "prepare" /\ waiting # <<>>
    /\ phase' = "scan"
    /\ UNCHANGED <<pushed, claims, waiting, blocked, wave, status, content, seen>>

\* Mutants: the candidate is compared with the blocked calls only, or with the
\* wave only.
MustWaitForBlocked(t) == \E i \in 1..Len(blocked) : Conflict(t, blocked[i])
MustWaitForWave(t)    == \E u \in wave : Conflict(t, u)

\* The candidate must wait: it conflicts with a call of this wave or with a
\* call that already has to wait.
MustWait(t) ==
    \/ \E u \in wave : Conflict(t, u)
    \/ \E i \in 1..Len(blocked) : Conflict(t, blocked[i])

\* One iteration of the loop of take_ready_wave.
Scan ==
    /\ phase = "scan" /\ waiting # <<>>
    /\ waiting' = Tail(waiting)
    /\ LET t == Head(waiting) IN
         IF MustWait(t)
         THEN /\ blocked' = Append(blocked, t)
              /\ UNCHANGED <<wave, status>>
         ELSE /\ wave' = wave \cup {t}
              /\ status' = [status EXCEPT ![t] = "ready"]
              /\ UNCHANGED blocked
    /\ UNCHANGED <<phase, pushed, claims, content, seen>>

\* Mutant: the calls that have to wait are not put back.
LaunchForgetsBlocked ==
    /\ phase = "scan" /\ waiting = <<>>
    /\ blocked' = <<>> /\ phase' = "run"
    /\ UNCHANGED <<pushed, claims, waiting, wave, status, content, seen>>

\* take_ready_wave returns; join_all gets the whole wave.
Launch ==
    /\ phase = "scan" /\ waiting = <<>>
    /\ waiting' = blocked /\ blocked' = <<>>
    /\ phase' = "run"
    /\ UNCHANGED <<pushed, claims, wave, status, content, seen>>

\* join_all polls call t for the first time; t looks at what it claimed.
Start(t) ==
    /\ phase = "run" /\ t \in wave /\ status[t] = "ready"
    /\ status' = [status EXCEPT ![t] = "running"]
    /\ seen' = [seen EXCEPT ![t] = content]
    /\ UNCHANGED <<phase, pushed, claims, waiting, blocked, wave, content>>

\* Call t completes; what its writing claims cover now carries its effect.
Finish(t) ==
    /\ phase = "run" /\ t \in wave /\ status[t] = "running"
    /\ status' = [status EXCEPT ![t] = "done"]
    /\ content' = [r \in Resources |-> IF WritesTo(t, r) THEN t ELSE content[r]]
    /\ UNCHANGED <<phase, pushed, claims, waiting, blocked, wave, seen>>

WaveDone == phase = "run" /\ \A t \in wave : status[t] = "done"

\* No outcome paused or failed the turn: take the next wave or leave the loop.
NextWave ==
    /\ WaveDone
    /\ wave' = {}
    /\ phase' = IF waiting = <<>> THEN "end" ELSE "scan"
    /\ UNCHANGED <<pushed, claims, waiting, blocked, status, content, seen>>

\* An outcome paused the turn (defer_pending_tool_calls drains the schedule)
\* or repeated a failure too often: calls that still wait are not run.
Defer ==
    /\ WaveDone /\ waiting # <<>>
    /\ status' = [t \in Tool |->
                    IF \E i \in 1..Len(waiting) : waiting[i] = t
                    THEN "deferred" ELSE status[t]]
    /\ waiting' = <<>> /\ wave' = {} /\ phase' = "end"
    /\ UNCHANGED <<pushed, claims, blocked, content, seen>>

\* Cancellation or the deadline wins the select: the futures of the wave are
\* dropped where they are.
Drop ==
    /\ phase = "run"
    /\ status' = [t \in Tool |->
                    IF status[t] \in {"ready", "running", "waiting"}
                    THEN "dropped" ELSE status[t]]
    /\ waiting' = <<>> /\ wave' = {} /\ phase' = "end"
    /\ UNCHANGED <<pushed, claims, blocked, content, seen>>

Next ==
    \/ \E c \in ClaimSets : Push(c)
    \/ Prepared \/ Scan \/ Launch
    \/ \E t \in Tool : Start(t) \/ Finish(t)
    \/ NextWave \/ Defer \/ Drop

\* The runner's task is scheduled while it can run, and a tool call ends (the
\* executors bound every call with a timeout).
Fairness ==
    /\ WF_vars(Prepared \/ Scan \/ Launch \/ NextWave)
    /\ \A t \in Tool : WF_vars(Start(t) \/ Finish(t))

Spec == Init /\ [][Next]_vars /\ Fairness

-----------------------------------------------------------------------------
\* Two calls that run at the same time never conflict ("largest safe wave").
NoConflictingWave ==
    \A t, u \in wave : t # u => ~Conflict(t, u)

\* A call never starts before every earlier call it conflicts with is done:
\* "a request cannot pass an earlier waiting request when their claims
\* conflict".
ConflictingCallsKeepOrder ==
    \A t, u \in Tool :
        /\ t < u /\ u <= pushed /\ Conflict(t, u)
        /\ status[u] \in {"running", "done"}
        => status[t] = "done"

\* Concurrency is invisible: what a call saw of a resource is what the last
\* earlier call that wrote it left there, as if the calls had run one by one in
\* the order of the response.
SerialView(t, r) ==
    LET writers == {u \in 1..(t - 1) : WritesTo(u, r)} IN
    IF writers = {} THEN 0 ELSE CHOOSE u \in writers : \A v \in writers : v <= u

SerialEquivalence ==
    \A t \in Tool : status[t] \in {"running", "done"} =>
        \A r \in Resources : Touches(t, r) => seen[t][r] = SerialView(t, r)

\* A later stream of calls cannot starve an earlier one: once the runner is in
\* its loop every pushed call is run, deferred or dropped.
NoStarvation ==
    \A t \in Tool :
        (status[t] = "waiting" /\ phase # "prepare")
            ~> status[t] \in {"done", "deferred", "dropped"}
=============================================================================
