------------------------------ MODULE StepQueue ------------------------------
(***************************************************************************)
(* The queue of step requests that drives the agent's model calls          *)
(* (agent-core/src/step/queue.rs and request.rs).                          *)
(*                                                                         *)
(* A request carries the messages it adds to the model context when it is  *)
(* selected.  Requests are aborted only by abort_turn_scoped, which        *)
(* discards them in the same call, so an aborted request is never queued   *)
(* and the queue operations need no Aborted case.                          *)
(***************************************************************************)
EXTENDS Naturals, Sequences, SequencesExt

Admissions == {"new_turn", "active_or_new_turn", "active_or_next_turn", "active_turn_only"}

\* StepAdmission::target; "refused" is ActiveTurnRequired.
Target(admission, hasActiveTurn) ==
    CASE admission = "new_turn"                              -> "new_turn"
      [] admission # "new_turn" /\ hasActiveTurn             -> "active_turn"
      [] admission = "active_or_new_turn" /\ ~hasActiveTurn  -> "new_turn"
      [] admission = "active_or_next_turn" /\ ~hasActiveTurn -> "next_turn"
      [] admission = "active_turn_only" /\ ~hasActiveTurn    -> "refused"

Request(kind, msgs, admission, mergeable, turnScoped) ==
    [kind |-> kind, msgs |-> msgs, admission |-> admission,
     mergeable |-> mergeable, turnScoped |-> turnScoped]

\* Requests the runner makes for itself.
Continuation(kind) == Request(kind, <<>>, "active_turn_only", FALSE, TRUE)

Retry(kind, msgs) == Request(kind, msgs, "active_turn_only", FALSE, TRUE)

\* Mutant: a tool result drives a step of its own.
ToolResultDriver(msg) == Request("tool_result", <<msg>>, "active_turn_only", FALSE, FALSE)

ToolResult(msg) == Request("tool_result", <<msg>>, "active_turn_only", TRUE, FALSE)

\* The elements of a sequence at the given places, in their order.
Kept(q, places) ==
    LET kept[i \in 0..Len(q)] ==
            IF i = 0 THEN <<>>
            ELSE IF i \in places THEN kept[i - 1] \o <<q[i]>> ELSE kept[i - 1]
    IN  kept[Len(q)]

\* The messages of the requests at the given places, in their order.
Materialize(q, places) ==
    LET msgs[i \in 0..Len(q)] ==
            IF i = 0 THEN <<>>
            ELSE IF i \in places THEN msgs[i - 1] \o q[i].msgs ELSE msgs[i - 1]
    IN  msgs[Len(q)]

Drivers(q) == {i \in DOMAIN q : ~q[i].mergeable}

\* take_next_batch: the first driver, or the oldest request when there is no
\* driver, followed by every mergeable request.  The other drivers stay.
DriverIndex(q) == IF Drivers(q) = {} THEN 1 ELSE Min(Drivers(q))

Rest(q) == Drivers(q) \ {DriverIndex(q)}

Merged(q) == (DOMAIN q \ Drivers(q)) \ {DriverIndex(q)}

Batch(q) == q[DriverIndex(q)].msgs \o Materialize(q, Merged(q))

AfterBatch(q) == Kept(q, Rest(q))

\* drain_materialized_messages takes batches until none is left; after the
\* first one only drivers remain, one per batch.
DrainMaterialized(q) ==
    IF q = <<>> THEN <<>>
    ELSE Batch(q) \o Materialize(q, Rest(q))

AbortTurnScoped(q) == Kept(q, {i \in DOMAIN q : ~q[i].turnScoped})

\* drain_external_steps: what is in the channel and belongs to the active turn.
Admissible(chan) ==
    Kept(chan, {i \in DOMAIN chan : Target(chan[i].admission, TRUE) = "active_turn"})
==============================================================================
