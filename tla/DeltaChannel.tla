----------------------------- MODULE DeltaChannel -----------------------------
(***************************************************************************)
(* The bounded queue between a running agent and the task that publishes   *)
(* its events (daemon/src/lib.rs, ChannelObserver and                      *)
(* take_agent_delta_batch).  Text is not queued piece by piece: while a    *)
(* batch has not been taken, later text of its kind is added to it in      *)
(* place.  The agent and the publishing task run concurrently and meet in  *)
(* the lock of the batches; an action is one critical section.             *)
(*                                                                         *)
(* A unit of output is a number, its position among all the agent put out; *)
(* a batch is the sequence of the units in it.                             *)
(***************************************************************************)
EXTENDS Naturals, Sequences, SequencesExt

CONSTANTS
    Capacity,       \* AGENT_EVENT_QUEUE_CAPACITY
    BatchLimit,     \* MAX_COALESCED_{TEXT,REASONING}_DELTA_BYTES
    ReasoningLimit  \* MAX_RETAINED_REASONING_SUMMARY_BYTES

ASSUME ChannelAssumption ==
    /\ {Capacity, BatchLimit} \subseteq Nat \ {0}
    /\ ReasoningLimit \in Nat

VARIABLES
    emitted,    \* history: the kinds of the units put out, "text", "reasoning" or "event"
    placing,    \* emit_delta has not placed the last of them yet
    chan,       \* the entries in the channel
    held,       \* the entry the publishing task has received, or NoEntry
    queued,     \* number of entries sent so far: the identity of the last
    slot,       \* AgentDeltaBatches: identity of the open batch of a kind, 0 for none
    accepted,   \* reasoning_accepted_bytes
    overflowed  \* the run failed closed

channel == <<emitted, placing, chan, held, queued, slot, accepted, overflowed>>

NoSlot  == [text |-> 0, reasoning |-> 0]
NoEntry == [id |-> 0, kind |-> "event", units |-> <<>>]
Entry(kind, units) == [id |-> queued + 1, kind |-> kind, units |-> units]

ChannelInit ==
    /\ emitted = <<>> /\ placing = FALSE /\ chan = <<>> /\ held = NoEntry
    /\ queued = 0 /\ slot = NoSlot /\ accepted = 0 /\ overflowed = FALSE

Unit == Len(emitted)    \* the unit that is being placed
Kind == emitted[Unit]

\* A delta of the other kind is an ordering boundary: it closes the open batch.
Boundary(kind) == [NoSlot EXCEPT ![kind] = slot[kind]]
Closed(kind)   == [slot EXCEPT ![kind] = 0]

\* try_send: a channel that is full, or whose reader is gone, fails the run
\* closed, and the entry is lost.
TrySend(entry, reading) ==
    IF reading /\ Len(chan) < Capacity
    THEN chan' = Append(chan, entry) /\ queued' = entry.id /\ UNCHANGED overflowed
    ELSE overflowed' = TRUE /\ UNCHANGED <<chan, queued>>

\* ChannelObserver::emit of a delta: emit_delta takes the lock anew for each piece.
EmitDelta(kind) ==
    /\ ~placing
    /\ emitted' = Append(emitted, kind) /\ placing' = TRUE
    /\ UNCHANGED <<chan, held, queued, slot, accepted, overflowed>>

\* Mutant: an event of another kind does not close the open batch.
EmitEventInPlace(reading) ==
    /\ ~placing
    /\ emitted' = Append(emitted, "event")
    /\ TrySend(Entry("event", <<Len(emitted) + 1>>), reading)
    /\ UNCHANGED <<placing, held, slot, accepted>>

\* ChannelObserver::emit of any other event: it closes both batches.
EmitEvent(reading) ==
    /\ ~placing
    /\ emitted' = Append(emitted, "event")
    /\ slot' = NoSlot
    /\ TrySend(Entry("event", <<Len(emitted) + 1>>), reading)
    /\ UNCHANGED <<placing, held, accepted>>

\* Reasoning beyond what is retained is dropped.
DropReasoning ==
    /\ placing /\ Kind = "reasoning" /\ accepted >= ReasoningLimit
    /\ slot' = Boundary(Kind)
    /\ emitted' = Front(emitted) /\ placing' = FALSE
    /\ UNCHANGED <<chan, held, queued, accepted, overflowed>>

Open(entry) == entry.kind # "event" /\ slot[entry.kind] = entry.id
Grown(entry) == IF entry.kind = Kind /\ Open(entry) THEN [entry EXCEPT !.units = Append(@, Unit)] ELSE entry
Full(entry) == Len(entry.units) >= BatchLimit
Batches == {held} \cup {chan[i] : i \in DOMAIN chan}

\* A piece goes into the open batch of its kind, also when the publishing task
\* has received that batch and not yet taken its content ...
AddToBatch ==
    /\ placing /\ ~(Kind = "reasoning" /\ accepted >= ReasoningLimit)
    /\ \E b \in Batches : b.kind = Kind /\ Open(b) /\ ~Full(b)
    /\ slot' = Boundary(Kind)
    /\ chan' = [i \in DOMAIN chan |-> Grown(chan[i])] /\ held' = Grown(held)
    /\ accepted' = IF Kind = "reasoning" THEN accepted + 1 ELSE accepted
    /\ placing' = FALSE
    /\ UNCHANGED <<emitted, queued, overflowed>>

\* ... and when that is full it is closed and the loop comes round again.
CloseFullBatch ==
    /\ placing /\ ~(Kind = "reasoning" /\ accepted >= ReasoningLimit)
    /\ \E b \in Batches : b.kind = Kind /\ Open(b) /\ Full(b)
    /\ slot' = NoSlot
    /\ UNCHANGED <<emitted, placing, chan, held, queued, accepted, overflowed>>

\* Without an open batch the piece starts one.
NewBatch(reading) ==
    /\ placing /\ ~(Kind = "reasoning" /\ accepted >= ReasoningLimit)
    /\ slot[Kind] = 0
    /\ TrySend(Entry(Kind, <<Unit>>), reading)
    /\ slot' = IF reading /\ Len(chan) < Capacity
               THEN [NoSlot EXCEPT ![Kind] = queued + 1] ELSE NoSlot
    /\ accepted' = IF Kind = "reasoning" THEN accepted + 1 ELSE accepted
    /\ placing' = FALSE
    /\ UNCHANGED <<emitted, held>>

\* The publishing task receives an entry ...
Recv ==
    /\ held = NoEntry /\ chan # <<>>
    /\ held' = Head(chan) /\ chan' = Tail(chan)
    /\ UNCHANGED <<emitted, placing, queued, slot, accepted, overflowed>>

\* ... and take_agent_delta_batch closes the batch with what is in it by then.
Take == slot' = IF Open(held) THEN Closed(held.kind) ELSE slot
=============================================================================
