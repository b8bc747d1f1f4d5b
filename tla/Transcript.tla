------------------------------ MODULE Transcript ------------------------------
(***************************************************************************)
(* What a user sees of a turn: the output of the agent, through the        *)
(* channel to the task that stores and publishes it, the event log, the    *)
(* event stream and the interface, which also loads snapshots of the rows  *)
(* (daemon/src/lib.rs, execute_turn and build_transcript_snapshot;         *)
(* cli/src/state.rs, apply_event; cli/src/state/reducer.rs); and the       *)
(* export of the same log to a central collector.                          *)
(*                                                                         *)
(* One turn of one session and one other publisher.  The interface and the *)
(* exporter only read the log and do not meet: each behaviour has one of   *)
(* them or neither (the log alone), and bounds of its own.                 *)
(***************************************************************************)
EXTENDS DeltaChannel, EventLog

CONSTANTS
    MaxRecords,     \* see AuditExport
    Readers,        \* what to look at: "interface", "exporter", "log"
    OtherKinds,     \* the kinds of event others publish: "hidden", "foreign"
    Outputs,        \* for each reader, the kinds of output the agent produces
    MaxUnits,       \* bound, for each reader: units of output of the agent
    MaxOther,       \* bound, for each reader: events others publish
    MaxFaults       \* bound, for each reader: lost connections and requests, failed
                    \* writes, crashes

ASSUME TranscriptAssumption ==
    /\ {MaxUnits, MaxOther, MaxFaults} \subseteq [Readers -> Nat] /\ MaxRecords \in Nat \ {0}
    /\ Readers \subseteq {"interface", "exporter", "log"} /\ OtherKinds \subseteq {"hidden", "foreign"}
    /\ Outputs \in [Readers -> SUBSET {"text", "reasoning", "event"}]

VARIABLES
    reader,     \* which reader this behaviour has
    turn,       \* the turn: "running", "ended", "stored", "over" or "dead"
    task,       \* the publishing task: "recv", "take", "row", "publish", "dead"
    textOffset, \* assistant_byte_offset
    rows,       \* what the messages table has of the turn: text and reasoning
    app,        \* the interface
    others,     \* events others have published
    faults,
    cursor, pending, exporter, built, wire, collector

export == <<cursor, pending, exporter, built, wire, collector>>
turnVars == <<turn, task, textOffset, rows>>
vars == <<reader, channel, publisher, stream, turnVars, app, others, faults, export>>

Audit == INSTANCE AuditExport

\* The interface waits for a snapshot, whose cursor is read before its rows.  It
\* has: whether the snapshot is a refresh; whether the turn is its current_turn
\* (known); turn_running; and transcript_refresh_pending.
NewApp == [pc |-> "load", cursor |-> 0, text |-> <<>>, reasoning |-> <<>>, snapshot |-> 0,
           refreshing |-> FALSE, known |-> FALSE, running |-> FALSE,
           refresh_pending |-> FALSE]

Init ==
    /\ reader \in Readers
    /\ ChannelInit /\ LogInit /\ Audit!ExportInit
    /\ turn = "running" /\ task = "recv" /\ textOffset = 0
    /\ rows = [text |-> <<>>, reasoning |-> <<>>]
    /\ app = NewApp /\ others = 0 /\ faults = 0

Positions(kind) == InOrder({i \in DOMAIN emitted : emitted[i] = kind})
Fault == faults < MaxFaults[reader] /\ faults' = faults + 1

-----------------------------------------------------------------------------
(* The turn.                                                                *)

Emits == Len(emitted) < MaxUnits[reader]

Agent ==
    /\ turn = "running"
    /\ \/ Emits /\ \E kind \in Outputs[reader] \ {"event"} : EmitDelta(kind)
       \/ Emits /\ "event" \in Outputs[reader] /\ EmitEvent(task # "dead")
       \/ DropReasoning \/ AddToBatch \/ CloseFullBatch \/ NewBatch(task # "dead")
    /\ UNCHANGED <<reader, publisher, stream, turnVars, app, others, faults, export>>

\* The run is over, by itself or cancelled by an overflow, and the channel closed.
RunEnds ==
    /\ turn = "running" /\ reader # "exporter" /\ ~placing
    /\ turn' = "ended"
    /\ UNCHANGED <<reader, channel, publisher, stream, task, textOffset, rows, app, others, faults,
                   export>>

TaskRecv ==
    /\ task = "recv" /\ Recv /\ task' = "take"
    /\ UNCHANGED <<reader, publisher, stream, turn, textOffset, rows, app, others, faults, export>>

TaskTake ==
    /\ task = "take" /\ Take
    /\ task' = IF held.kind = "reasoning" THEN "row" ELSE "publish"
    /\ UNCHANGED <<emitted, placing, chan, held, queued, accepted, overflowed>>
    /\ UNCHANGED <<reader, publisher, stream, turn, textOffset, rows, app, others, faults, export>>

\* append_reasoning_summary_delta: reasoning is in the rows before it is published.
TaskRow ==
    /\ task = "row" /\ task' = "publish"
    /\ rows' = [rows EXCEPT !.reasoning = @ \o held.units]
    /\ UNCHANGED <<reader, channel, publisher, stream, turn, textOffset, app, others, faults, export>>

Published == [kind |-> held.kind, units |-> held.units,
              offset |-> IF held.kind = "text" THEN textOffset ELSE 0]

TaskPublish ==
    /\ task = "publish" /\ Commit("turn", Published) /\ task' = "sending"
    /\ textOffset' = IF held.kind = "text" THEN textOffset + Len(held.units) ELSE textOffset
    /\ UNCHANGED <<reader, channel, stream, turn, rows, app, others, faults, export>>

TaskSends ==
    /\ task = "sending" /\ Broadcast("turn") /\ task' = "recv"
    /\ held' = NoEntry
    /\ UNCHANGED <<emitted, placing, chan, queued, slot, accepted, overflowed>>
    /\ UNCHANGED <<reader, stream, turn, textOffset, rows, app, others, faults, export>>

\* A write fails: the task ends and nobody reads the channel any more.
TaskFails ==
    /\ Fault /\ task \in {"row", "publish"} /\ task' = "dead"
    /\ UNCHANGED <<reader, channel, publisher, stream, turn, textOffset, rows, app, others, export>>

\* execute_turn waits for the task, and stores the answer of a run that did not
\* overflow, before it publishes the outcome.
StoreAnswer ==
    /\ turn = "ended" /\ \/ task = "dead"
                         \/ task = "recv" /\ chan = <<>>
    /\ turn' = "stored"
    /\ rows' = IF task = "dead" \/ overflowed THEN rows
               ELSE [rows EXCEPT !.text = Positions("text")]
    /\ UNCHANGED <<reader, channel, publisher, stream, task, textOffset, app, others, faults, export>>

PublishOutcome ==
    /\ turn = "stored" /\ Commit("outcome", [kind |-> "done", units |-> <<>>, offset |-> 0])
    /\ turn' = "publishing"
    /\ UNCHANGED <<reader, channel, stream, task, textOffset, rows, app, others, faults, export>>

SendOutcome ==
    /\ turn = "publishing" /\ Broadcast("outcome") /\ turn' = "over"
    /\ UNCHANGED <<reader, channel, stream, task, textOffset, rows, app, others, faults, export>>

\* Any other publisher.
PublishOther ==
    /\ others < MaxOther[reader] /\ others' = others + 1
    /\ \E kind \in OtherKinds : Commit("other", [kind |-> kind, units |-> <<>>, offset |-> 0])
    /\ UNCHANGED <<reader, channel, stream, turnVars, app, faults, export>>

SendOther ==
    /\ Broadcast("other")
    /\ UNCHANGED <<reader, channel, stream, turnVars, app, others, faults, export>>

TurnStep == TaskRecv \/ TaskTake \/ TaskRow \/ TaskPublish \/ TaskSends \/ StoreAnswer
            \/ PublishOutcome \/ SendOutcome \/ SendOther

-----------------------------------------------------------------------------
(* The interface.                                                           *)

\* apply_transcript_snapshot replaces what is shown, and takes the status of the
\* turn's row, which is terminal from StoreAnswer on.
Loaded(from, text, reasoning) ==
    [app EXCEPT !.pc = "shown", !.cursor = Max({@, from}), !.text = text, !.reasoning = reasoning,
                !.refreshing = FALSE, !.known = TRUE, !.running = turn \in {"running", "ended"},
                !.refresh_pending = FALSE]

\* build_transcript_snapshot reads the cursor and then the rows.
Snapshot ==
    \/ /\ app.pc = "load"
       /\ app' = [app EXCEPT !.pc = "rows", !.snapshot = TeamLatest]
    \/ /\ app.pc = "rows"
       /\ app' = Loaded(app.snapshot, rows.text, rows.reasoning)

\* Mutant: a refresh that was tried is no longer pending.
RefreshTried ==
    /\ app.pc \in {"load", "rows"} /\ app.refreshing
    /\ app' = [app EXCEPT !.pc = "shown", !.refreshing = FALSE, !.refresh_pending = FALSE]

\* A refresh that fails is a notice, and stays pending.
RefreshFails ==
    /\ app.pc \in {"load", "rows"} /\ app.refreshing
    /\ app' = [app EXCEPT !.pc = "shown", !.refreshing = FALSE]

\* load_session_state clears everything and falls back on the messages alone, and on
\* nothing.  (When the first load of all gets nothing the program ends; after the
\* messages alone the stream starts at 0 and brings turn.created, which tells the
\* interface its turn again.)
LoadFails ==
    /\ app.pc \in {"load", "rows"} /\ ~app.refreshing
    /\ \E text \in {rows.text} \cup (IF conn.pc = "none" THEN {} ELSE {<<>>}) :
         app' = [app EXCEPT !.pc = "shown", !.text = text, !.reasoning = <<>>,
                            !.known = conn.pc = "none", !.running = conn.pc = "none",
                            !.refresh_pending = FALSE]

Loading(a, refresh) == [a EXCEPT !.pc = "load", !.refreshing = refresh]

\* Mutant: text is appended wherever it comes from.
GapIgnored(e) == FALSE
\* A delta that does not begin where the text that is shown ends.
Gap(e) == e.kind = "text" /\ e.offset # Len(app.text)

\* The end of the turn marks what is shown as to be refreshed.
Applied(e) ==
    [app EXCEPT !.cursor = e.sequence,
                !.text = IF e.kind = "text" /\ app.known /\ app.running THEN @ \o e.units ELSE @,
                !.reasoning = IF e.kind = "reasoning" THEN @ \o e.units ELSE @,
                !.running = @ /\ e.kind # "done",
                !.refresh_pending = @ \/ (e.kind = "done" /\ app.known)]

\* apply_event: events that are known are skipped, and text that does not continue
\* what is shown makes the interface load a snapshot.  At the end of the turn it
\* refreshes what it shows, unless the user has scrolled away from the end.
Applies(e) ==
    IF e.sequence <= app.cursor THEN {app}
    ELSE IF Gap(e) THEN {Loading(app, FALSE)}
    ELSE IF e.kind = "done" /\ app.known THEN {Loading(Applied(e), TRUE), Applied(e)}
    ELSE {Applied(e)}

ApplyEvent ==
    /\ app.pc = "shown" /\ inbox # <<>>
    /\ app' \in Applies(log[Head(inbox)])
    /\ inbox' = Tail(inbox)
    /\ UNCHANGED <<conn, after, start, got>>

\* flush_pending_transcript_refresh, when the user comes back to the end.
UserReturns ==
    /\ reader = "interface" /\ app.pc = "shown" /\ app.refresh_pending
    /\ app' = Loading(app, TRUE)
    /\ UNCHANGED <<reader, channel, publisher, stream, turnVars, others, faults, export>>

\* run_interactive_loop starts the stream once the first snapshot is shown.
Interface ==
    /\ reader = "interface"
    /\ \/ Snapshot /\ UNCHANGED stream
       \/ ApplyEvent
       \/ app.pc = "shown" /\ StartStream(app.cursor) /\ UNCHANGED app
       \/ StreamStep /\ UNCHANGED app
    /\ UNCHANGED <<reader, channel, publisher, turnVars, others, faults, export>>

InterfaceFault ==
    /\ reader = "interface" /\ Fault
    /\ \/ (RefreshFails \/ LoadFails) /\ UNCHANGED stream
       \/ Disconnect /\ UNCHANGED app
    /\ UNCHANGED <<reader, channel, publisher, turnVars, others, export>>

-----------------------------------------------------------------------------
Exporter ==
    /\ reader = "exporter" /\ Audit!ExportStep
    /\ UNCHANGED <<reader, channel, publisher, stream, turnVars, app, others, faults>>

ExporterFault ==
    /\ reader = "exporter"
    /\ \/ Audit!DeliveryFails /\ Fault
       \/ \E b \in wire : Audit!Arrive(b) /\ UNCHANGED faults
    /\ UNCHANGED <<reader, channel, publisher, stream, turnVars, app, others>>

\* The daemon dies and starts again.  The turn is not taken up, the interface
\* and the collector live on.  (A snapshot that is under way fails: RefreshFails, LoadFails.)
Crash ==
    /\ Fault /\ Restart /\ Audit!ExportCrash
    /\ reader = "interface" => app.pc = "shown"
    /\ turn' = IF turn = "over" THEN turn ELSE "dead"
    /\ task' = "dead" /\ placing' = FALSE /\ chan' = <<>> /\ held' = NoEntry /\ slot' = NoSlot
    /\ UNCHANGED <<reader, emitted, queued, accepted, overflowed, textOffset, rows, app, others>>

Next ==
    \/ Agent \/ RunEnds \/ TurnStep \/ TaskFails \/ PublishOther
    \/ Interface \/ UserReturns \/ InterfaceFault \/ Exporter \/ ExporterFault \/ Crash

\* The tasks of the daemon, the interface and the worker of the exporter, which
\* polls every second, go on whenever they can; the user need not come back.
Spec == Init /\ [][Next]_vars
             /\ WF_vars(TurnStep) /\ WF_vars(Interface) /\ WF_vars(Exporter)

-----------------------------------------------------------------------------
\* Every variable keeps its type.
TypeOK ==
    /\ reader \in Readers /\ others \in 0..MaxOther[reader] /\ faults \in 0..MaxFaults[reader]
    /\ turn \in {"running", "ended", "stored", "publishing", "over", "dead"}
    /\ task \in {"recv", "take", "row", "publish", "sending", "dead"}
    /\ Len(chan) <= Capacity /\ \A i \in DOMAIN chan : Len(chan[i].units) \in 1..BatchLimit
    /\ accepted \in 0..ReasoningLimit
    /\ conn.pc \in {"none", "off", "subscribed", "replay", "live"} /\ conn.pos \in 0..Len(log)
    /\ app.pc \in {"load", "rows", "shown"} /\ app.cursor \in 0..Len(log)
    /\ exporter.pc \in {"idle", "build", "put", "check", "send", "sent", "advance", "delete"}

Units(entries) == FlattenSeq([i \in DOMAIN entries |-> entries[i].units])

\* Coalescing, the channel and the publisher keep the order of the output: unless
\* the run failed closed, what is published of a turn is what the agent put out,
\* in that order, across kinds, with nothing left out.
PublishedInOrder ==
    overflowed \/ IsPrefix(Units(log), [i \in DOMAIN emitted |-> i])

\* "audit sequence gap" and "audit chain mismatch" cannot happen: whenever the
\* daemon dies it can start again, and the next event continues the stored chain.
LogSurvivesRestart ==
    /\ Verifies(log)
    /\ lock = "free" => seq = Len(log) /\ chain = [n \in DOMAIN log |-> n]

\* The log, the publisher and what they share fit together, at every restart too.
LogConsistent == TypeOK /\ PublishedInOrder /\ LogSurvivesRestart

\* The stream delivers every visible event after the cursor once and in order,
\* over replay pages, the change to live events, lags, lost connections and
\* restarts.
DeliversFeed == Feed!Spec

\* The text shown is never garbled: it is a beginning of what the agent wrote,
\* whatever mix of snapshots, replayed and live events it came from.
TextIsPrefix == overflowed \/ IsPrefix(app.text, Positions("text"))

\* "A concurrent mutation can therefore be present in both the snapshot and
\* replay, but can never fall into a gap between them.  Clients upsert by item ID
\* and revision": what is shown of the reasoning has no part twice.
ReasoningShownOnce == IsPrefix(app.reasoning, Positions("reasoning"))

\* When the turn is over the interface comes to show its stored answer, or knows
\* that it does not: a refresh is still marked as pending (it failed, or the user
\* has scrolled away and not come back), or a load failed and left the interface
\* without a current turn.  It never settles on another text as the answer.
TurnIsShown ==
    <>[](reader = "interface" /\ turn = "over" =>
            app.text = rows.text \/ app.refresh_pending \/ ~app.known)

TeamEvents == LET found == InOrder({n \in DOMAIN log : OfTeam(log[n])})
              IN  [i \in DOMAIN found |-> log[found[i]]]

\* The collector has the team's events, in order, none twice and none left out,
\* with the hashes of the local chain, also when receipts are lost, requests
\* arrive late and the daemon dies between sending and advancing.
CollectorHasEvents ==
    IsPrefix(collector.records,
             [i \in DOMAIN TeamEvents |-> [source |-> i, local |-> TeamEvents[i].sequence,
                                           hash |-> TeamEvents[i].hash]])

\* "durable batch retained for retry": a batch that is sent is one the collector
\* has or one that continues what it has, never another version of a batch whose
\* receipt was lost.
RetriesTheSameBatch ==
    exporter.pc \in {"send", "sent"} =>
        Audit!Accepts(exporter.batch) \/ exporter.batch \in collector.batches

\* The collector's copy is exact and stays so when a batch is retried.
CollectorIsExact == CollectorHasEvents /\ RetriesTheSameBatch

\* Every event of the team reaches the collector.
ExportCatchesUp ==
    <>[](reader = "exporter" => Len(collector.records) = Len(TeamEvents))
=============================================================================
