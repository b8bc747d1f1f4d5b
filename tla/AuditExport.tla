----------------------------- MODULE AuditExport -----------------------------
(***************************************************************************)
(* The export of a team's events to a central collector (daemon/src/lib.rs,*)
(* build_central_audit_batch, CentralAuditExporter and its worker;         *)
(* storage/src/lib.rs, central_audit_export_cursors and _pending).         *)
(*                                                                         *)
(* A batch is stored before it is sent and sent again, unchanged, until    *)
(* the collector has acknowledged it; then the cursor advances and the     *)
(* batch is deleted.  An action is one transaction or one message.         *)
(***************************************************************************)
EXTENDS Naturals, Sequences, SequencesExt, FiniteSetsExt, Ascending

CONSTANT MaxRecords     \* MAX_CENTRAL_AUDIT_RECORDS, positive (Transcript assumes it)

VARIABLES
    log,        \* the event log, see EventLog
    cursor,     \* central_audit_export_cursors: source and local number, head
    pending,    \* central_audit_export_pending, or NoBatch
    exporter,   \* export_once: where it is, and the cursor and batch it has read
    built,      \* number of batches built, the next one's identity
    wire,       \* batches on their way to the collector
    collector   \* the collector: the records it has and the batches they came in

export == <<cursor, pending, exporter, built, wire, collector>>

NoBatch     == [id |-> 0, previous |-> 0, head |-> <<>>, records |-> <<>>]
FirstCursor == [source |-> 0, local |-> 0, head |-> <<>>]
IdleExport  == [pc |-> "idle", cursor |-> FirstCursor, batch |-> NoBatch]

ExportInit ==
    /\ cursor = FirstCursor /\ pending = NoBatch /\ exporter = IdleExport
    /\ built = 0 /\ wire = {} /\ collector = [records |-> <<>>, batches |-> {}]

OfTeam(e) == e.kind # "foreign"

Batch(c, found) ==
    [id |-> built + 1, previous |-> c.source, head |-> c.head,
     records |-> [i \in 1..Min({MaxRecords, Len(found)}) |->
                    [source |-> c.source + i, local |-> log[found[i]].sequence,
                     hash |-> log[found[i]].hash]]]

\* build_central_audit_batch: the team's next events, numbered from the cursor on.
BatchAfter(c) ==
    Batch(c, InOrder({n \in DOMAIN log : OfTeam(log[n]) /\ log[n].sequence > c.local}))

\* The cursor that a batch leads to.
CursorOf(b) == [source |-> Last(b.records).source, local |-> Last(b.records).local,
                head |-> Last(b.records).hash]

Continues(b, c) ==
    b.previous = c.source /\ b.head = c.head /\ b.records[1].local > c.local

Unmoved == UNCHANGED <<cursor, pending, built, wire, collector>>

\* The cursor and the pending batch are read.
ReadState ==
    /\ exporter.pc = "idle"
    /\ exporter' = [pc |-> IF pending = NoBatch THEN "build" ELSE "check",
                    cursor |-> cursor, batch |-> pending]
    /\ Unmoved

\* Without one, a batch is built, if there is anything to send ...
Build ==
    /\ exporter.pc = "build"
    /\ LET b == BatchAfter(exporter.cursor)
       IN  IF b.records = <<>>
           THEN exporter' = IdleExport /\ UNCHANGED built
           ELSE exporter' = [exporter EXCEPT !.pc = "put", !.batch = b] /\ built' = b.id
    /\ UNCHANGED <<cursor, pending, wire, collector>>

\* Mutant: the batch is not stored.
PutPendingNever ==
    /\ exporter.pc = "put" /\ cursor = exporter.cursor
    /\ exporter' = [exporter EXCEPT !.pc = "check"]
    /\ Unmoved

\* ... and stored, unless there is one by now: then that is the one to send.
PutPending ==
    /\ exporter.pc = "put" /\ cursor = exporter.cursor
    /\ pending' = IF pending = NoBatch THEN exporter.batch ELSE pending
    /\ exporter' = [exporter EXCEPT !.pc = "check", !.batch = pending']
    /\ UNCHANGED <<cursor, built, wire, collector>>

\* Mutant: a batch that was acknowledged already is not recognised.
CheckOnlyContinues ==
    /\ exporter.pc = "check" /\ Continues(exporter.batch, exporter.cursor)
    /\ exporter' = [exporter EXCEPT !.pc = "send"] /\ Unmoved

\* The batch was already acknowledged, it continues the cursor, or export_once
\* gives up, for this time and, as nothing changes, for every other.
Check ==
    /\ exporter.pc = "check"
    /\ \/ /\ exporter.cursor = CursorOf(exporter.batch)
          /\ exporter' = [exporter EXCEPT !.pc = "delete"]
       \/ /\ exporter.cursor # CursorOf(exporter.batch)
          /\ Continues(exporter.batch, exporter.cursor)
          /\ exporter' = [exporter EXCEPT !.pc = "send"]
    /\ Unmoved

Deliver ==
    /\ exporter.pc = "send"
    /\ wire' = wire \cup {exporter.batch}
    /\ exporter' = [exporter EXCEPT !.pc = "sent"]
    /\ UNCHANGED <<cursor, pending, built, collector>>

\* External: the collector takes a batch that continues what it has, takes one it
\* already has as acknowledged, and refuses any other.
Accepts(b) == b \notin collector.batches /\ b.previous = Len(collector.records)
Ingested(b) == IF Accepts(b) THEN [records |-> collector.records \o b.records,
                                   batches |-> collector.batches \cup {b}]
               ELSE collector

\* The batch arrives, and the receipt comes back to the exporter that waits for it.
Acknowledge ==
    /\ exporter.pc = "sent" /\ exporter.batch \in wire
    /\ wire' = wire \ {exporter.batch} /\ collector' = Ingested(exporter.batch)
    /\ exporter' = IF exporter.batch \in collector'.batches
                   THEN [exporter EXCEPT !.pc = "advance"] ELSE IdleExport
    /\ UNCHANGED <<cursor, pending, built>>

\* It arrives with nobody waiting: the receipt is lost.
Arrive(b) ==
    /\ b \in wire /\ ~(exporter.pc = "sent" /\ exporter.batch = b)
    /\ wire' = wire \ {b} /\ collector' = Ingested(b)
    /\ UNCHANGED <<cursor, pending, exporter, built>>

\* The request fails or times out; it may arrive all the same.
DeliveryFails ==
    /\ exporter.pc = "sent"
    /\ exporter' = IdleExport
    /\ Unmoved

\* advance_central_audit_export_cursor: from the cursor that was read.
Advance ==
    /\ exporter.pc = "advance"
    /\ \/ cursor = exporter.cursor /\ cursor' = CursorOf(exporter.batch)
       \/ cursor = CursorOf(exporter.batch) /\ UNCHANGED cursor
    /\ exporter' = [exporter EXCEPT !.pc = "delete"]
    /\ UNCHANGED <<pending, built, wire, collector>>

DeletePending ==
    /\ exporter.pc = "delete"
    /\ pending' = IF pending = exporter.batch THEN NoBatch ELSE pending
    /\ exporter' = IdleExport
    /\ UNCHANGED <<cursor, built, wire, collector>>

\* The daemon dies: what is stored stays, and what was sent is on its way.
ExportCrash == exporter' = IdleExport /\ Unmoved

ExportStep == ReadState \/ Build \/ PutPending \/ Check \/ Deliver \/ Acknowledge
              \/ Advance \/ DeletePending
=============================================================================
