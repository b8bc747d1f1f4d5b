------------------------------- MODULE EventLog -------------------------------
(***************************************************************************)
(* The event log and its live readers (daemon/src/lib.rs, EventPublisher   *)
(* and events; storage/src/lib.rs, audit_events; audit/src/lib.rs,         *)
(* HashChain; cli/src/commands/interactive.rs, stream_events).             *)
(*                                                                         *)
(* A publisher holds the lock of the chain from the commit of its event to *)
(* the broadcast.  A reader subscribes to the broadcast, replays what is   *)
(* stored up to a watermark, goes on with the live events, and comes back  *)
(* with the last number it saw when the connection is lost.                *)
(***************************************************************************)
EXTENDS Naturals, Sequences, SequencesExt, FiniteSetsExt, Ascending

CONSTANTS
    BroadcastCapacity,  \* capacity of the broadcast channel, 1024
    PageSize            \* EVENT_REPLAY_PAGE_SIZE

ASSUME LogAssumption == {BroadcastCapacity, PageSize} \subseteq Nat \ {0}

VARIABLES
    log,    \* audit_events: sequence, chain_hash, kind, offset and units of text
    seq,    \* EventPublisher.sequence
    chain,  \* EventPublisher.hash_chain: the head
    lock,   \* who has committed an event and not yet broadcast it, or "free"
    conn,   \* the server's end of the event stream
    after,  \* stream_events: the number of the last event received
    inbox,  \* events on their way from stream_events to the interface
    start,  \* history: the cursor stream_events was started with
    got     \* history: the numbers of the events received since

publisher == <<log, seq, chain, lock>>
stream    == <<conn, after, inbox, start, got>>

\* Of another team, of this team but not visible to the reader, or visible.
OfTeam(e)  == e.kind # "foreign"
Visible(e) == e.kind \notin {"foreign", "hidden"}

NoConn == [pc |-> "off", asked |-> 0, through |-> 0, cursor |-> 0, page |-> <<>>, pos |-> 0]

LogInit ==
    /\ log = <<>> /\ seq = 0 /\ chain = <<>> /\ lock = "free"
    /\ conn = [NoConn EXCEPT !.pc = "none"] /\ after = 0 /\ inbox = <<>> /\ start = 0 /\ got = <<>>

-----------------------------------------------------------------------------
(* Publishing.  A hash is the sequence of the events it covers.             *)

\* append_event: the sequence number is the primary key of the table.
Commit(p, e) ==
    /\ lock = "free"
    /\ \A n \in DOMAIN log : log[n].sequence # seq + 1
    /\ log' = Append(log, [sequence |-> seq + 1, hash |-> Append(chain, Len(log) + 1),
                           kind |-> e.kind, offset |-> e.offset, units |-> e.units])
    /\ lock' = p /\ UNCHANGED <<seq, chain>>

\* The head and the number advance, and the event goes out, under the same lock.
\* The task is spawned: a caller that goes away does not stop it half-way.
Broadcast(p) ==
    /\ lock = p /\ lock' = "free"
    /\ seq' = seq + 1 /\ chain' = log[Len(log)].hash
    /\ UNCHANGED log

\* HashChain::verify
Verifies(records) ==
    \A n \in DOMAIN records : /\ records[n].sequence = n
                              /\ records[n].hash = [i \in 1..n |-> i]

\* The daemon starts on what is stored, if the chain verifies.
Restart ==
    /\ Verifies(log)
    /\ seq' = Max({0} \cup {log[n].sequence : n \in DOMAIN log})
    /\ chain' = IF log = <<>> THEN <<>> ELSE Last(log).hash
    /\ lock' = "free" /\ conn' = IF conn.pc = "none" THEN conn ELSE NoConn
    /\ UNCHANGED <<log, after, inbox, start, got>>

-----------------------------------------------------------------------------
(* GET /v1/events?after=...                                                 *)

TeamLatest == Max({0} \cup {log[n].sequence : n \in {m \in DOMAIN log : OfTeam(log[m])}})

\* list_team_events_filtered
TeamPage(from, through) ==
    LET found == InOrder({n \in DOMAIN log : /\ OfTeam(log[n])
                                             /\ log[n].sequence > from /\ log[n].sequence <= through})
    IN  SubSeq(found, 1, Min({PageSize, Len(found)}))

\* stream_events is started at the cursor of the interface.
StartStream(from) ==
    /\ conn.pc = "none" /\ conn' = NoConn
    /\ after' = from /\ start' = from
    /\ UNCHANGED <<inbox, got>>

\* The reader subscribes first ...
Connect == conn.pc = "off" /\ conn' = [NoConn EXCEPT !.pc = "subscribed", !.asked = after, !.pos = seq]

\* ... and then takes the watermark of the replay.
Watermark ==
    /\ conn.pc = "subscribed"
    /\ conn' = [conn EXCEPT !.pc = "replay", !.cursor = conn.asked, !.through = TeamLatest]

\* accepts_stream_event, then the channel to the interface.
Receive(n) ==
    IF log[n].sequence > after
    THEN after' = log[n].sequence /\ inbox' = Append(inbox, n) /\ got' = Append(got, log[n].sequence)
    ELSE UNCHANGED <<after, inbox, got>>

\* replay_event_stream: a page is read when the last one is used up.
ReplayPage ==
    /\ conn.pc = "replay" /\ conn.page = <<>> /\ conn.cursor < conn.through
    /\ LET page == TeamPage(conn.cursor, conn.through)
       IN  conn' = IF page = <<>> THEN [conn EXCEPT !.cursor = conn.through]
                   ELSE [conn EXCEPT !.cursor = log[Last(page)].sequence,
                                     !.page = InOrder({n \in Range(page) : Visible(log[n])})]
    /\ UNCHANGED <<after, inbox, start, got>>

ReplayEvent ==
    /\ conn.pc = "replay" /\ conn.page # <<>>
    /\ Receive(Head(conn.page))
    /\ conn' = [conn EXCEPT !.page = Tail(@)]
    /\ UNCHANGED start

ReplayEnds ==
    /\ conn.pc = "replay" /\ conn.page = <<>> /\ conn.cursor >= conn.through
    /\ conn' = [conn EXCEPT !.pc = "live"]
    /\ UNCHANGED <<after, inbox, start, got>>

\* live_event_follows_requested_cursor
FollowsCursor(n) == log[n].sequence > Max({conn.through, conn.asked})

Lagged == seq - conn.pos > BroadcastCapacity

LiveEvent ==
    /\ conn.pc = "live" /\ conn.pos < seq /\ ~Lagged
    /\ LET n == conn.pos + 1
       IN  IF Visible(log[n]) /\ FollowsCursor(n) THEN Receive(n)
           ELSE UNCHANGED <<after, inbox, got>>
    /\ conn' = [conn EXCEPT !.pos = @ + 1]
    /\ UNCHANGED start

\* Mutant: the stream goes on with the oldest event that is still there.
LagSkips ==
    /\ conn.pc = "live" /\ Lagged
    /\ conn' = [conn EXCEPT !.pos = seq - BroadcastCapacity]
    /\ UNCHANGED <<after, inbox, start, got>>

\* A subscriber that fell behind gets an error, which ends the response.
LagEnds ==
    /\ conn.pc = "live" /\ Lagged
    /\ conn' = NoConn
    /\ UNCHANGED <<after, inbox, start, got>>

\* The connection breaks; stream_events comes back with what it has.
Disconnect ==
    /\ conn.pc \notin {"none", "off"} /\ conn' = NoConn
    /\ UNCHANGED <<after, inbox, start, got>>

StreamStep ==
    \/ (Connect \/ Watermark) /\ UNCHANGED <<after, inbox, start, got>>
    \/ ReplayPage \/ ReplayEvent \/ ReplayEnds \/ LiveEvent \/ LagEnds

Feed == INSTANCE EventFeed WITH
    published <- LET shown == InOrder({n \in DOMAIN log : Visible(log[n])})
                 IN  [i \in DOMAIN shown |-> log[shown[i]].sequence],
    start <- start, received <- got
=============================================================================
