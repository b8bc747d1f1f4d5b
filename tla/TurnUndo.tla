------------------------------- MODULE TurnUndo -------------------------------
(***************************************************************************)
(* Edits of a turn and their undo (execution/src/editing.rs, apply_edits;  *)
(* execution/src/lib.rs, undo_turn; storage/src/lib.rs, turn_file_changes  *)
(* and session_goal_checkpoints; tool-runtime/src/lib.rs,                  *)
(* replace_workspace_file and restore_file).                               *)
(*                                                                         *)
(* The turn records a change before it makes it, so that undo finds what   *)
(* to put back after a crash at any point.  The workspace is the user's:   *)
(* an editor may write a file between any two steps.  Calls of the turn    *)
(* run next to each other, and an approved edit runs after the turn has    *)
(* ended, next to an undo.  An action is one transaction, one read of the  *)
(* database or one access to a file; a hash stands for the content.        *)
(***************************************************************************)
EXTENDS Naturals, Sequences, FiniteSets, SequencesExt

CONSTANTS
    Files, Contents,    \* files of the workspace and what may be in them
    Goals,              \* what may be the goal of the session
    Absent,             \* no such file, or no goal
    Calls,              \* tool calls of the turn, edits or changes of the goal
    Undos,              \* requests to undo the turn
    MaxUser,            \* bound: edits of the user, and changes of the goal
    MaxFaults           \* bound: failed writes, dropped calls and crashes

ASSUME UndoAssumption ==
    /\ Absent \notin Contents \cup Goals /\ "goal" \notin Files /\ Files # {} /\ IsFiniteSet(Files)
    /\ "none" \notin Calls /\ {MaxUser, MaxFaults} \subseteq Nat

VARIABLES
    disk,       \* content of each file
    row,        \* turn_file_changes of the turn
    goal,       \* session_goals: what is in the conversation of the goal
    checkpoint, \* session_goal_checkpoints of the turn
    turn,       \* "running", terminal but the goal not yet settled ("ending", "settling"), "over"
    recorded,   \* the goal the end of the turn has found
    call,       \* the tool calls of the turn
    undo,       \* the requests to undo
    messages,   \* of the session: of the "turn", a "later" one, and the "undo" marker
    user, faults,
    kept,       \* history: what a file, or the goal, would be without the turn
    mixed,      \* history: the files, or Goal, of which a race has lost whose content it is
    late        \* history: the files, or Goal, the turn first changed during or after its undo

vars == <<disk, row, goal, checkpoint, turn, recorded, call, undo, messages,
          user, faults, kept, mixed, late>>
session == <<goal, checkpoint, turn, recorded, messages>>
bounds  == <<user, faults>>

Goal == "goal"
None == "none"
Versions == Contents \cup {Absent}
GoalVersions == Goals \cup {Absent}

NoRow   == [state |-> None, before |-> Absent, after |-> Absent, previous |-> Absent, op |-> None]
NoFiles == [f \in Files |-> Absent]
NoCall  == [pc |-> "ready", todo |-> {}, file |-> None, snapshot |-> NoFiles, new |-> NoFiles,
            goal |-> Absent]
Done    == [NoCall EXCEPT !.pc = "done"]
NoUndo  == [pc |-> "idle", todo |-> {}, file |-> None, expected |-> NoFiles, before |-> NoFiles,
            goal |-> FALSE, saw |-> NoRow, seen |-> 0]

Init ==
    /\ disk \in [Files -> Versions] /\ goal = Absent
    /\ row = [f \in Files |-> NoRow] /\ checkpoint = NoRow
    /\ turn = "running" /\ recorded = Absent
    /\ call = [c \in Calls |-> NoCall] /\ undo = [u \in Undos |-> NoUndo]
    /\ messages = <<"turn">> /\ user = 0 /\ faults = 0
    /\ kept = [x \in Files \cup {Goal} |-> IF x = Goal THEN goal ELSE disk[x]]
    /\ mixed = {} /\ late = {}

Fault == faults < MaxFaults /\ faults' = faults + 1
Open(r) == r.state \in {"planned", "applied"}

At(c, pc) == call[c].pc = pc
To(c, pc) == call' = [call EXCEPT ![c].pc = pc]
Ends(c) == call' = [call EXCEPT ![c] = Done]

\* The first change of x comes after an undo has looked for changes.
Tardy(x) ==
    late' = IF (\E u \in Undos : undo[u].pc # "idle") \/ Contains(messages, "undo")
            THEN late \cup {x} ELSE late

-----------------------------------------------------------------------------
(* apply_edits                                                              *)

\* Every file of the call is read, and its revision and edit checked, first.  (One
\* step: each file is followed on its own, and an edit of the user's between two
\* reads comes before or after the read of its file.)  The turn may be over: its
\* status is looked at when the call is asked for, not when it is approved.
Prepare(c) ==
    /\ At(c, "ready")
    /\ \E todo \in SUBSET Files \ {{}} : \E new \in [todo -> Contents] :
         call' = [call EXCEPT ![c].pc = "plan", ![c].todo = todo,
                              ![c].snapshot = [f \in Files |-> IF f \in todo THEN disk[f] ELSE Absent],
                              ![c].new = [f \in Files |-> IF f \in todo THEN new[f] ELSE Absent]]
    /\ UNCHANGED <<session, disk, row, undo, bounds, kept, mixed, late>>

\* A second edit keeps the before-image of the first.
Planned(c, f) ==
    IF row[f] = NoRow
    THEN [state |-> "planned", before |-> call[c].snapshot[f], after |-> call[c].new[f],
          previous |-> Absent, op |-> c]
    ELSE [row[f] EXCEPT !.state = "planned", !.after = call[c].new[f], !.previous = row[f].after,
                        !.op = c]

\* plan_turn_file_change
Plan(c, f) ==
    /\ At(c, "plan") /\ f \in call[c].todo
    /\ IF row[f].state \in {None, "applied"}
       THEN /\ row' = [row EXCEPT ![f] = Planned(c, f)]
            /\ call' = [call EXCEPT ![c].pc = "check", ![c].file = f]
            /\ IF row[f] = NoRow THEN Tardy(f) ELSE UNCHANGED late
       ELSE Ends(c) /\ UNCHANGED <<row, late>>
    /\ UNCHANGED <<session, disk, undo, bounds, kept, mixed>>

\* The record is still that of the plan.
Current(c) == LET r == row[call[c].file] IN r.state = "planned" /\ r.op = c

\* replace_workspace_file compares the file with what was read ...
CheckFile(c) ==
    /\ At(c, "check")
    /\ LET f == call[c].file IN To(c, IF disk[f] = call[c].snapshot[f] THEN "rename" ELSE "abort")
    /\ UNCHANGED <<session, disk, row, undo, bounds, kept, mixed, late>>

\* RENAME_NOREPLACE
CanRename(c, f) == call[c].snapshot[f] = Absent => disk[f] = Absent

\* The edit builds on one of the user's after an earlier one of the turn: the
\* record has room for one content to put back.
TakesOver(c, f) ==
    row[f].previous # Absent /\ call[c].snapshot[f] = kept[f] /\ kept[f] # row[f].before

\* An undo has closed the record, or closes it without another look at the file.
UndoIsPast(c, f) ==
    \/ ~Current(c)
    \/ \E u \in Undos : /\ f \in undo[u].todo
                        /\ \/ undo[u].expected[f] = undo[u].before[f]
                           \/ undo[u].pc = "mark" /\ undo[u].file = f

\* ... and then puts the new one in its place.  If the sync of the directory
\* fails, the change is recorded and the call stops.
Rename(c) ==
    /\ At(c, "rename")
    /\ LET f == call[c].file
       IN  IF CanRename(c, f)
           THEN /\ disk' = [disk EXCEPT ![f] = call[c].new[f]]
                /\ mixed' = IF TakesOver(c, f) \/ UndoIsPast(c, f) THEN mixed \cup {f} ELSE mixed
                /\ \/ To(c, "complete") /\ UNCHANGED faults
                   \/ call' = [call EXCEPT ![c].pc = "complete", ![c].todo = {f}] /\ Fault
           ELSE To(c, "abort") /\ UNCHANGED <<disk, mixed, faults>>
    /\ UNCHANGED <<session, row, undo, user, kept, late>>

WriteFails(c) ==
    /\ Fault /\ At(c, "rename") /\ To(c, "abort")
    /\ UNCHANGED <<session, disk, row, undo, user, kept, mixed, late>>

\* complete_turn_file_change; an error if the plan is no longer current.
Complete(c) ==
    /\ At(c, "complete")
    /\ LET f == call[c].file
       IN  IF Current(c)
           THEN /\ row' = [row EXCEPT ![f].state = "applied", ![f].previous = Absent, ![f].op = None]
                /\ IF call[c].todo = {f} THEN Ends(c)
                   ELSE call' = [call EXCEPT ![c].pc = "plan", ![c].file = None, ![c].todo = @ \ {f}]
           ELSE Ends(c) /\ UNCHANGED row
    /\ UNCHANGED <<session, disk, undo, bounds, kept, mixed, late>>

\* Mutant: the change counts as made if the file is as planned.
AbortUnlessThere(c) ==
    /\ At(c, "abort") /\ Ends(c)
    /\ LET f == call[c].file
       IN  row' = IF ~Current(c) THEN row
                  ELSE [row EXCEPT ![f] =
                          IF disk[f] = @.after THEN [@ EXCEPT !.state = "applied", !.op = None]
                          ELSE IF @.previous = Absent THEN NoRow
                          ELSE [@ EXCEPT !.state = "applied", !.after = row[f].previous,
                                         !.previous = Absent, !.op = None]]
    /\ UNCHANGED <<session, disk, undo, bounds, kept, mixed, late>>

\* abort_turn_file_change: the row is what it was before the plan.
Abort(c) ==
    /\ At(c, "abort") /\ Ends(c)
    /\ LET f == call[c].file
       IN  row' = IF ~Current(c) THEN row
                  ELSE [row EXCEPT ![f] =
                          IF @.previous = Absent THEN NoRow
                          ELSE [@ EXCEPT !.state = "applied", !.after = row[f].previous,
                                         !.previous = Absent, !.op = None]]
    /\ UNCHANGED <<session, disk, undo, bounds, kept, mixed, late>>

\* The future of the call is dropped, or the database refuses.  The check and the
\* write are one piece of blocking code.
CallDropped(c) ==
    /\ Fault /\ call[c].pc \notin {"ready", "done", "rename"} /\ Ends(c)
    /\ UNCHANGED <<session, disk, row, undo, user, kept, mixed, late>>

Edit(c) ==
    \/ Prepare(c) \/ (\E f \in Files : Plan(c, f)) \/ CheckFile(c) \/ Rename(c) \/ WriteFails(c)
    \/ Complete(c) \/ Abort(c) \/ CallDropped(c)

-----------------------------------------------------------------------------
(* The goal of the session.                                                 *)

\* Mutant: a goal the user has set since is not noticed.
GoalIsOwnAlways(r) == TRUE
\* The comparison of session_goal_checkpoint_is_restorable and restore_session_goal_checkpoint.
GoalIsOwn(r) == r.state = "applied" => r.after = goal

\* create_goal and update_goal read the goal ...  (begin_session_goal_checkpoint
\* looks at the status of the turn after this read and before its transaction.)
GoalReads(c) ==
    /\ At(c, "ready") /\ turn = "running"
    /\ call' = [call EXCEPT ![c].pc = "goal_read", ![c].goal = goal]
    /\ UNCHANGED <<session, disk, row, undo, bounds, kept, mixed, late>>

\* ... and record it: begin_session_goal_checkpoint.
GoalBegins(c) ==
    /\ At(c, "goal_read")
    /\ CASE checkpoint.state = None ->
              /\ checkpoint' = [NoRow EXCEPT !.state = "planned", !.before = call[c].goal]
              /\ To(c, "goal_begun") /\ Tardy(Goal)
         [] checkpoint.state = "applied" ->
              /\ checkpoint' = [checkpoint EXCEPT !.state = "planned", !.after = Absent]
              /\ To(c, "goal_begun") /\ UNCHANGED late
         [] OTHER -> Ends(c) /\ UNCHANGED <<checkpoint, late>>
    /\ UNCHANGED <<disk, row, goal, turn, recorded, undo, messages, bounds, kept, mixed>>

\* set_session_goal, update_session_goal.  An undo may have closed the record.
GoalSet(c) ==
    /\ At(c, "goal_begun")
    /\ \E g \in Goals : goal' = g /\ call' = [call EXCEPT ![c].pc = "goal_set", ![c].goal = g]
    /\ mixed' = IF checkpoint.state # "planned" THEN mixed \cup {Goal} ELSE mixed
    /\ UNCHANGED <<disk, row, checkpoint, turn, recorded, undo, messages, bounds, kept, late>>

\* The goal is not set, or not the one that was read any more (expected_revision).
GoalFails(c) ==
    /\ At(c, "goal_begun") /\ To(c, "goal_failed")
    /\ \/ goal # call[c].goal /\ UNCHANGED faults
       \/ Fault
    /\ UNCHANGED <<session, disk, row, undo, user, kept, mixed, late>>

\* finish_session_goal_checkpoint, with the goal that was set.
GoalFinishes(c) ==
    /\ At(c, "goal_set")
    /\ \/ /\ checkpoint.state = "planned" /\ Ends(c) /\ UNCHANGED faults
          /\ checkpoint' = [checkpoint EXCEPT !.state = "applied", !.after = call[c].goal]
       \/ checkpoint.state # "planned" /\ To(c, "goal_failed") /\ UNCHANGED <<checkpoint, faults>>
       \/ Fault /\ To(c, "goal_failed") /\ UNCHANGED checkpoint
    /\ UNCHANGED <<disk, row, goal, turn, recorded, undo, messages, user, kept, mixed, late>>

\* restore_session_goal_checkpoint compares the goal ...  (As long as the call runs, a
\* goal of the user's counts as lost: the two reads are one step.)
GoalLooks(c) ==
    /\ At(c, "goal_failed")
    /\ IF Open(checkpoint) /\ GoalIsOwn(checkpoint) THEN To(c, "goal_restore") ELSE Ends(c)
    /\ UNCHANGED <<session, disk, row, undo, bounds, kept, mixed, late>>

\* ... and puts the recorded one in its place, whatever is there by then.
GoalIsPutBack ==
    /\ Open(checkpoint) /\ goal' = checkpoint.before
    /\ checkpoint' = [checkpoint EXCEPT !.state = "undone"]

GoalRestores(c) ==
    /\ At(c, "goal_restore") /\ Ends(c)
    /\ \/ GoalIsPutBack
       \/ ~Open(checkpoint) /\ UNCHANGED <<goal, checkpoint>>
    /\ UNCHANGED <<disk, row, turn, recorded, undo, messages, bounds, kept, mixed, late>>

GoalCall(c) ==
    GoalReads(c) \/ GoalBegins(c) \/ GoalSet(c) \/ GoalFails(c) \/ GoalFinishes(c)
    \/ GoalLooks(c) \/ GoalRestores(c)

\* The row of the turn becomes terminal: the run is over, or the session is closed
\* while its calls still run.
TurnEnds ==
    /\ turn = "running" /\ turn' = "ending"
    /\ UNCHANGED <<disk, row, goal, checkpoint, recorded, call, undo, messages, bounds, kept, mixed, late>>

\* The run, and its calls, have ended: record_session_goal_turn.  A spent budget
\* blocks the goal; without a record of the turn it stays blocked.
RecordGoal ==
    /\ turn = "ending" /\ turn' = "settling"
    /\ \A c \in Calls : call[c].pc \notin {"goal_read", "goal_begun", "goal_set", "goal_failed", "goal_restore"}
    /\ \E g \in {goal} \cup (IF goal = Absent THEN {} ELSE Goals) :
         /\ goal' = g /\ recorded' = g
         /\ kept' = IF g = goal \/ Open(checkpoint) THEN kept ELSE [kept EXCEPT ![Goal] = g]
    /\ UNCHANGED <<disk, row, checkpoint, call, undo, messages, bounds, mixed, late>>

\* refresh_session_goal_checkpoint, with the goal of that moment.
RefreshGoal ==
    /\ turn = "settling" /\ turn' = "over" /\ recorded' = Absent
    /\ checkpoint' = IF Open(checkpoint) THEN [checkpoint EXCEPT !.state = "applied", !.after = recorded]
                     ELSE checkpoint
    /\ UNCHANGED <<disk, row, goal, call, undo, messages, bounds, kept, mixed, late>>

TurnStep == TurnEnds \/ RecordGoal \/ RefreshGoal

-----------------------------------------------------------------------------
(* undo_turn                                                                *)

Put(u, record) == undo' = [undo EXCEPT ![u] = record]

\* The file is as before, as after, or as after the edit before the last.
IsOwn(f) == \/ disk[f] \in {row[f].before, row[f].after}
            \/ row[f].previous # Absent /\ disk[f] = row[f].previous

\* A file of the user's is by chance what an edit of the turn was to write.
Coincides(f) == disk[f] = kept[f] /\ disk[f] \notin {row[f].before, Absent}

\* The turn is terminal, the latest, and not undone; each file is looked at before
\* anything is changed.  (These are reads: what changes between two of them makes
\* a later step fail, or is such a coincidence.)
UndoStart(u) ==
    /\ undo[u].pc = "idle" /\ turn # "running" /\ messages = <<"turn">>
    /\ LET open == {f \in Files : Open(row[f])}
       IN  /\ GoalIsOwn(checkpoint) /\ \A f \in open : IsOwn(f)
           /\ Put(u, [pc |-> "files", todo |-> open, file |-> None,
                      expected |-> [f \in Files |-> IF f \in open THEN disk[f] ELSE Absent],
                      before |-> [f \in Files |-> IF f \in open THEN row[f].before ELSE Absent],
                      goal |-> Open(checkpoint), saw |-> NoRow, seen |-> Len(messages)])
           /\ mixed' = mixed \cup {f \in open : Coincides(f)}
    /\ late' = IF \A v \in Undos \ {u} : undo[v].pc = "idle" THEN {} ELSE late
    /\ UNCHANGED <<session, disk, row, call, bounds, kept>>

UndoFails(u) == Put(u, NoUndo)

\* The next file.  One that was as before the turn needs no restoring; any other
\* is compared again by restore_file ...
UndoFile(u, f) ==
    /\ undo[u].pc = "files" /\ f \in undo[u].todo
    /\ \/ /\ undo[u].expected[f] = undo[u].before[f]
          /\ Put(u, [undo[u] EXCEPT !.file = f, !.pc = "mark"])
       \/ /\ undo[u].expected[f] # undo[u].before[f]
          /\ IF disk[f] = undo[u].expected[f]
             THEN Put(u, [undo[u] EXCEPT !.file = f, !.pc = "rename"])
             ELSE UndoFails(u)
    /\ UNCHANGED <<session, disk, row, call, bounds, kept, mixed, late>>

\* ... and then replaced, or removed.
UndoRename(u) ==
    /\ undo[u].pc = "rename"
    /\ LET f == undo[u].file
       IN  IF undo[u].before[f] = Absent /\ disk[f] = Absent
           THEN UndoFails(u) /\ UNCHANGED disk
           ELSE /\ disk' = [disk EXCEPT ![f] = undo[u].before[f]]
                /\ Put(u, [undo[u] EXCEPT !.pc = "mark"])
    /\ UNCHANGED <<session, row, call, bounds, kept, mixed, late>>

\* mark_turn_file_change_undone
UndoMark(u) ==
    /\ undo[u].pc = "mark"
    /\ LET f == undo[u].file
       IN  IF Open(row[f])
           THEN /\ row' = [row EXCEPT ![f].state = "undone", ![f].op = None]
                /\ Put(u, [undo[u] EXCEPT !.pc = "files", !.file = None, !.todo = @ \ {f}])
           ELSE UndoFails(u) /\ UNCHANGED row
    /\ UNCHANGED <<session, disk, call, bounds, kept, mixed, late>>

\* restore_session_goal_checkpoint reads the record, ...
UndoGoal(u) ==
    /\ undo[u].pc = "files" /\ undo[u].todo = {} /\ undo[u].goal
    /\ IF Open(checkpoint) THEN Put(u, [undo[u] EXCEPT !.pc = "goal_look", !.saw = checkpoint])
       ELSE Put(u, [undo[u] EXCEPT !.goal = FALSE])
    /\ UNCHANGED <<session, disk, row, call, bounds, kept, mixed, late>>

\* ... reads the goal and compares ...
UndoGoalLooks(u) ==
    /\ undo[u].pc = "goal_look"
    /\ IF GoalIsOwn(undo[u].saw) THEN Put(u, [undo[u] EXCEPT !.pc = "goal_restore", !.saw = NoRow])
       ELSE UndoFails(u)
    /\ UNCHANGED <<session, disk, row, call, bounds, kept, mixed, late>>

\* ... and the transaction.
UndoGoalWrites(u) ==
    /\ undo[u].pc = "goal_restore"
    /\ \/ GoalIsPutBack /\ Put(u, [undo[u] EXCEPT !.pc = "files", !.goal = FALSE])
       \/ ~Open(checkpoint) /\ UndoFails(u) /\ UNCHANGED <<goal, checkpoint>>
    /\ UNCHANGED <<disk, row, turn, recorded, call, messages, bounds, kept, mixed, late>>

\* Mutant: the marker is added whatever has happened since.
SameConversationAlways(u) == TRUE
\* append_context_state compares the number and the last of the messages.
SameConversation(u) == Len(messages) = undo[u].seen

\* append_conversation_undo
UndoMarker(u) ==
    /\ undo[u].pc = "files" /\ undo[u].todo = {} /\ ~undo[u].goal
    /\ messages' = IF SameConversation(u) THEN Append(messages, "undo") ELSE messages
    /\ UndoFails(u)
    /\ UNCHANGED <<disk, row, goal, checkpoint, turn, recorded, call, bounds, kept, mixed, late>>

UndoError(u) ==
    /\ Fault /\ undo[u].pc # "idle" /\ UndoFails(u)
    /\ UNCHANGED <<session, disk, row, call, user, kept, mixed, late>>

Undo(u) == \/ UndoStart(u) \/ \E f \in Files : UndoFile(u, f)
           \/ UndoRename(u) \/ UndoMark(u) \/ UndoGoal(u) \/ UndoGoalLooks(u)
           \/ UndoGoalWrites(u) \/ UndoMarker(u) \/ UndoError(u)

-----------------------------------------------------------------------------
(* The user.                                                                *)

\* Between a check and the rename an edit of the user is lost.
InWindow(f) ==
    \/ \E c \in Calls : At(c, "rename") /\ call[c].file = f /\ call[c].snapshot[f] # Absent
    \/ \E u \in Undos : undo[u].pc = "rename" /\ undo[u].file = f

\* The user writes by chance what an undo is about to take for the turn's.
IsExpected(f, v) ==
    \E u \in Undos : f \in undo[u].todo /\ v = undo[u].expected[f] /\ v # undo[u].before[f]

UserEdits ==
    /\ user < MaxUser /\ user' = user + 1
    /\ \E f \in Files, v \in Versions :
         /\ v # disk[f] /\ disk' = [disk EXCEPT ![f] = v] /\ kept' = [kept EXCEPT ![f] = v]
         /\ mixed' = IF InWindow(f) \/ IsExpected(f, v) THEN mixed \cup {f} ELSE mixed
    /\ UNCHANGED <<session, row, call, undo, faults, late>>

\* The goal of the user is lost, or taken for the turn's: it is set between a
\* comparison, or the read of the before-image, and the transaction that relies on
\* it; while the turn runs or after it died half-way; or it is by chance the same.
GoalIsLost(g) ==
    \/ checkpoint.state = None /\ \E c \in Calls : At(c, "goal_read")
    \/ \E c \in Calls : At(c, "goal_restore")
    \/ \E u \in Undos : undo[u].pc \in {"goal_look", "goal_restore"}
    \/ /\ Open(checkpoint)
       /\ \/ turn \in {"running", "ending"} \/ checkpoint.state = "planned"
          \/ g = checkpoint.after
          \/ turn = "settling" /\ g = recorded

\* set_session_goal
UserSetsGoal ==
    /\ user < MaxUser /\ user' = user + 1
    /\ \E g \in Goals :
         /\ g # goal /\ goal' = g /\ kept' = [kept EXCEPT ![Goal] = g]
         /\ mixed' = IF GoalIsLost(g) THEN mixed \cup {Goal} ELSE mixed
    /\ UNCHANGED <<disk, row, checkpoint, turn, recorded, call, undo, messages, faults, late>>

\* The next prompt.
NewPrompt ==
    /\ turn # "running" /\ ~Contains(messages, "later") /\ messages' = Append(messages, "later")
    /\ UNCHANGED <<disk, row, goal, checkpoint, turn, recorded, call, undo, bounds, kept, mixed, late>>

\* The daemon dies and settles the turn when it starts again.  Nobody is left to
\* find out that a planned write was not made.
Crash ==
    /\ Fault /\ turn' = "over" /\ recorded' = Absent
    /\ call' = [c \in Calls |-> IF At(c, "ready") THEN NoCall ELSE Done]
    /\ undo' = [u \in Undos |-> NoUndo]
    /\ UNCHANGED <<disk, row, goal, checkpoint, messages, user, kept, mixed, late>>

Next ==
    \/ \E c \in Calls : Edit(c) \/ GoalCall(c)
    \/ TurnStep \/ (\E u \in Undos : Undo(u)) \/ UserEdits \/ UserSetsGoal \/ NewPrompt \/ Crash

Spec == Init /\ [][Next]_vars

-----------------------------------------------------------------------------
Records(versions) ==
    [state : {None, "planned", "applied", "undone"}, before : versions, after : versions,
     previous : versions, op : Calls \cup {None}]

\* Every variable keeps its type; only a planned change has two contents of the turn.
TypeOK ==
    /\ \A f \in Files : row[f].previous # Absent => row[f].state \in {"planned", "undone"}
    /\ disk \in [Files -> Versions] /\ {goal, recorded} \subseteq GoalVersions
    /\ row \in [Files -> Records(Versions)] /\ checkpoint \in Records(GoalVersions)
    /\ turn \in {"running", "ending", "settling", "over"} /\ messages \in Seq({"turn", "later", "undo"})
    /\ \A c \in Calls : call[c].todo \subseteq Files
    /\ \A u \in Undos : undo[u].todo \subseteq Files
    /\ kept \in [Files \cup {Goal} -> Versions \cup Goals]
    /\ mixed \subseteq Files \cup {Goal} /\ late \subseteq Files \cup {Goal}

\* A conversation is undone at most once, however many requests race, and never
\* with messages of a later turn after the ones that are left out.
UndoneOnce == messages \in {<<"turn">>, <<"turn", "later">>, <<"turn", "undo">>, <<"turn", "undo", "later">>}

\* "Turn undo refuses to overwrite subsequent external changes": when the undo is
\* done, files and goal are what they would be without the turn, also when it took
\* several attempts with crashes and failed writes in between, next to calls that
\* still run.  Not so where a race was lost (mixed), or where the turn made its
\* first change after the undo had looked (late).
UndoRestores ==
    Contains(messages, "undo") =>
        /\ \A f \in Files \ (mixed \cup late) : disk[f] = kept[f]
        /\ Goal \in mixed \cup late \/ goal = kept[Goal]

\* At every moment a file is what it would be without the turn, or there is an open
\* record with the content to put back and the content that is there: a crash at
\* any point leaves a turn that can be undone.  Not so if an edit approved after the
\* end of the turn is written when an undo is past its file (mixed).
ChangeIsRecorded ==
    \A f \in Files \ mixed :
        disk[f] # kept[f] => Open(row[f]) /\ row[f].before = kept[f] /\ IsOwn(f)

\* The records of the turn's changes fit the files at every step.
RecordsConsistent == TypeOK /\ ChangeIsRecorded
=============================================================================
