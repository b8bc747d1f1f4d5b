---------------------------- MODULE TurnUndoProofs ----------------------------
(***************************************************************************)
(* Theorems about TurnUndo, for any files, contents, goals, calls and      *)
(* requests and any number of user edits, failures and crashes.            *)
(*                                                                         *)
(* The invariant follows a file that is not in `mixed` through the plan,   *)
(* the check, the rename and the completion of every call that writes it,  *)
(* and through the check, the rename and the mark of every undo under way; *)
(* and the goal through its read, its change and its restore.              *)
(***************************************************************************)
EXTENDS TurnUndo, SequenceTheorems, TLAPS

Before == {"check", "rename", "abort"}
Busy == Before \cup {"complete"}
GoalBusy == {"goal_read", "goal_begun", "goal_set", "goal_failed", "goal_restore"}
CallType == [pc : {"ready", "done", "plan"} \cup Busy \cup GoalBusy, todo : SUBSET Files,
             file : Files \cup {None}, snapshot : [Files -> Versions], new : [Files -> Versions],
             goal : GoalVersions]
UndoType == [pc : {"idle", "files", "rename", "mark", "goal_look", "goal_restore"}, todo : SUBSET Files,
             file : Files \cup {None}, expected : [Files -> Versions], before : [Files -> Versions],
             goal : BOOLEAN, saw : Records(GoalVersions), seen : Nat]
Turns == {"running", "ending", "settling", "over"}

Types ==
    /\ disk \in [Files -> Versions] /\ goal \in GoalVersions /\ recorded \in GoalVersions
    /\ row \in [Files -> Records(Versions)] /\ checkpoint \in Records(GoalVersions)
    /\ turn \in Turns /\ call \in [Calls -> CallType] /\ undo \in [Undos -> UndoType]
    /\ kept \in [Files \cup {Goal} -> Versions \cup Goals]
    /\ \A f \in Files : kept[f] \in Versions
    /\ mixed \subseteq Files \cup {Goal} /\ late \subseteq Files \cup {Goal}

\* A row that was written has a content of the turn, and two of them only while the
\* second is planned.
RowOK(f) ==
    /\ row[f].state = None => row[f] = NoRow
    /\ row[f].state # None => row[f].after \in Contents
    /\ row[f].previous # Absent => row[f].state \in {"planned", "undone"}

CallOK(c) ==
    /\ call[c].pc \in Busy => call[c].file \in Files /\ call[c].file \in call[c].todo
    /\ \A f \in call[c].todo : call[c].new[f] \in Contents

UndoOK(u) ==
    /\ undo[u].pc = "idle" => undo[u].todo = {}
    /\ undo[u].pc \in {"rename", "mark"} => undo[u].file \in undo[u].todo
    /\ undo[u].pc = "rename" => undo[u].expected[undo[u].file] # undo[u].before[undo[u].file]

\* The record of the file is that of the plan of the call.
Works(c, f) ==
    call[c].pc \in Busy /\ call[c].file = f /\ row[f].state = "planned" /\ row[f].op = c

\* A content that is not the user's is named in an open record.
FileOK(f) ==
    f \notin mixed /\ disk[f] # kept[f] => Open(row[f]) /\ row[f].before = kept[f] /\ IsOwn(f)

\* A call has planned the file over what it has read for a first edit.  Until it has
\* written, the content is the user's or that of an earlier edit.  Once it has compared,
\* the user has not changed it.
CallFileOK(c, f) ==
    Works(c, f) =>
        /\ row[f].after = call[c].new[f]
        /\ row[f].previous = Absent => row[f].before = call[c].snapshot[f]
        /\ f \notin mixed /\ disk[f] # kept[f] =>
             /\ call[c].pc \in Before => row[f].previous # Absent /\ disk[f] = row[f].previous
             /\ call[c].pc = "complete" => disk[f] = row[f].after
        /\ f \notin mixed /\ call[c].pc = "rename" /\ call[c].snapshot[f] # Absent =>
             kept[f] = row[f].before \/ (row[f].previous # Absent /\ kept[f] = call[c].snapshot[f])

\* A file an undo has seen as before the turn is the user's until its record is closed.
\* In another one it finds what it looks for only if the turn put it there, and its
\* record is not that of a first edit that may yet be taken back.
UndoFileOK(u, f) ==
    f \in undo[u].todo /\ f \notin mixed =>
        /\ undo[u].expected[f] = undo[u].before[f] => disk[f] = kept[f]
        /\ undo[u].expected[f] # undo[u].before[f] =>
             /\ row[f].state # None /\ row[f].before = undo[u].before[f]
             /\ row[f].previous = Absent => \A c \in Calls : ~(Works(c, f) /\ call[c].pc \in Before)
             /\ disk[f] = undo[u].expected[f] => kept[f] = undo[u].before[f]
             /\ undo[u].pc = "rename" /\ undo[u].file = f => kept[f] = undo[u].before[f]
        /\ undo[u].pc = "mark" /\ undo[u].file = f => disk[f] = kept[f]

\* The goal is what it would be without the turn, or the checkpoint has that; or the
\* user has set another since, and the checkpoint does not know it.
GoalOK ==
    /\ checkpoint.state = None => checkpoint = NoRow
    /\ \A c \in Calls : call[c].pc \in GoalBusy => turn \in {"running", "ending"}
    /\ Goal \notin mixed =>
        /\ ~Open(checkpoint) => goal = kept[Goal]
        /\ Open(checkpoint) /\ checkpoint.before # kept[Goal] =>
             /\ checkpoint.state = "applied" /\ goal = kept[Goal] /\ goal # checkpoint.after
             /\ turn = "over" \/ (turn = "settling" /\ goal # recorded)
        /\ checkpoint.state = None => \A c \in Calls : call[c].pc = "goal_read" => call[c].goal = kept[Goal]
        /\ Open(checkpoint) /\ checkpoint.before # kept[Goal] =>
             /\ \A c \in Calls : call[c].pc # "goal_restore"
             /\ \A u \in Undos : undo[u].pc # "goal_restore"
             /\ \A u \in Undos : undo[u].pc = "goal_look" => ~GoalIsOwn(undo[u].saw)

\* An undo has every open record before it that is not new.
Sees(u) ==
    undo[u].pc # "idle" =>
        /\ undo[u].seen = 1
        /\ \A f \in Files : Open(row[f]) => f \in undo[u].todo \cup late
        /\ Open(checkpoint) => undo[u].goal \/ Goal \in late

\* A conversation with the marker of an undo has nothing left to restore but what is new.
Marked == messages \in {<<"turn", "undo">>, <<"turn", "undo", "later">>}
MarkerOK ==
    /\ UndoneOnce
    /\ Marked => /\ \A f \in Files : Open(row[f]) => f \in late
                 /\ Open(checkpoint) => Goal \in late

FileInv(f) ==
    /\ RowOK(f) /\ FileOK(f) /\ (\A c \in Calls : CallFileOK(c, f))
    /\ \A u \in Undos : UndoFileOK(u, f)

IInv ==
    /\ Types /\ GoalOK /\ MarkerOK /\ (\A f \in Files : FileInv(f))
    /\ \A c \in Calls : CallOK(c)
    /\ \A u \in Undos : UndoOK(u) /\ Sees(u)

-----------------------------------------------------------------------------
(* A conversation of one message and of two, and the next one.             *)

\* The second message.
LEMMA AppendToOne ==
    ASSUME NEW a, NEW e
    PROVE  Append(<<a>>, e) = <<a, e>>
<1>1. <<a>> \in Seq({a, e}) /\ Len(<<a>>) = 1
  OBVIOUS
<1>2. /\ <<a, e>> \in Seq({a, e}) /\ Len(<<a, e>>) = 2
      /\ <<a, e>>[1] = a /\ <<a, e>>[2] = e
  OBVIOUS
<1>3. /\ Append(<<a>>, e) \in Seq({a, e}) /\ Len(Append(<<a>>, e)) = 2
      /\ Append(<<a>>, e)[1] = a /\ Append(<<a>>, e)[2] = e
  BY <1>1
<1>4. \A i \in 1..2 : Append(<<a>>, e)[i] = <<a, e>>[i]
  BY <1>2, <1>3
<1> QED
  BY <1>2, <1>3, <1>4, SeqEqual

\* The third message.
LEMMA AppendToTwo ==
    ASSUME NEW a, NEW b, NEW e
    PROVE  Append(<<a, b>>, e) = <<a, b, e>>
<1>1. <<a, b>> \in Seq({a, b, e}) /\ Len(<<a, b>>) = 2
  OBVIOUS
<1>2. /\ <<a, b, e>> \in Seq({a, b, e}) /\ Len(<<a, b, e>>) = 3
      /\ <<a, b, e>>[1] = a /\ <<a, b, e>>[2] = b /\ <<a, b, e>>[3] = e
  OBVIOUS
<1>3. /\ Append(<<a, b>>, e) \in Seq({a, b, e}) /\ Len(Append(<<a, b>>, e)) = 3
      /\ Append(<<a, b>>, e)[1] = a /\ Append(<<a, b>>, e)[2] = b /\ Append(<<a, b>>, e)[3] = e
  BY <1>1
<1>4. \A i \in 1..3 : Append(<<a, b>>, e)[i] = <<a, b, e>>[i]
  BY <1>2, <1>3
<1> QED
  BY <1>2, <1>3, <1>4, SeqEqual

\* The marker is one of the messages.
LEMMA MarkedContains ==
    ASSUME UndoneOnce
    PROVE  Contains(messages, "undo") <=> Marked
<1>1. ~Contains(<<"turn">>, "undo") /\ ~Contains(<<"turn", "later">>, "undo")
  BY DEF Contains
<1>2. Contains(<<"turn", "undo">>, "undo") /\ Contains(<<"turn", "undo", "later">>, "undo")
  BY DEF Contains
<1>3. CASE Marked
  BY <1>2, <1>3 DEF Marked
<1>4. CASE ~Marked
  BY <1>1, <1>4 DEF Marked, UndoneOnce
<1> QED
  BY <1>3, <1>4

-----------------------------------------------------------------------------
(* What a step leaves alone.                                               *)

\* The call does not come nearer to writing the file.
CallKeeps(c, f) ==
    Works(c, f)' =>
        /\ Works(c, f) /\ call'[c].new[f] = call[c].new[f] /\ call'[c].snapshot[f] = call[c].snapshot[f]
        /\ call'[c].pc = call[c].pc \/ (call[c].pc \in Before /\ call'[c].pc = "abort")

\* The undo does not come nearer to restoring the file.
UndoKeeps(u, f) ==
    f \in undo'[u].todo =>
        /\ f \in undo[u].todo /\ undo'[u].expected[f] = undo[u].expected[f]
        /\ undo'[u].before[f] = undo[u].before[f]
        /\ undo'[u].pc \in {"rename", "mark"} /\ undo'[u].file = f
             => undo'[u].pc = undo[u].pc /\ undo[u].file = f

\* The fields of a row, a call and a request.
LEMMA RowFacts ==
    ASSUME Types, NEW f \in Files
    PROVE  /\ row[f] \in Records(Versions) /\ row[f].state \in {None, "planned", "applied", "undone"}
           /\ row[f].before \in Versions /\ row[f].after \in Versions /\ row[f].previous \in Versions
           /\ row[f].op \in Calls \cup {None} /\ disk[f] \in Versions /\ kept[f] \in Versions
<1>1. row[f] \in Records(Versions) /\ disk[f] \in Versions /\ kept[f] \in Versions
  BY DEF Types
<1> QED
  BY <1>1 DEF Records

LEMMA CallFacts ==
    ASSUME Types, NEW c \in Calls
    PROVE  /\ call[c] \in CallType /\ call[c].pc \in {"ready", "done", "plan"} \cup Busy \cup GoalBusy
           /\ call[c].todo \subseteq Files /\ call[c].file \in Files \cup {None}
           /\ call[c].snapshot \in [Files -> Versions] /\ call[c].new \in [Files -> Versions]
           /\ call[c].goal \in GoalVersions
<1>1. call[c] \in CallType
  BY DEF Types
<1> QED
  BY <1>1 DEF CallType

LEMMA RequestFacts ==
    ASSUME Types, NEW u \in Undos
    PROVE  /\ undo[u] \in UndoType /\ undo[u].pc \in {"idle", "files", "rename", "mark", "goal_look", "goal_restore"}
           /\ undo[u].todo \subseteq Files /\ undo[u].file \in Files \cup {None}
           /\ undo[u].expected \in [Files -> Versions] /\ undo[u].before \in [Files -> Versions]
           /\ undo[u].goal \in BOOLEAN /\ undo[u].seen \in Nat /\ undo[u].saw \in Records(GoalVersions)
<1>1. undo[u] \in UndoType
  BY DEF Types
<1> QED
  BY <1>1 DEF UndoType

\* A file the step is not about.
LEMMA FileFrame ==
    ASSUME NEW f \in Files, FileInv(f), f \in mixed => f \in mixed',
           disk'[f] = disk[f], row'[f] = row[f], kept'[f] = kept[f],
           \A c \in Calls : CallKeeps(c, f), \A u \in Undos : UndoKeeps(u, f)
    PROVE  FileInv(f)'
<1>1. RowOK(f)' /\ FileOK(f)'
  BY DEF FileInv, RowOK, FileOK, NoRow, IsOwn, Open
<1>2. ASSUME NEW c \in Calls PROVE CallFileOK(c, f)'
  <2>1. CallFileOK(c, f) /\ CallKeeps(c, f)
    BY DEF FileInv
  <2> SUFFICES ASSUME Works(c, f)' PROVE CallFileOK(c, f)'
    BY DEF CallFileOK
  <2>2. /\ Works(c, f) /\ call'[c].new[f] = call[c].new[f] /\ call'[c].snapshot[f] = call[c].snapshot[f]
        /\ call'[c].pc = call[c].pc \/ (call[c].pc \in Before /\ call'[c].pc = "abort")
    BY <2>1 DEF CallKeeps
  <2> QED
    BY <2>1, <2>2 DEF CallFileOK, Before
<1>3. ASSUME NEW u \in Undos PROVE UndoFileOK(u, f)'
  <2>1. UndoFileOK(u, f) /\ UndoKeeps(u, f)
    BY DEF FileInv
  <2>2. ASSUME NEW c \in Calls, Works(c, f)', call'[c].pc \in Before
        PROVE  Works(c, f) /\ call[c].pc \in Before
    BY <2>2 DEF CallKeeps, Before
  <2> QED
    BY <2>1, <2>2 DEF UndoFileOK, UndoKeeps
<1> QED
  BY <1>1, <1>2, <1>3 DEF FileInv

\* A call and a request that do not move.
LEMMA CallRests ==
    ASSUME NEW c, NEW f, call'[c] = call[c], row'[f] = row[f]
    PROVE  CallKeeps(c, f)
BY DEF CallKeeps, Works

LEMMA RequestRests ==
    ASSUME NEW u, NEW f, undo'[u] = undo[u]
    PROVE  UndoKeeps(u, f)
BY DEF UndoKeeps

\* A step that is not about the goal.
LEMMA GoalFrame ==
    ASSUME GoalOK, goal' = goal, checkpoint' = checkpoint, recorded' = recorded, turn' = turn,
           kept'[Goal] = kept[Goal], Goal \in mixed => Goal \in mixed',
           \A c \in Calls : call'[c].pc \in GoalBusy =>
               call'[c].pc = call[c].pc /\ call'[c].goal = call[c].goal,
           \A u \in Undos : undo'[u].pc \in {"goal_look", "goal_restore"} => undo'[u] = undo[u]
    PROVE  GoalOK'
BY DEF GoalOK, GoalBusy, GoalIsOwn, Open, NoRow

\* No undo is under way or done.
Quiet == (\A u \in Undos : undo[u].pc = "idle") /\ ~Marked

\* The first change of a file or of the goal is noticed.
LEMMA TardyFacts ==
    ASSUME MarkerOK, NEW x, Tardy(x)
    PROVE  late \subseteq late' /\ late' \subseteq late \cup {x} /\ (x \in late' \/ Quiet)
BY MarkedContains DEF Tardy, Quiet, MarkerOK

\* A step that opens no record but new ones, and does not move the undo on.
LEMMA SeesFrame ==
    ASSUME NEW u \in Undos, Sees(u), undo'[u].pc # "idle" => undo[u].pc # "idle" /\ undo'[u].seen = undo[u].seen,
           late \subseteq late', \A f \in Files : Open(row'[f]) => Open(row[f]) \/ f \in late' \/ Quiet,
           Open(checkpoint') => Open(checkpoint) \/ Goal \in late' \/ Quiet,
           undo'[u].pc # "idle" =>
             /\ \A f \in undo[u].todo : f \in undo'[u].todo \/ ~Open(row'[f])
             /\ undo[u].goal => undo'[u].goal \/ ~Open(checkpoint')
    PROVE  Sees(u)'
BY DEF Sees, Open, Quiet

LEMMA MarkerFrame ==
    ASSUME MarkerOK, messages' = messages, Marked => late \subseteq late',
           \A f \in Files : Open(row'[f]) => Open(row[f]) \/ f \in late' \/ Quiet,
           Open(checkpoint') => Open(checkpoint) \/ Goal \in late' \/ Quiet
    PROVE  MarkerOK'
BY DEF MarkerOK, UndoneOnce, Marked, Open, Quiet

-----------------------------------------------------------------------------
(* Steps that change one call, or one request, and nothing else.            *)

\* What the invariant is about, apart from the calls and the requests.
Rest == <<disk, row, goal, checkpoint, turn, recorded, messages, kept, mixed, late>>

\* One call moves.
LEMMA CallMoves ==
    ASSUME IInv, NEW c \in Calls, NEW r \in CallType, call' = [call EXCEPT ![c] = r],
           UNCHANGED <<Rest, undo>>,
           r.pc \in Busy => r.file \in Files /\ r.file \in r.todo, \A f \in r.todo : r.new[f] \in Contents,
           \A f \in Files : CallFileOK(c, f)',
           \A f \in Files : Works(c, f)' /\ r.pc \in Before => Works(c, f) /\ call[c].pc \in Before,
           r.pc \in GoalBusy => turn \in {"running", "ending"},
           Goal \notin mixed /\ checkpoint.state = None /\ r.pc = "goal_read" => r.goal = kept[Goal],
           Goal \notin mixed /\ r.pc = "goal_restore" => ~Open(checkpoint) \/ checkpoint.before = kept[Goal]
    PROVE  IInv'
<1>1. /\ call' \in [Calls -> CallType] /\ call'[c] = r
      /\ \A d \in Calls : d # c => call'[d] = call[d]
  BY DEF IInv, Types
<1>2. UNCHANGED <<disk, row, goal, checkpoint, turn, recorded, messages, kept, mixed, late, undo>>
  BY DEF Rest
<1>3. Types'
  BY <1>1, <1>2 DEF IInv, Types
<1>4. ASSUME NEW f \in Files PROVE FileInv(f)'
  <2>1. FileInv(f)
    BY DEF IInv
  <2>2. RowOK(f)' /\ FileOK(f)'
    BY <1>2, <2>1 DEF FileInv, RowOK, FileOK, NoRow, IsOwn, Open
  <2>3. ASSUME NEW d \in Calls PROVE CallFileOK(d, f)'
    BY <1>1, <1>2, <2>1 DEF FileInv, CallFileOK, Works
  <2>4. ASSUME NEW u \in Undos PROVE UndoFileOK(u, f)'
    <3>1. ASSUME NEW d \in Calls, Works(d, f)', call'[d].pc \in Before
          PROVE  Works(d, f) /\ call[d].pc \in Before
      BY <1>1, <1>2, <3>1 DEF Works
    <3> QED
      BY <1>2, <2>1, <3>1 DEF FileInv, UndoFileOK
  <2> QED
    BY <2>2, <2>3, <2>4 DEF FileInv
<1>5. GoalOK'
  <2>1. ASSUME NEW d \in Calls
        PROVE  /\ call'[d].pc \in GoalBusy => turn' \in {"running", "ending"}
               /\ Goal \notin mixed /\ checkpoint.state = None /\ call'[d].pc = "goal_read"
                    => call'[d].goal = kept[Goal]
               /\ Goal \notin mixed /\ call'[d].pc = "goal_restore"
                    => ~Open(checkpoint) \/ checkpoint.before = kept[Goal]
    BY <1>1, <1>2 DEF IInv, GoalOK
  <2> QED
    BY <1>2, <2>1 DEF IInv, GoalOK, GoalIsOwn, Open, NoRow
<1>6. MarkerOK' /\ \A d \in Calls : CallOK(d)'
  BY <1>1, <1>2 DEF IInv, MarkerOK, UndoneOnce, Marked, Open, CallOK
<1>7. \A u \in Undos : UndoOK(u)' /\ Sees(u)'
  BY <1>2 DEF IInv, UndoOK, Sees, Open
<1> QED
  BY <1>3, <1>4, <1>5, <1>6, <1>7 DEF IInv

\* A call that has ended, and one that was never begun.
LEMMA Ended ==
    /\ Done \in CallType /\ Done.pc = "done" /\ Done.todo = {}
    /\ NoCall \in CallType /\ NoCall.pc = "ready" /\ NoCall.todo = {}
<1>1. NoFiles \in [Files -> Versions] /\ Absent \in GoalVersions
  BY DEF NoFiles, Versions, GoalVersions
<1> QED
  BY <1>1 DEF Done, NoCall, CallType

\* A call stops, wherever it is.
LEMMA CallEnds ==
    ASSUME IInv, NEW c \in Calls, Ends(c), UNCHANGED <<Rest, undo>>
    PROVE  IInv'
<1>1. call' = [call EXCEPT ![c] = Done] /\ call'[c] = Done
  BY DEF Ends, IInv, Types
<1>2. ASSUME NEW f \in Files PROVE ~Works(c, f)'
  BY <1>1, Ended DEF Works, Busy, Before
<1>3. \A f \in Files : CallFileOK(c, f)'
  BY <1>2 DEF CallFileOK
<1> QED
  BY <1>1, <1>2, <1>3, Ended, CallMoves DEF Busy, Before, GoalBusy

\* A call goes on to another step, not to that of a write.
LEMMA CallGoesOn ==
    ASSUME IInv, NEW c \in Calls, NEW pc \in {"abort"} \cup (GoalBusy \ {"goal_read"}), To(c, pc),
           UNCHANGED <<Rest, undo>>,
           pc = "abort" => call[c].pc \in Before,
           pc \in GoalBusy => call[c].pc \in GoalBusy,
           Goal \notin mixed /\ pc = "goal_restore" => ~Open(checkpoint) \/ checkpoint.before = kept[Goal]
    PROVE  IInv'
<1> DEFINE r == [call[c] EXCEPT !.pc = pc]
<1>1. call' = [call EXCEPT ![c] = r]
  BY DEF To
<1>2. pc \in {"ready", "done", "plan"} \cup Busy \cup GoalBusy
  BY DEF Busy, Before
<1>3. /\ r \in CallType /\ r.pc = pc /\ r.todo = call[c].todo /\ r.file = call[c].file
      /\ r.new = call[c].new /\ r.snapshot = call[c].snapshot /\ r.goal = call[c].goal
  BY <1>2, CallFacts DEF CallType, IInv
<1> HIDE DEF r
<1>4. call'[c] = r
  BY <1>1 DEF IInv, Types
<1>5. CallOK(c) /\ (pc \in Busy => pc = "abort" /\ call[c].pc \in Busy)
  BY DEF IInv, Busy, Before, GoalBusy
<1>6. ASSUME NEW f \in Files
      PROVE  /\ Works(c, f)' => Works(c, f) /\ pc = "abort" /\ call[c].pc \in Before
             /\ CallFileOK(c, f)'
  <2>1. Works(c, f)' => Works(c, f) /\ pc = "abort" /\ call[c].pc \in Before
    BY <1>3, <1>4, <1>5 DEF Works, Rest
  <2>2. CallFileOK(c, f)
    BY DEF IInv, FileInv
  <2>3. CASE Works(c, f)'
    <3>1. /\ Works(c, f) /\ call'[c].pc = "abort" /\ call[c].pc \in Before /\ "abort" \in Before
          /\ call'[c].new = call[c].new /\ call'[c].snapshot = call[c].snapshot
      BY <1>3, <1>4, <2>1, <2>3 DEF Before
    <3>2. disk' = disk /\ row' = row /\ kept' = kept /\ mixed' = mixed
      BY DEF Rest
    <3> QED
      BY <2>1, <2>2, <3>1, <3>2 DEF CallFileOK
  <2>4. CASE ~Works(c, f)'
    BY <2>4 DEF CallFileOK
  <2> QED
    BY <2>1, <2>3, <2>4
<1>7. call[c].pc \in GoalBusy => turn \in {"running", "ending"}
  BY DEF IInv, GoalOK
<1> QED
  BY <1>1, <1>3, <1>5, <1>6, <1>7, CallMoves DEF CallOK, GoalBusy

-----------------------------------------------------------------------------
(* The edits of the turn.                                                  *)

\* The start.
LEMMA InitIInv == Init => IInv
<1> SUFFICES ASSUME Init PROVE IInv
  OBVIOUS
<1>1. NoRow \in Records(Versions) /\ NoRow \in Records(GoalVersions) /\ NoUndo \in UndoType
  BY DEF NoRow, Records, NoUndo, UndoType, NoFiles, Versions, GoalVersions
<1>2. Goal \notin Files
  BY UndoAssumption DEF Goal
<1>3. \A f \in Files : kept[f] = disk[f] /\ disk[f] \in Versions
  BY <1>2 DEF Init
<1>4. kept[Goal] = Absent /\ goal = Absent
  BY DEF Init
<1>5. kept \in [Files \cup {Goal} -> Versions \cup Goals]
  BY DEF Init, Versions
<1>6. Types
  BY <1>1, <1>3, <1>5, Ended DEF Init, Types, GoalVersions, Turns
<1>7. /\ \A c \in Calls : call[c].pc = "ready" /\ call[c].todo = {}
      /\ \A u \in Undos : undo[u].pc = "idle" /\ undo[u].todo = {}
  BY Ended DEF Init, NoUndo
<1>8. ASSUME NEW f \in Files PROVE FileInv(f)
  <2>1. row[f] = NoRow /\ RowOK(f) /\ FileOK(f)
    BY <1>3 DEF Init, RowOK, FileOK, NoRow
  <2>2. \A c \in Calls : CallFileOK(c, f)
    BY <1>7 DEF CallFileOK, Works, Busy, Before
  <2>3. \A u \in Undos : UndoFileOK(u, f)
    BY <1>7 DEF UndoFileOK
  <2> QED
    BY <2>1, <2>2, <2>3 DEF FileInv
<1>9. GoalOK
  BY <1>4, <1>7 DEF Init, GoalOK, GoalBusy, NoRow, Open, None
<1>10. MarkerOK
  BY DEF Init, MarkerOK, UndoneOnce, Marked, NoRow, Open, None
<1>11. /\ \A c \in Calls : CallOK(c)
       /\ \A u \in Undos : UndoOK(u) /\ Sees(u)
  BY <1>7 DEF CallOK, UndoOK, Sees, Busy, Before
<1> QED
  BY <1>6, <1>8, <1>9, <1>10, <1>11 DEF IInv

\* apply_edits reads its files.
LEMMA PrepareIInv ==
    ASSUME IInv, NEW c \in Calls, Prepare(c)
    PROVE  IInv'
<1>1. At(c, "ready") /\ UNCHANGED <<Rest, undo>>
  BY DEF Prepare, session, Rest
<1>2. PICK todo \in SUBSET Files \ {{}} : \E n \in [todo -> Contents] :
        call' = [call EXCEPT ![c].pc = "plan", ![c].todo = todo,
                             ![c].snapshot = [f \in Files |-> IF f \in todo THEN disk[f] ELSE Absent],
                             ![c].new = [f \in Files |-> IF f \in todo THEN n[f] ELSE Absent]]
  BY Zenon DEF Prepare
<1>3. PICK n \in [todo -> Contents] :
        call' = [call EXCEPT ![c].pc = "plan", ![c].todo = todo,
                             ![c].snapshot = [f \in Files |-> IF f \in todo THEN disk[f] ELSE Absent],
                             ![c].new = [f \in Files |-> IF f \in todo THEN n[f] ELSE Absent]]
  BY <1>2, Zenon
<1> DEFINE snapshot == [f \in Files |-> IF f \in todo THEN disk[f] ELSE Absent]
           new == [f \in Files |-> IF f \in todo THEN n[f] ELSE Absent]
           r == [call[c] EXCEPT !.pc = "plan", !.todo = todo, !.snapshot = snapshot, !.new = new]
<1>4. snapshot \in [Files -> Versions] /\ new \in [Files -> Versions] /\ \A f \in todo : new[f] \in Contents
  BY RowFacts DEF Versions, IInv
<1>5. call' = [call EXCEPT ![c] = r]
  BY <1>3
<1> HIDE DEF snapshot, new
<1>6. r \in CallType /\ r.pc = "plan" /\ r.todo = todo /\ r.new = new
  BY <1>4, CallFacts DEF CallType, IInv
<1> HIDE DEF r
<1>7. ASSUME NEW f \in Files PROVE ~Works(c, f)' /\ CallFileOK(c, f)'
  BY <1>5, <1>6 DEF Works, Busy, Before, CallFileOK, IInv, Types
<1> QED
  BY <1>1, <1>4, <1>5, <1>6, <1>7, CallMoves DEF Busy, Before, GoalBusy

\* The comparison before the write.
LEMMA CheckFileIInv ==
    ASSUME IInv, NEW c \in Calls, CheckFile(c)
    PROVE  IInv'
<1> DEFINE f == call[c].file
<1>1. At(c, "check") /\ UNCHANGED <<Rest, undo>>
  BY DEF CheckFile, session, Rest
<1>2. CASE disk[f] # call[c].snapshot[f]
  <2>1. To(c, "abort")
    BY <1>2 DEF CheckFile
  <2> QED
    BY <1>1, <2>1, CallGoesOn DEF At, Before, GoalBusy
<1>3. CASE disk[f] = call[c].snapshot[f]
  <2> DEFINE r == [call[c] EXCEPT !.pc = "rename"]
  <2>1. call' = [call EXCEPT ![c] = r]
    BY <1>3 DEF CheckFile, To
  <2>2. /\ r \in CallType /\ r.pc = "rename" /\ r.todo = call[c].todo /\ r.file = f
        /\ r.new = call[c].new /\ r.snapshot = call[c].snapshot
    BY CallFacts DEF CallType, IInv, Busy, Before
  <2> HIDE DEF r
  <2>3. call'[c] = r /\ call[c].pc = "check"
    BY <1>1, <2>1 DEF IInv, Types, At
  <2>4. f \in Files /\ f \in call[c].todo /\ CallOK(c)
    BY <2>3 DEF IInv, CallOK, Busy, Before
  <2>5. disk' = disk /\ row' = row /\ kept' = kept /\ mixed' = mixed
    BY <1>1 DEF Rest
  <2>6. ASSUME NEW g \in Files
        PROVE  /\ Works(c, g)' => Works(c, g) /\ g = f
               /\ CallFileOK(c, g)'
    <3>1. Works(c, g)' => Works(c, g) /\ g = f
      BY <2>2, <2>3, <2>5 DEF Works, Busy, Before
    <3>2. ASSUME Works(c, g), g = f PROVE CallFileOK(c, g)'
      <4>1. CallFileOK(c, g) /\ FileOK(g) /\ Works(c, g)
        BY <3>2 DEF IInv, FileInv
      <4>2. row[g].before = call[c].snapshot[g] \/ row[g].previous # Absent
        BY <4>1 DEF CallFileOK
      <4>3. g \notin mixed => kept[g] = row[g].before \/ (row[g].previous # Absent /\ kept[g] = call[c].snapshot[g])
        <5>1. g \notin mixed /\ disk[g] # kept[g] => kept[g] = row[g].before
          BY <4>1 DEF FileOK
        <5>2. g \notin mixed /\ disk[g] = kept[g] => kept[g] = call[c].snapshot[g]
          BY <1>3, <3>2
        <5> QED
          BY <4>2, <5>1, <5>2
      <4>4. g \notin mixed /\ disk[g] # kept[g] => row[g].previous # Absent /\ disk[g] = row[g].previous
        BY <2>3, <4>1 DEF CallFileOK, Before
      <4> QED
        BY <2>2, <2>3, <2>5, <4>1, <4>3, <4>4 DEF CallFileOK
    <3> QED
      BY <3>1, <3>2 DEF CallFileOK
  <2> QED
    BY <1>1, <2>1, <2>2, <2>3, <2>4, <2>6, CallMoves DEF CallOK, Before, GoalBusy
<1> QED
  BY <1>2, <1>3

\* The write fails before the rename.
LEMMA WriteFailsIInv ==
    ASSUME IInv, NEW c \in Calls, WriteFails(c)
    PROVE  IInv'
<1>1. At(c, "rename") /\ To(c, "abort") /\ UNCHANGED <<Rest, undo>>
  BY DEF WriteFails, session, Rest
<1> QED
  BY <1>1, CallGoesOn DEF At, Before, GoalBusy

LEMMA CallDroppedIInv ==
    ASSUME IInv, NEW c \in Calls, CallDropped(c)
    PROVE  IInv'
<1>1. Ends(c) /\ UNCHANGED <<Rest, undo>>
  BY DEF CallDropped, session, Rest
<1> QED
  BY <1>1, CallEnds

\* A step of one call that writes one file or its record.
LEMMA WriterMoves ==
    ASSUME IInv, NEW c \in Calls, NEW r \in CallType, NEW f \in Files, call' = [call EXCEPT ![c] = r],
           UNCHANGED <<session, undo, kept>>,
           disk' \in [Files -> Versions], row' \in [Files -> Records(Versions)],
           \A g \in Files : g # f => disk'[g] = disk[g] /\ row'[g] = row[g],
           mixed \subseteq mixed', mixed' \subseteq mixed \cup {f},
           late \subseteq late', late' \subseteq late \cup {f},
           r.pc \notin GoalBusy, r.pc \in Busy => r.file = f /\ f \in r.todo, \A g \in r.todo : r.new[g] \in Contents,
           Open(row'[f]) => Open(row[f]) \/ f \in late' \/ Quiet,
           FileInv(f)'
    PROVE  IInv'
<1>1. /\ call' \in [Calls -> CallType] /\ call'[c] = r
      /\ \A d \in Calls : d # c => call'[d] = call[d]
  BY DEF IInv, Types
<1>2. UNCHANGED <<goal, checkpoint, turn, recorded, messages, undo, kept>>
  BY DEF session
<1>3. Goal # f
  BY UndoAssumption DEF Goal
<1>4. Types'
  BY <1>1, <1>2 DEF IInv, Types
<1>5. ASSUME NEW g \in Files, g # f PROVE FileInv(g)'
  <2>1. ASSUME NEW d \in Calls PROVE CallKeeps(d, g)
    <3>1. CASE d = c
      BY <1>1, <1>5, <3>1 DEF CallKeeps, Works
    <3>2. CASE d # c
      BY <1>1, <1>5, <3>2, CallRests
    <3> QED
      BY <3>1, <3>2
  <2>2. \A u \in Undos : UndoKeeps(u, g)
    BY <1>2, RequestRests
  <2> QED
    BY <1>2, <1>5, <2>1, <2>2, FileFrame DEF IInv
<1>6. GoalOK'
  <2>1. \A d \in Calls : call'[d].pc \in GoalBusy => call'[d].pc = call[d].pc /\ call'[d].goal = call[d].goal
    BY <1>1
  <2> QED
    BY <1>2, <1>3, <2>1, GoalFrame DEF IInv
<1>7. \A g \in Files : Open(row'[g]) => Open(row[g]) \/ g \in late' \/ Quiet
  BY DEF Open
<1>8. MarkerOK'
  BY <1>2, <1>7, MarkerFrame DEF IInv
<1>9. \A d \in Calls : CallOK(d)'
  BY <1>1 DEF IInv, CallOK
<1>10. ASSUME NEW u \in Undos PROVE UndoOK(u)' /\ Sees(u)'
  <2>1. UndoOK(u)'
    BY <1>2 DEF IInv, UndoOK
  <2> QED
    BY <1>2, <1>7, <2>1, SeesFrame DEF IInv
<1> QED
  BY <1>4, <1>5, <1>6, <1>8, <1>9, <1>10 DEF IInv

\* Nobody else works by the record of a call.
LEMMA OneWorks ==
    ASSUME NEW c, NEW d, NEW f, Works(c, f), Works(d, f)
    PROVE  c = d
BY DEF Works

\* plan_turn_file_change: a first edit of the file, or a further one.
LEMMA PlanIInv ==
    ASSUME IInv, NEW c \in Calls, NEW f \in Files, Plan(c, f)
    PROVE  IInv'
<1>1. At(c, "plan") /\ f \in call[c].todo /\ UNCHANGED <<session, disk, undo, kept, mixed>>
  BY DEF Plan
<1>2. CASE row[f].state \notin {None, "applied"}
  <2>1. Ends(c) /\ UNCHANGED <<Rest, undo>>
    BY <1>1, <1>2 DEF Plan, Rest, session
  <2> QED
    BY <2>1, CallEnds
<1>3. CASE row[f].state \in {None, "applied"}
  <2> DEFINE r == [call[c] EXCEPT !.pc = "check", !.file = f]
  <2>1. /\ row' = [row EXCEPT ![f] = Planned(c, f)]
        /\ call' = [call EXCEPT ![c] = r]
        /\ (row[f] = NoRow /\ Tardy(f)) \/ (row[f] # NoRow /\ late' = late)
    BY <1>3 DEF Plan
  <2>2. /\ r \in CallType /\ r.pc = "check" /\ r.file = f /\ r.todo = call[c].todo
        /\ r.new = call[c].new /\ r.snapshot = call[c].snapshot
    BY CallFacts DEF CallType, IInv, Busy, Before
  <2> HIDE DEF r
  <2>3. call'[c] = r /\ CallOK(c) /\ FileInv(f) /\ RowOK(f) /\ FileOK(f)
    BY <2>1 DEF IInv, Types, FileInv
  <2>4. call[c].new[f] \in Contents /\ call[c].snapshot[f] \in Versions
    BY <1>1, <2>3, CallFacts DEF CallOK, IInv
  <2>5. /\ Planned(c, f) \in Records(Versions)
        /\ Planned(c, f).state = "planned" /\ Planned(c, f).after = call[c].new[f] /\ Planned(c, f).op = c
        /\ row[f].state = None => /\ Planned(c, f).before = call[c].snapshot[f]
                                  /\ Planned(c, f).previous = Absent
        /\ row[f].state = "applied" => /\ Planned(c, f).before = row[f].before
                                       /\ Planned(c, f).previous = row[f].after
    <3>1. CASE row[f].state = None
      <4>1. row[f] = NoRow
        BY <2>3, <3>1 DEF RowOK
      <4> QED
        BY <2>4, <3>1, <4>1 DEF Planned, Records, None, Versions
    <3>2. CASE row[f].state = "applied"
      <4>1. row[f] # NoRow
        BY <3>2 DEF NoRow, None
      <4> QED
        BY <2>4, <3>2, <4>1, RowFacts DEF Planned, Records, None, Versions, IInv
    <3> QED
      BY <1>3, <3>1, <3>2
  <2>6. /\ row'[f] = Planned(c, f) /\ row' \in [Files -> Records(Versions)]
        /\ \A g \in Files : g # f => row'[g] = row[g]
    BY <2>1, <2>5 DEF IInv, Types
  <2>7. row[f].state = "applied" => row[f].after # Absent /\ row[f].previous = Absent
    BY <2>3, UndoAssumption DEF RowOK, None
  <2>8. RowOK(f)'
    BY <2>4, <2>5, <2>6 DEF RowOK, None
  <2>9. f \notin mixed /\ disk[f] # kept[f] =>
          /\ row[f].state = "applied" /\ row[f].before = kept[f] /\ disk[f] = row[f].after
    BY <1>3, <2>3, <2>7 DEF FileOK, Open, IsOwn, None
  <2>10. FileOK(f)'
    BY <1>1, <2>5, <2>6, <2>7, <2>9 DEF FileOK, Open, IsOwn
  <2>11. CallFileOK(c, f)'
    <3>1. row'[f].after = call'[c].new[f] /\ (row'[f].previous = Absent => row'[f].before = call'[c].snapshot[f])
      BY <1>3, <2>2, <2>3, <2>5, <2>6, <2>7
    <3>2. f \notin mixed' /\ disk'[f] # kept'[f] => row'[f].previous # Absent /\ disk'[f] = row'[f].previous
      BY <1>1, <2>5, <2>6, <2>7, <2>9
    <3> QED
      BY <2>2, <2>3, <3>1, <3>2 DEF CallFileOK
  <2>12. ASSUME NEW d \in Calls, d # c PROVE ~Works(d, f)' /\ CallFileOK(d, f)'
    BY <2>5, <2>6, <2>12 DEF Works, CallFileOK
  <2>13. ASSUME NEW u \in Undos PROVE UndoFileOK(u, f)'
    <3>1. UndoFileOK(u, f) /\ undo' = undo /\ disk' = disk /\ kept' = kept /\ mixed' = mixed
      BY <1>1, <2>3 DEF FileInv
    <3>2. row[f].state # None => /\ row'[f].before = row[f].before /\ row'[f].state # None
                                 /\ row'[f].previous # Absent
      BY <1>3, <2>5, <2>6, <2>7 DEF None
    <3> QED
      BY <3>1, <3>2 DEF UndoFileOK
  <2>14. FileInv(f)'
    BY <2>8, <2>10, <2>11, <2>12, <2>13 DEF FileInv
  <2>15. /\ late \subseteq late' /\ late' \subseteq late \cup {f}
         /\ row[f] = NoRow => f \in late' \/ Quiet
    BY <2>1, TardyFacts DEF IInv
  <2>16. Open(row'[f]) => Open(row[f]) \/ f \in late' \/ Quiet
    BY <1>3, <2>3, <2>15 DEF RowOK, Open
  <2>17. /\ UNCHANGED <<session, undo, kept>> /\ disk' \in [Files -> Versions]
         /\ \A g \in Files : g # f => disk'[g] = disk[g] /\ row'[g] = row[g]
         /\ mixed \subseteq mixed' /\ mixed' \subseteq mixed \cup {f}
    BY <1>1, <2>6 DEF IInv, Types
  <2>18. /\ r.pc \notin GoalBusy /\ (r.pc \in Busy => r.file = f /\ f \in r.todo)
         /\ \A g \in r.todo : r.new[g] \in Contents
    BY <1>1, <2>2, <2>3 DEF CallOK, GoalBusy
  <2> QED
    BY <2>1, <2>2, <2>6, <2>14, <2>15, <2>16, <2>17, <2>18, WriterMoves
<1> QED
  BY <1>2, <1>3

\* The rename puts a content of the turn in the place of the user's, or of an earlier one
\* of the turn.
LEMMA RenameIInv ==
    ASSUME IInv, NEW c \in Calls, Rename(c)
    PROVE  IInv'
<1>1. /\ At(c, "rename") /\ call[c].pc = "rename" /\ UNCHANGED <<session, row, undo, user, kept, late>>
  BY DEF Rename, At
<1>2. PICK f \in Files : f = call[c].file
  BY <1>1 DEF IInv, CallOK, Busy, Before
<1>3. CASE ~CanRename(c, f)
  <2>1. To(c, "abort") /\ UNCHANGED <<Rest, undo>>
    BY <1>1, <1>2, <1>3 DEF Rename, Rest, session
  <2> QED
    BY <1>1, <2>1, CallGoesOn DEF Before, GoalBusy
<1>4. CASE CanRename(c, f)
  <2>1. /\ disk' = [disk EXCEPT ![f] = call[c].new[f]]
        /\ mixed' = IF TakesOver(c, f) \/ UndoIsPast(c, f) THEN mixed \cup {f} ELSE mixed
        /\ \/ To(c, "complete")
           \/ call' = [call EXCEPT ![c].pc = "complete", ![c].todo = {f}]
    BY <1>2, <1>4 DEF Rename
  <2>2. CallOK(c) /\ FileInv(f) /\ RowOK(f) /\ FileOK(f) /\ CallFileOK(c, f)
    BY DEF IInv, FileInv
  <2>3. PICK r \in CallType :
          /\ call' = [call EXCEPT ![c] = r] /\ r.pc = "complete" /\ r.file = f
          /\ r.new = call[c].new /\ r.snapshot = call[c].snapshot
          /\ r.todo = call[c].todo \/ r.todo = {f}
    <3>1. CASE To(c, "complete")
      <4> DEFINE r == [call[c] EXCEPT !.pc = "complete"]
      <4>1. call' = [call EXCEPT ![c] = r]
        BY <3>1 DEF To
      <4>2. /\ r \in CallType /\ r.pc = "complete" /\ r.file = f
            /\ r.new = call[c].new /\ r.snapshot = call[c].snapshot /\ r.todo = call[c].todo
        BY <1>2, CallFacts DEF CallType, IInv, Busy, Before
      <4> QED
        BY <4>1, <4>2
    <3>2. CASE call' = [call EXCEPT ![c].pc = "complete", ![c].todo = {f}]
      <4> DEFINE r == [call[c] EXCEPT !.pc = "complete", !.todo = {f}]
      <4>1. call' = [call EXCEPT ![c] = r]
        BY <3>2
      <4>2. /\ r \in CallType /\ r.pc = "complete" /\ r.file = f
            /\ r.new = call[c].new /\ r.snapshot = call[c].snapshot /\ r.todo = {f}
        BY <1>2, CallFacts DEF CallType, IInv, Busy, Before
      <4> QED
        BY <4>1, <4>2
    <3> QED
      BY <2>1, <3>1, <3>2
  <2>4. /\ call'[c] = r /\ call[c].new[f] \in Contents /\ f \in call[c].todo
        /\ \A d \in Calls : d # c => call'[d] = call[d]
    BY <1>1, <1>2, <2>2, <2>3 DEF IInv, Types, CallOK, Busy, Before
  <2>5. /\ row' = row /\ kept' = kept /\ undo' = undo /\ late' = late /\ disk'[f] = call[c].new[f]
        /\ disk' \in [Files -> Versions] /\ \A g \in Files : g # f => disk'[g] = disk[g]
    BY <1>1, <2>1, <2>4 DEF IInv, Types, Versions
  <2>6. ASSUME NEW d \in Calls, Works(d, f)'
        PROVE  /\ Works(d, f) /\ call'[d].new = call[d].new /\ call'[d].snapshot = call[d].snapshot
               /\ d = c \/ call'[d] = call[d]
    BY <1>1, <1>2, <2>3, <2>4, <2>5, <2>6 DEF Works, Busy, Before
  <2>7. ASSUME f \in mixed' PROVE FileInv(f)'
    <3>1. RowOK(f)' /\ FileOK(f)' /\ \A u \in Undos : UndoFileOK(u, f)'
      BY <2>2, <2>5, <2>7 DEF RowOK, NoRow, FileOK, UndoFileOK
    <3>2. ASSUME NEW d \in Calls PROVE CallFileOK(d, f)'
      <4>1. CallFileOK(d, f)
        BY <2>2 DEF FileInv
      <4> QED
        BY <2>5, <2>6, <2>7, <4>1 DEF CallFileOK
    <3> QED
      BY <3>1, <3>2 DEF FileInv
  <2>8. ASSUME f \notin mixed' PROVE FileInv(f)'
    <3>1. f \notin mixed /\ ~TakesOver(c, f) /\ ~UndoIsPast(c, f)
      BY <2>1, <2>8
    <3>2. Works(c, f) /\ f \notin mixed
      BY <1>1, <1>2, <3>1 DEF UndoIsPast, Current, Works, Busy, Before
    <3>3. row[f].after = call[c].new[f] /\ row[f].state = "planned"
      BY <2>2, <3>2 DEF CallFileOK, Works
    <3>4. kept[f] = row[f].before
      <4>1. CASE call[c].snapshot[f] # Absent
        BY <1>1, <2>2, <3>1, <3>2, <4>1 DEF CallFileOK, TakesOver
      <4>2. CASE call[c].snapshot[f] = Absent
        <5>1. disk[f] = Absent
          BY <1>4, <4>2 DEF CanRename
        <5>2. CASE disk[f] # kept[f]
          BY <2>2, <3>2, <5>2 DEF FileOK
        <5>3. CASE disk[f] = kept[f]
          BY <2>2, <3>1, <3>2, <4>2, <5>1, <5>3 DEF CallFileOK, TakesOver
        <5> QED
          BY <5>2, <5>3
      <4> QED
        BY <4>1, <4>2
    <3>5. RowOK(f)' /\ FileOK(f)'
      BY <2>2, <2>5, <3>3, <3>4 DEF RowOK, NoRow, FileOK, Open, IsOwn
    <3>6. ASSUME NEW d \in Calls PROVE (Works(d, f)' => d = c) /\ CallFileOK(d, f)'
      <4>1. Works(d, f)' => d = c
        BY <2>6, <3>2, OneWorks
      <4>2. CallFileOK(c, f)'
        BY <2>2, <2>3, <2>4, <2>5, <3>2, <3>3 DEF CallFileOK, Before
      <4> QED
        BY <4>1, <4>2 DEF CallFileOK
    <3>7. ASSUME NEW u \in Undos PROVE UndoFileOK(u, f)'
      <4>1. UndoFileOK(u, f)
        BY <2>2 DEF FileInv
      <4>2. f \in undo[u].todo => /\ undo[u].expected[f] # undo[u].before[f]
                                  /\ ~(undo[u].pc = "mark" /\ undo[u].file = f)
        BY <3>1 DEF UndoIsPast
      <4>3. ASSUME NEW d \in Calls PROVE ~(Works(d, f)' /\ call'[d].pc \in Before)
        BY <2>3, <2>4, <3>6 DEF Before
      <4> QED
        BY <2>5, <3>2, <3>4, <4>1, <4>2, <4>3 DEF UndoFileOK
    <3> QED
      BY <3>5, <3>6, <3>7 DEF FileInv
  <2>9. /\ mixed \subseteq mixed' /\ mixed' \subseteq mixed \cup {f} /\ row' \in [Files -> Records(Versions)]
        /\ UNCHANGED <<session, undo, kept>> /\ (Open(row'[f]) => Open(row[f]))
    BY <1>1, <2>1 DEF IInv, Types
  <2>10. /\ r.pc \notin GoalBusy /\ (r.pc \in Busy => r.file = f /\ f \in r.todo)
         /\ \A g \in r.todo : r.new[g] \in Contents
    BY <2>2, <2>3, <2>4 DEF CallOK, GoalBusy
  <2>11. FileInv(f)'
    BY <2>7, <2>8
  <2> QED
    BY <2>3, <2>5, <2>9, <2>10, <2>11, WriterMoves
<1> QED
  BY <1>3, <1>4

\* The record of a call that closes the plan of a file: applied, or none again.
LEMMA PlanCloses ==
    ASSUME IInv, NEW c \in Calls, NEW r \in CallType, NEW f \in Files, NEW new \in Records(Versions),
           call' = [call EXCEPT ![c] = r], row' = [row EXCEPT ![f] = new],
           UNCHANGED <<session, disk, undo, kept, mixed, late>>, Works(c, f),
           r.pc \in {"done", "plan"}, \A g \in r.todo : r.new[g] \in Contents,
           \/ new = NoRow /\ row[f].previous = Absent /\ call[c].pc \in Before
           \/ /\ new.state = "applied" /\ new.previous = Absent /\ new.before = row[f].before
              /\ new.after \in Contents
              /\ \/ call[c].pc = "complete" /\ new.after = row[f].after
                 \/ call[c].pc \in Before /\ new.after = row[f].previous
    PROVE  IInv'
<1>1. /\ row'[f] = new /\ row' \in [Files -> Records(Versions)]
      /\ \A g \in Files : g # f => disk'[g] = disk[g] /\ row'[g] = row[g]
      /\ disk' = disk /\ kept' = kept /\ mixed' = mixed /\ undo' = undo /\ late' = late
  BY DEF IInv, Types
<1>2. new.state \in {None, "applied"} /\ (new.state = None => new = NoRow) /\ new.previous = Absent
  BY DEF NoRow, None
<1>3. RowOK(f) /\ FileOK(f) /\ CallFileOK(c, f) /\ \A u \in Undos : UndoFileOK(u, f)
  BY DEF IInv, FileInv
<1>4. \A d \in Calls : ~Works(d, f)' /\ CallFileOK(d, f)'
  BY <1>1, <1>2 DEF Works, CallFileOK, None
<1>5. f \notin mixed /\ disk[f] # kept[f] =>
          /\ row[f].before = kept[f]
          /\ call[c].pc \in Before => row[f].previous # Absent /\ disk[f] = row[f].previous
          /\ call[c].pc = "complete" => disk[f] = row[f].after
  BY <1>3 DEF FileOK, CallFileOK
<1>6. f \notin mixed /\ disk[f] # kept[f] => new.state = "applied" /\ new.before = kept[f] /\ disk[f] = new.after
  BY <1>5 DEF Before
<1>7. RowOK(f)' /\ FileOK(f)'
  BY <1>1, <1>2, <1>6 DEF RowOK, FileOK, Open, IsOwn, NoRow, None
<1>8. ASSUME NEW u \in Undos PROVE UndoFileOK(u, f)'
  <2>1. UndoFileOK(u, f)
    BY <1>3
  <2>2. CASE new = NoRow /\ row[f].previous = Absent /\ call[c].pc \in Before
    BY <1>1, <2>1, <2>2 DEF UndoFileOK
  <2>3. CASE new.state = "applied" /\ new.before = row[f].before
    BY <1>1, <1>4, <2>1, <2>3 DEF UndoFileOK, None
  <2> QED
    BY <2>2, <2>3
<1>9. FileInv(f)'
  BY <1>4, <1>7, <1>8 DEF FileInv
<1>10. Open(row'[f]) => Open(row[f])
  BY DEF Works, Open
<1>11. disk' \in [Files -> Versions] /\ r.pc \notin GoalBusy /\ r.pc \notin Busy /\ UNCHANGED <<session, undo, kept>>
  BY <1>1 DEF IInv, Types, GoalBusy, Busy, Before
<1> QED
  BY <1>1, <1>9, <1>10, <1>11, WriterMoves

\* complete_turn_file_change.
LEMMA CompleteIInv ==
    ASSUME IInv, NEW c \in Calls, Complete(c)
    PROVE  IInv'
<1>1. call[c].pc = "complete" /\ UNCHANGED <<session, disk, undo, kept, mixed, late>>
  BY DEF Complete, At
<1>2. PICK f \in Files : f = call[c].file /\ f \in call[c].todo
  BY <1>1 DEF IInv, CallOK, Busy, Before
<1>3. CASE ~Current(c)
  <2>1. Ends(c) /\ UNCHANGED <<Rest, undo>>
    BY <1>1, <1>3 DEF Complete, Rest, session
  <2> QED
    BY <2>1, CallEnds
<1>4. CASE Current(c)
  <2>1. Works(c, f) /\ row[f] \in Records(Versions) /\ RowOK(f) /\ CallOK(c)
    BY <1>1, <1>2, <1>4, RowFacts DEF Current, Works, Busy, Before, IInv, FileInv
  <2> DEFINE new == [row[f] EXCEPT !.state = "applied", !.previous = Absent, !.op = None]
             next == [call[c] EXCEPT !.pc = "plan", !.file = None, !.todo = @ \ {f}]
  <2>2. /\ row' = [row EXCEPT ![f] = new]
        /\ call' = [call EXCEPT ![c] = Done] \/ call' = [call EXCEPT ![c] = next]
    BY <1>2, <1>4 DEF Complete, Ends
  <2>3. /\ new \in Records(Versions) /\ new.state = "applied" /\ new.previous = Absent
        /\ new.before = row[f].before /\ new.after = row[f].after /\ new.after \in Contents
    BY <2>1 DEF Records, Versions, RowOK, Works, None
  <2>4. /\ next \in CallType /\ next.pc = "plan" /\ next.todo = call[c].todo \ {f} /\ next.new = call[c].new
        /\ Done \in CallType /\ Done.pc = "done" /\ Done.todo = {}
    BY <2>1, CallFacts, Ended DEF CallType, IInv
  <2> HIDE DEF new, next
  <2>5. PICK r \in {Done, next} : call' = [call EXCEPT ![c] = r]
    BY <2>2
  <2>6. r \in CallType /\ r.pc \in {"done", "plan"} /\ \A g \in r.todo : r.new[g] \in Contents
    BY <2>1, <2>4, <2>5 DEF CallOK
  <2> QED
    BY <1>1, <2>1, <2>2, <2>3, <2>5, <2>6, PlanCloses
<1> QED
  BY <1>3, <1>4

\* abort_turn_file_change.
LEMMA AbortIInv ==
    ASSUME IInv, NEW c \in Calls, Abort(c)
    PROVE  IInv'
<1>1. call[c].pc = "abort" /\ Ends(c) /\ UNCHANGED <<session, disk, undo, kept, mixed, late>>
  BY DEF Abort, At
<1>2. PICK f \in Files : f = call[c].file
  BY <1>1 DEF IInv, CallOK, Busy, Before
<1>3. CASE ~Current(c)
  <2>1. UNCHANGED <<Rest, undo>>
    BY <1>1, <1>3 DEF Abort, Rest, session
  <2> QED
    BY <1>1, <2>1, CallEnds
<1>4. CASE Current(c)
  <2>1. Works(c, f) /\ row[f] \in Records(Versions) /\ row[f].previous \in Versions
    BY <1>1, <1>2, <1>4, RowFacts DEF Current, Works, Busy, Before, IInv
  <2> DEFINE back == [row[f] EXCEPT !.state = "applied", !.after = row[f].previous,
                                    !.previous = Absent, !.op = None]
             new == IF row[f].previous = Absent THEN NoRow ELSE back
  <2>2. row' = [row EXCEPT ![f] = new]
    BY <1>2, <1>4 DEF Abort
  <2>3. row[f].previous # Absent =>
          /\ back \in Records(Versions) /\ back.state = "applied" /\ back.previous = Absent
          /\ back.before = row[f].before /\ back.after = row[f].previous /\ back.after \in Contents
    BY <2>1 DEF Records, Versions
  <2>4. NoRow \in Records(Versions)
    BY DEF NoRow, Records, Versions
  <2> HIDE DEF back
  <2>5. /\ new \in Records(Versions)
        /\ \/ new = NoRow /\ row[f].previous = Absent
           \/ /\ new.state = "applied" /\ new.previous = Absent /\ new.before = row[f].before
              /\ new.after \in Contents /\ new.after = row[f].previous
    BY <2>3, <2>4
  <2> HIDE DEF new
  <2>6. /\ call' = [call EXCEPT ![c] = Done] /\ Done \in CallType /\ Done.pc \in {"done", "plan"}
        /\ \A g \in Done.todo : Done.new[g] \in Contents
    BY <1>1, Ended DEF Ends
  <2> QED
    BY <1>1, <2>1, <2>2, <2>5, <2>6, PlanCloses DEF Before
<1> QED
  BY <1>3, <1>4

-----------------------------------------------------------------------------
(* The goal, and the steps that write no file.                              *)

\* A step that writes no file and takes no request nearer to one.
LEMMA NoFileMoves ==
    ASSUME IInv, disk' = disk, row' = row, goal' \in GoalVersions, recorded' \in GoalVersions,
           checkpoint' \in Records(GoalVersions), turn' \in Turns,
           kept' \in [Files \cup {Goal} -> Versions \cup Goals], \A f \in Files : kept'[f] = kept[f],
           mixed \subseteq mixed', mixed' \subseteq mixed \cup {Goal},
           late \subseteq late', late' \subseteq late \cup {Goal},
           call' \in [Calls -> CallType], undo' \in [Undos -> UndoType],
           \A c \in Calls : CallOK(c)' /\ \A f \in Files : CallKeeps(c, f),
           \A u \in Undos :
             /\ UndoOK(u)' /\ \A f \in Files : UndoKeeps(u, f)
             /\ undo'[u].pc # "idle" =>
                  /\ undo[u].pc # "idle" /\ undo'[u].seen = undo[u].seen /\ undo'[u].todo = undo[u].todo
                  /\ undo[u].goal => undo'[u].goal \/ ~Open(checkpoint'),
           Open(checkpoint') => Open(checkpoint) \/ Goal \in late' \/ Quiet,
           messages' = messages \/ MarkerOK', GoalOK'
    PROVE  IInv'
<1>1. Types'
  BY DEF IInv, Types
<1>2. ASSUME NEW f \in Files PROVE FileInv(f)'
  BY FileFrame DEF IInv
<1>3. ASSUME NEW u \in Undos PROVE UndoOK(u)' /\ Sees(u)'
  <2>1. Sees(u) /\ UndoOK(u)'
    BY DEF IInv
  <2>2. undo'[u].pc # "idle" =>
          /\ undo[u].pc # "idle" /\ undo'[u].seen = undo[u].seen /\ undo'[u].todo = undo[u].todo
          /\ undo[u].goal => undo'[u].goal \/ ~Open(checkpoint')
    OBVIOUS
  <2>3. \A f \in Files : Open(row'[f]) => Open(row[f]) \/ f \in late' \/ Quiet
    OBVIOUS
  <2>4. undo'[u].pc # "idle" => \A f \in undo[u].todo : f \in undo'[u].todo \/ ~Open(row'[f])
    BY <2>2
  <2>5. undo'[u].pc # "idle" => undo[u].pc # "idle" /\ undo'[u].seen = undo[u].seen
    BY <2>2
  <2>6. undo'[u].pc # "idle" => (undo[u].goal => undo'[u].goal \/ ~Open(checkpoint'))
    BY <2>2
  <2> QED
    BY <2>1, <2>3, <2>4, <2>5, <2>6, SeesFrame
<1>4. MarkerOK'
  <2>1. CASE messages' = messages
    BY <2>1, MarkerFrame DEF IInv
  <2> QED
    BY <2>1
<1> QED
  BY <1>1, <1>2, <1>3, <1>4 DEF IInv

\* A call changes the goal, or its record.
LEMMA GoalMoves ==
    ASSUME IInv, NEW c \in Calls, NEW r \in CallType, call' = [call EXCEPT ![c] = r],
           UNCHANGED <<disk, row, turn, recorded, undo, messages, kept>>,
           goal' \in GoalVersions, checkpoint' \in Records(GoalVersions), r.pc \notin Busy,
           mixed \subseteq mixed', mixed' \subseteq mixed \cup {Goal},
           late \subseteq late', late' \subseteq late \cup {Goal},
           r.todo = {} \/ (r.todo = call[c].todo /\ r.new = call[c].new),
           Open(checkpoint') => Open(checkpoint) \/ Goal \in late' \/ Quiet,
           call[c].pc \in GoalBusy, r.pc \notin {"goal_read", "goal_restore"},
           checkpoint'.state = None => checkpoint' = NoRow /\ Goal \in mixed',
           Goal \notin mixed' =>
             IF Open(checkpoint') THEN checkpoint'.before = kept[Goal] ELSE goal' = kept[Goal]
    PROVE  IInv'
<1>1. /\ call' \in [Calls -> CallType] /\ call'[c] = r /\ undo' \in [Undos -> UndoType]
      /\ \A d \in Calls : d # c => call'[d] = call[d]
  BY DEF IInv, Types
<1>2. \A d \in Calls : CallOK(d)'
  BY <1>1 DEF IInv, CallOK
<1>3. \A d \in Calls, f \in Files : CallKeeps(d, f)
  <2>1. \A f \in Files : CallKeeps(c, f)
    BY <1>1 DEF CallKeeps, Works
  <2>2. \A d \in Calls \ {c}, f \in Files : CallKeeps(d, f)
    BY <1>1, CallRests
  <2> QED
    BY <2>1, <2>2
<1>4. \A u \in Undos :
        /\ UndoOK(u)' /\ \A f \in Files : UndoKeeps(u, f)
        /\ undo'[u].pc # "idle" =>
             /\ undo[u].pc # "idle" /\ undo'[u].seen = undo[u].seen /\ undo'[u].todo = undo[u].todo
             /\ undo[u].goal => undo'[u].goal \/ ~Open(checkpoint')
  BY RequestRests DEF IInv, UndoOK
<1>5. turn \in {"running", "ending"} /\ \A d \in Calls : call'[d].pc \in GoalBusy => turn' \in {"running", "ending"}
  BY <1>1 DEF IInv, GoalOK
<1>6. GoalOK'
  BY <1>5 DEF GoalOK, Open
<1>7. /\ recorded' \in GoalVersions /\ turn' \in Turns /\ kept' \in [Files \cup {Goal} -> Versions \cup Goals]
      /\ \A f \in Files : kept'[f] = kept[f]
  BY DEF IInv, Types
<1> QED
  BY <1>1, <1>2, <1>3, <1>4, <1>6, <1>7, NoFileMoves

\* The fields of the record of the goal, and the goal it has while the turn runs.
LEMMA CheckpointFacts ==
    ASSUME IInv
    PROVE  /\ checkpoint.state \in {None, "planned", "applied", "undone"} /\ checkpoint \in Records(GoalVersions)
           /\ checkpoint.before \in GoalVersions /\ goal \in GoalVersions /\ Absent \in GoalVersions
           /\ Open(checkpoint) /\ turn \in {"running", "ending"} /\ Goal \notin mixed
                => checkpoint.before = kept[Goal]
           /\ ~Open(checkpoint) /\ Goal \notin mixed => goal = kept[Goal]
<1>1. checkpoint \in Records(GoalVersions) /\ goal \in GoalVersions /\ Absent \in GoalVersions
  BY DEF IInv, Types, GoalVersions
<1>2. Open(checkpoint) /\ turn \in {"running", "ending"} /\ Goal \notin mixed => checkpoint.before = kept[Goal]
  BY DEF IInv, GoalOK
<1>3. ~Open(checkpoint) /\ Goal \notin mixed => goal = kept[Goal]
  BY DEF IInv, GoalOK
<1> QED
  BY <1>1, <1>2, <1>3 DEF Records

\* The turn of a call that changes the goal.
LEMMA GoalTurn ==
    ASSUME IInv, NEW c \in Calls, call[c].pc \in GoalBusy
    PROVE  turn \in {"running", "ending"}
BY DEF IInv, GoalOK

\* create_goal and update_goal read the goal ...
LEMMA GoalReadsIInv ==
    ASSUME IInv, NEW c \in Calls, GoalReads(c)
    PROVE  IInv'
<1> DEFINE r == [call[c] EXCEPT !.pc = "goal_read", !.goal = goal]
<1>1. UNCHANGED <<Rest, undo>> /\ turn = "running" /\ call' = [call EXCEPT ![c] = r]
  BY DEF GoalReads, session, Rest
<1>2. r \in CallType /\ r.pc = "goal_read" /\ r.goal = goal /\ r.todo = call[c].todo /\ r.new = call[c].new
  BY CallFacts DEF CallType, IInv, GoalBusy, Types
<1> HIDE DEF r
<1>3. \A f \in Files : ~Works(c, f)' /\ CallFileOK(c, f)'
  BY <1>1, <1>2 DEF Works, Busy, Before, CallFileOK, IInv, Types
<1>4. checkpoint.state = None /\ Goal \notin mixed => goal = kept[Goal]
  BY CheckpointFacts DEF Open, None
<1>5. \A f \in r.todo : r.new[f] \in Contents
  BY <1>2 DEF IInv, CallOK
<1> QED
  BY <1>1, <1>2, <1>3, <1>4, <1>5, CallMoves DEF Busy, Before

\* ... and record it.
LEMMA GoalBeginsIInv ==
    ASSUME IInv, NEW c \in Calls, GoalBegins(c)
    PROVE  IInv'
<1> DEFINE r == [call[c] EXCEPT !.pc = "goal_begun"]
<1>1. call[c].pc = "goal_read" /\ call[c].pc \in GoalBusy
      /\ UNCHANGED <<disk, row, goal, turn, recorded, undo, messages, kept, mixed>>
  BY DEF GoalBegins, At, GoalBusy
<1>2. r \in CallType /\ r.pc = "goal_begun" /\ r.todo = call[c].todo /\ r.new = call[c].new
      /\ r.pc \notin Busy /\ r.pc \notin {"goal_read", "goal_restore"} /\ call[c].goal \in GoalVersions
  BY CallFacts DEF CallType, GoalBusy, Busy, Before, IInv
<1> HIDE DEF r
<1>6. turn \in {"running", "ending"}
  BY <1>1, GoalTurn
<1>3. CASE checkpoint.state = None
  <2> DEFINE new == [NoRow EXCEPT !.state = "planned", !.before = call[c].goal]
  <2>1. checkpoint' = new /\ call' = [call EXCEPT ![c] = r] /\ Tardy(Goal)
    BY <1>3 DEF GoalBegins, To, None, r
  <2>2. new \in Records(GoalVersions) /\ new.state = "planned" /\ new.before = call[c].goal
    BY <1>2 DEF NoRow, Records, GoalVersions
  <2> HIDE DEF new
  <2>3. late \subseteq late' /\ late' \subseteq late \cup {Goal} /\ (Goal \in late' \/ Quiet)
    BY <2>1, TardyFacts DEF IInv
  <2>4. Goal \notin mixed => call[c].goal = kept[Goal]
    BY <1>1, <1>3 DEF IInv, GoalOK
  <2> QED
    BY <1>1, <1>2, <2>1, <2>2, <2>3, <2>4, GoalMoves, CheckpointFacts DEF Open, None
<1>4. CASE checkpoint.state = "applied"
  <2> DEFINE new == [checkpoint EXCEPT !.state = "planned", !.after = Absent]
  <2>1. checkpoint' = new /\ call' = [call EXCEPT ![c] = r] /\ UNCHANGED late
    BY <1>4 DEF GoalBegins, To, None, r
  <2>2. new \in Records(GoalVersions) /\ new.state = "planned" /\ new.before = checkpoint.before
    BY CheckpointFacts DEF Records
  <2> HIDE DEF new
  <2>3. Goal \notin mixed => checkpoint.before = kept[Goal]
    BY <1>4, <1>6, CheckpointFacts DEF Open
  <2> QED
    BY <1>1, <1>2, <1>4, <2>1, <2>2, <2>3, GoalMoves, CheckpointFacts DEF Open, None
<1>5. CASE checkpoint.state \notin {None, "applied"}
  <2>1. Ends(c) /\ UNCHANGED <<Rest, undo>>
    BY <1>1, <1>5 DEF GoalBegins, Rest
  <2> QED
    BY <2>1, CallEnds
<1> QED
  BY <1>3, <1>4, <1>5

\* The goal is set.
LEMMA GoalSetIInv ==
    ASSUME IInv, NEW c \in Calls, GoalSet(c)
    PROVE  IInv'
<1>1. call[c].pc = "goal_begun" /\ call[c].pc \in GoalBusy
      /\ UNCHANGED <<disk, row, checkpoint, turn, recorded, undo, messages, kept, late>>
      /\ mixed' = IF checkpoint.state # "planned" THEN mixed \cup {Goal} ELSE mixed
  BY DEF GoalSet, At, GoalBusy
<1>2. PICK g \in Goals : goal' = g /\ call' = [call EXCEPT ![c].pc = "goal_set", ![c].goal = g]
  BY DEF GoalSet
<1> DEFINE r == [call[c] EXCEPT !.pc = "goal_set", !.goal = g]
<1>3. g \in GoalVersions /\ call' = [call EXCEPT ![c] = r]
  BY <1>2 DEF GoalVersions
<1>4. r \in CallType /\ r.pc = "goal_set" /\ r.todo = call[c].todo /\ r.new = call[c].new
      /\ r.pc \notin Busy /\ r.pc \notin {"goal_read", "goal_restore"}
  BY <1>3, CallFacts DEF CallType, GoalBusy, Busy, Before, IInv
<1> HIDE DEF r
<1>5. turn \in {"running", "ending"} /\ checkpoint \in Records(GoalVersions)
  BY <1>1, GoalTurn, CheckpointFacts
<1>6. Goal \notin mixed' => Open(checkpoint') /\ checkpoint'.before = kept[Goal]
  BY <1>1, <1>5, CheckpointFacts DEF Open
<1>7. checkpoint'.state = None => checkpoint' = NoRow /\ Goal \in mixed'
  BY <1>1 DEF IInv, GoalOK, None
<1>8. Open(checkpoint') => Open(checkpoint)
  BY <1>1
<1>9. /\ goal' \in GoalVersions /\ mixed \subseteq mixed' /\ mixed' \subseteq mixed \cup {Goal}
      /\ late \subseteq late' /\ late' \subseteq late \cup {Goal}
  BY <1>1, <1>2, <1>3
<1> QED
  BY <1>1, <1>3, <1>4, <1>5, <1>6, <1>7, <1>8, <1>9, GoalMoves

\* The goal is not set.
LEMMA GoalFailsIInv ==
    ASSUME IInv, NEW c \in Calls, GoalFails(c)
    PROVE  IInv'
<1>1. call[c].pc = "goal_begun" /\ To(c, "goal_failed") /\ UNCHANGED <<Rest, undo>>
  BY DEF GoalFails, At, session, Rest
<1> QED
  BY <1>1, CallGoesOn DEF GoalBusy

\* finish_session_goal_checkpoint.
LEMMA GoalFinishesIInv ==
    ASSUME IInv, NEW c \in Calls, GoalFinishes(c)
    PROVE  IInv'
<1>1. call[c].pc = "goal_set" /\ call[c].pc \in GoalBusy
      /\ UNCHANGED <<disk, row, goal, turn, recorded, undo, messages, kept, mixed, late>>
  BY DEF GoalFinishes, At, GoalBusy
<1>2. CASE To(c, "goal_failed") /\ UNCHANGED checkpoint
  <2>1. UNCHANGED <<Rest, undo>>
    BY <1>1, <1>2 DEF Rest
  <2> QED
    BY <1>1, <1>2, <2>1, CallGoesOn DEF GoalBusy
<1>3. CASE /\ checkpoint.state = "planned" /\ Ends(c)
           /\ checkpoint' = [checkpoint EXCEPT !.state = "applied", !.after = call[c].goal]
  <2>1. /\ checkpoint' \in Records(GoalVersions) /\ checkpoint'.state = "applied"
        /\ checkpoint'.before = checkpoint.before
    BY <1>3, CheckpointFacts, CallFacts DEF Records, IInv
  <2>2. turn \in {"running", "ending"} /\ Open(checkpoint) /\ Open(checkpoint')
    BY <1>1, <1>3, <2>1, GoalTurn DEF Open
  <2>3. Goal \notin mixed => checkpoint'.before = kept[Goal]
    BY <2>1, <2>2, CheckpointFacts
  <2>4. call' = [call EXCEPT ![c] = Done]
    BY <1>3 DEF Ends
  <2>5. Done \in CallType /\ Done.todo = {} /\ Done.pc \notin Busy /\ Done.pc \notin {"goal_read", "goal_restore"}
    BY Ended DEF Busy, Before
  <2> QED
    BY <1>1, <2>1, <2>2, <2>3, <2>4, <2>5, GoalMoves, CheckpointFacts DEF None
<1> QED
  BY <1>2, <1>3 DEF GoalFinishes

\* The goal is compared with the record.
LEMMA OwnGoal ==
    ASSUME IInv, Open(checkpoint), GoalIsOwn(checkpoint), Goal \notin mixed
    PROVE  checkpoint.before = kept[Goal]
BY DEF IInv, GoalOK, GoalIsOwn

LEMMA GoalLooksIInv ==
    ASSUME IInv, NEW c \in Calls, GoalLooks(c)
    PROVE  IInv'
<1>1. call[c].pc = "goal_failed" /\ UNCHANGED <<Rest, undo>>
  BY DEF GoalLooks, At, session, Rest
<1>2. CASE Open(checkpoint) /\ GoalIsOwn(checkpoint)
  <2>1. To(c, "goal_restore")
    BY <1>2 DEF GoalLooks
  <2> QED
    BY <1>1, <1>2, <2>1, CallGoesOn, OwnGoal DEF GoalBusy
<1>3. CASE ~(Open(checkpoint) /\ GoalIsOwn(checkpoint))
  BY <1>1, <1>3, CallEnds DEF GoalLooks
<1> QED
  BY <1>2, <1>3

\* What a restore of the goal leaves.
LEMMA GoalComesBack ==
    ASSUME IInv, GoalIsPutBack
    PROVE  /\ checkpoint' \in Records(GoalVersions) /\ checkpoint'.state = "undone" /\ ~Open(checkpoint')
           /\ goal' = checkpoint.before /\ goal' \in GoalVersions /\ Open(checkpoint)
BY CheckpointFacts DEF GoalIsPutBack, Records, Open

LEMMA GoalRestoresIInv ==
    ASSUME IInv, NEW c \in Calls, GoalRestores(c)
    PROVE  IInv'
<1>1. call[c].pc = "goal_restore" /\ call[c].pc \in GoalBusy /\ Ends(c)
      /\ UNCHANGED <<disk, row, turn, recorded, undo, messages, kept, mixed, late>>
  BY DEF GoalRestores, At, GoalBusy
<1>2. CASE UNCHANGED <<goal, checkpoint>>
  <2>1. UNCHANGED <<Rest, undo>>
    BY <1>1, <1>2 DEF Rest
  <2> QED
    BY <1>1, <2>1, CallEnds
<1>3. CASE GoalIsPutBack
  <2>1. turn \in {"running", "ending"}
    BY <1>1, GoalTurn
  <2>2. Goal \notin mixed => goal' = kept[Goal]
    BY <1>3, <2>1, GoalComesBack, CheckpointFacts
  <2>3. call' = [call EXCEPT ![c] = Done]
    BY <1>1 DEF Ends
  <2>4. Done \in CallType /\ Done.todo = {} /\ Done.pc \notin Busy /\ Done.pc \notin {"goal_read", "goal_restore"}
    BY Ended DEF Busy, Before
  <2> QED
    BY <1>1, <1>3, <2>2, <2>3, <2>4, GoalMoves, GoalComesBack DEF None
<1> QED
  BY <1>2, <1>3 DEF GoalRestores

-----------------------------------------------------------------------------
(* The end of the turn, and the user's goal.                                *)

\* A step of neither the calls nor the requests.
LEMMA Aside ==
    ASSUME IInv, UNCHANGED <<disk, row, call, undo>>, goal' \in GoalVersions, recorded' \in GoalVersions,
           checkpoint' \in Records(GoalVersions), turn' \in Turns,
           kept' \in [Files \cup {Goal} -> Versions \cup Goals], \A f \in Files : kept'[f] = kept[f],
           mixed \subseteq mixed', mixed' \subseteq mixed \cup {Goal}, late' = late,
           Open(checkpoint') => Open(checkpoint), messages' = messages \/ MarkerOK', GoalOK'
    PROVE  IInv'
<1>1. \A c \in Calls : CallOK(c)' /\ \A f \in Files : CallKeeps(c, f)
  BY CallRests DEF IInv, CallOK
<1>2. ASSUME NEW u \in Undos
      PROVE  /\ UndoOK(u)' /\ \A f \in Files : UndoKeeps(u, f)
             /\ undo'[u].pc # "idle" =>
                  /\ undo[u].pc # "idle" /\ undo'[u].seen = undo[u].seen /\ undo'[u].todo = undo[u].todo
                  /\ undo[u].goal => undo'[u].goal \/ ~Open(checkpoint')
  BY RequestRests DEF IInv, UndoOK
<1>3. call' \in [Calls -> CallType] /\ undo' \in [Undos -> UndoType]
  BY DEF IInv, Types
<1> QED
  BY <1>1, <1>2, <1>3, NoFileMoves

LEMMA TurnEndsIInv == ASSUME IInv, TurnEnds PROVE IInv'
<1>1. turn = "running" /\ turn' = "ending"
      /\ UNCHANGED <<disk, row, goal, checkpoint, recorded, call, undo, messages, kept, mixed, late>>
  BY DEF TurnEnds
<1>2. GoalOK'
  BY <1>1 DEF IInv, GoalOK, GoalIsOwn, Open, NoRow
<1> QED
  BY <1>1, <1>2, Aside DEF IInv, Types, Turns

\* record_session_goal_turn: no call that changes the goal is under way.
LEMMA RecordGoalIInv == ASSUME IInv, RecordGoal PROVE IInv'
<1>1. turn = "ending" /\ turn' = "settling" /\ (\A c \in Calls : call[c].pc \notin GoalBusy)
      /\ UNCHANGED <<disk, row, checkpoint, call, undo, messages, mixed, late>>
  BY DEF RecordGoal, GoalBusy
<1>2. PICK g \in {goal} \cup (IF goal = Absent THEN {} ELSE Goals) :
        /\ goal' = g /\ recorded' = g
        /\ kept' = IF g = goal \/ Open(checkpoint) THEN kept ELSE [kept EXCEPT ![Goal] = g]
  BY DEF RecordGoal
<1>3. g \in GoalVersions /\ (g \in Goals \/ g = goal)
  BY CheckpointFacts DEF GoalVersions
<1>4. Goal \notin Files
  BY UndoAssumption DEF Goal
<1>5. kept' \in [Files \cup {Goal} -> Versions \cup Goals] /\ \A f \in Files : kept'[f] = kept[f]
  BY <1>2, <1>3, <1>4 DEF IInv, Types
<1>6. Goal \notin mixed /\ Open(checkpoint) => checkpoint.before = kept'[Goal]
  BY <1>1, <1>2, CheckpointFacts
<1>7. Goal \notin mixed /\ ~Open(checkpoint) => goal' = kept'[Goal]
  BY <1>2, CheckpointFacts DEF IInv, Types
<1>8. GoalOK'
  <2>1. checkpoint.state = None => checkpoint = NoRow
    BY DEF IInv, GoalOK
  <2>2. \A c \in Calls : call'[c].pc \notin GoalBusy /\ call'[c].pc # "goal_read"
    BY <1>1 DEF GoalBusy
  <2> QED
    BY <1>1, <1>6, <1>7, <2>1, <2>2 DEF GoalOK, Open, NoRow
<1>9. checkpoint' \in Records(GoalVersions) /\ turn' \in Turns
  BY <1>1, CheckpointFacts DEF Turns
<1> QED
  BY <1>1, <1>2, <1>3, <1>5, <1>8, <1>9, Aside

\* refresh_session_goal_checkpoint: a goal the user has set in between is not its.
LEMMA RefreshGoalIInv == ASSUME IInv, RefreshGoal PROVE IInv'
<1>1. turn = "settling" /\ turn' = "over" /\ recorded' = Absent
      /\ UNCHANGED <<disk, row, goal, call, undo, messages, kept, mixed, late>>
  BY DEF RefreshGoal
<1>2. /\ checkpoint' \in Records(GoalVersions) /\ (Open(checkpoint') <=> Open(checkpoint))
      /\ checkpoint'.before = checkpoint.before
      /\ IF Open(checkpoint) THEN checkpoint'.state = "applied" /\ checkpoint'.after = recorded
         ELSE checkpoint' = checkpoint
  BY CheckpointFacts DEF RefreshGoal, Records, Open, IInv, Types
<1>3. \A c \in Calls : call[c].pc \notin GoalBusy /\ call[c].pc # "goal_read"
  BY <1>1, GoalTurn DEF GoalBusy
<1>4. GoalOK'
  <2>1. checkpoint'.state = None => checkpoint' = NoRow
    BY <1>2 DEF IInv, GoalOK, None
  <2>2. Goal \notin mixed /\ Open(checkpoint) /\ checkpoint.before # kept[Goal] =>
          /\ goal = kept[Goal] /\ goal # recorded /\ \A u \in Undos : undo[u].pc # "goal_restore"
          /\ \A u \in Undos : undo[u].pc = "goal_look" => ~GoalIsOwn(undo[u].saw)
    BY <1>1 DEF IInv, GoalOK
  <2>3. Goal \notin mixed /\ ~Open(checkpoint) => goal = kept[Goal]
    BY CheckpointFacts
  <2> DEFINE o == Open(checkpoint')
  <2>4. o <=> Open(checkpoint)
    BY <1>2
  <2> HIDE DEF o
  <2>5. Goal \notin mixed' =>
        /\ ~o => goal' = kept'[Goal]
        /\ o /\ checkpoint'.before # kept'[Goal] =>
             /\ checkpoint'.state = "applied" /\ goal' = kept'[Goal] /\ goal' # checkpoint'.after
             /\ turn' = "over"
             /\ \A c \in Calls : call'[c].pc # "goal_restore"
             /\ \A u \in Undos : undo'[u].pc # "goal_restore"
             /\ \A u \in Undos : undo'[u].pc = "goal_look" => ~GoalIsOwn(undo[u].saw)'
    BY <1>1, <1>2, <1>3, <2>2, <2>3, <2>4 DEF GoalBusy, GoalIsOwn
  <2> QED
    BY <1>1, <1>3, <2>1, <2>5 DEF GoalOK, Open, o, GoalIsOwn
<1>5. recorded' \in GoalVersions /\ turn' \in Turns /\ goal' \in GoalVersions
  BY <1>1, CheckpointFacts DEF Turns
<1> QED
  BY <1>1, <1>2, <1>4, <1>5, Aside DEF IInv, Types

\* set_session_goal, of the user.
LEMMA UserSetsGoalIInv == ASSUME IInv, UserSetsGoal PROVE IInv'
<1>1. UNCHANGED <<disk, row, checkpoint, turn, recorded, call, undo, messages, late>>
  BY DEF UserSetsGoal
<1>2. PICK g \in Goals :
        /\ goal' = g /\ kept' = [kept EXCEPT ![Goal] = g]
        /\ mixed' = IF GoalIsLost(g) THEN mixed \cup {Goal} ELSE mixed
  BY DEF UserSetsGoal
<1>3. g \in GoalVersions /\ Goal \notin Files
  BY UndoAssumption DEF GoalVersions, Goal
<1>4. /\ kept' \in [Files \cup {Goal} -> Versions \cup Goals] /\ kept'[Goal] = g
      /\ \A f \in Files : kept'[f] = kept[f]
  BY <1>2, <1>3 DEF IInv, Types
<1>5. GoalOK'
  <2>1. CASE GoalIsLost(g)
    <3>1. Goal \in mixed'
      BY <1>2, <2>1
    <3> QED
      BY <1>1, <3>1 DEF GoalOK, IInv, NoRow
  <2>2. CASE ~GoalIsLost(g)
    <3>1. checkpoint.state = None => \A c \in Calls : call[c].pc # "goal_read"
      BY <2>2 DEF GoalIsLost, At
    <3>2. Open(checkpoint) =>
            /\ checkpoint.state = "applied" /\ g # checkpoint.after
            /\ turn = "over" \/ (turn = "settling" /\ g # recorded)
            /\ \A c \in Calls : call[c].pc # "goal_restore"
            /\ \A u \in Undos : undo[u].pc \notin {"goal_look", "goal_restore"}
      BY <2>2 DEF GoalIsLost, At, Open, IInv, Types, Turns
    <3>3. /\ checkpoint.state = None => checkpoint = NoRow
          /\ \A c \in Calls : call[c].pc \in GoalBusy => turn \in {"running", "ending"}
      BY DEF IInv, GoalOK
    <3> QED
      BY <1>1, <1>2, <1>4, <3>1, <3>2, <3>3 DEF GoalOK, Open, NoRow
  <2> QED
    BY <2>1, <2>2
<1> QED
  BY <1>1, <1>2, <1>3, <1>4, <1>5, Aside, CheckpointFacts DEF IInv, Types

\* The next prompt.
LEMMA NewPromptIInv == ASSUME IInv, NewPrompt PROVE IInv'
<1>1. UNCHANGED <<disk, row, goal, checkpoint, turn, recorded, call, undo, kept, mixed, late>>
      /\ ~Contains(messages, "later") /\ messages' = Append(messages, "later")
  BY DEF NewPrompt
<1>2. MarkerOK /\ UndoneOnce
  BY DEF IInv, MarkerOK
<1>3. messages \in {<<"turn">>, <<"turn", "undo">>}
  <2>1. Contains(<<"turn", "later">>, "later") /\ Contains(<<"turn", "undo", "later">>, "later")
    BY DEF Contains
  <2> QED
    BY <1>1, <1>2, <2>1 DEF UndoneOnce
<1>4. messages' \in {<<"turn", "later">>, <<"turn", "undo", "later">>}
      /\ (messages = <<"turn", "undo">> \/ messages' = <<"turn", "later">>)
  BY <1>1, <1>3, AppendToOne, AppendToTwo
<1>5. Marked' => Marked
  <2>1. <<"turn", "later">> \notin {<<"turn", "undo">>, <<"turn", "undo", "later">>}
    OBVIOUS
  <2> QED
    BY <1>4, <2>1 DEF Marked
<1>6. MarkerOK'
  BY <1>1, <1>2, <1>4, <1>5 DEF MarkerOK, UndoneOnce, Open
<1>7. GoalOK'
  BY <1>1 DEF IInv, GoalOK, GoalIsOwn, Open, NoRow
<1> QED
  BY <1>1, <1>6, <1>7, Aside, CheckpointFacts DEF IInv, Types

\* The daemon dies.
LEMMA CrashIInv == ASSUME IInv, Crash PROVE IInv'
<1>1. /\ turn' = "over" /\ recorded' = Absent
      /\ call' = [c \in Calls |-> IF At(c, "ready") THEN NoCall ELSE Done]
      /\ undo' = [u \in Undos |-> NoUndo]
      /\ UNCHANGED <<disk, row, goal, checkpoint, messages, kept, mixed, late>>
  BY DEF Crash
<1>2. /\ call' \in [Calls -> CallType]
      /\ \A c \in Calls : call'[c].pc \in {"ready", "done"} /\ call'[c].todo = {}
  BY <1>1, Ended
<1>3. NoUndo \in UndoType /\ NoUndo.pc = "idle" /\ NoUndo.todo = {}
  BY DEF NoUndo, UndoType, NoFiles, Versions, NoRow, Records, GoalVersions
<1>4. \A u \in Undos : undo'[u] = NoUndo
  BY <1>1
<1>5. \A c \in Calls : CallOK(c)' /\ \A f \in Files : CallKeeps(c, f)
  BY <1>2 DEF CallOK, CallKeeps, Works, Busy, Before
<1>6. ASSUME NEW u \in Undos
      PROVE  /\ UndoOK(u)' /\ undo'[u].pc = "idle" /\ \A f \in Files : UndoKeeps(u, f)
  BY <1>3, <1>4 DEF UndoOK, UndoKeeps
<1>7. GoalOK'
  BY <1>1, <1>2, <1>6 DEF IInv, GoalOK, GoalBusy, Open, NoRow
<1>8. undo' \in [Undos -> UndoType] /\ turn' \in Turns /\ recorded' \in GoalVersions
  BY <1>1, <1>3, CheckpointFacts DEF Turns
<1> QED
  BY <1>1, <1>2, <1>5, <1>6, <1>7, <1>8, NoFileMoves, CheckpointFacts DEF IInv, Types

-----------------------------------------------------------------------------
(* The requests to undo.                                                    *)

\* One request moves, and no file: it ends, or goes on with the goal.
LEMMA UndoAside ==
    ASSUME IInv, NEW u \in Undos, NEW r \in UndoType, undo' = [undo EXCEPT ![u] = r],
           UNCHANGED <<disk, row, turn, recorded, call, kept, mixed, late>>,
           goal' \in GoalVersions, checkpoint' \in Records(GoalVersions),
           r.pc \in {"idle", "files", "goal_look", "goal_restore"}, r.pc = "idle" => r.todo = {},
           r.pc # "idle" =>
             /\ undo[u].pc # "idle" /\ r.seen = undo[u].seen /\ r.todo = undo[u].todo
             /\ r.expected = undo[u].expected /\ r.before = undo[u].before
             /\ undo[u].goal => r.goal \/ ~Open(checkpoint'),
           Open(checkpoint') => Open(checkpoint), checkpoint'.state = None => checkpoint' = checkpoint,
           \/ goal' = goal /\ checkpoint' = checkpoint
           \/ ~Open(checkpoint') /\ (Goal \notin mixed => goal' = kept[Goal]),
           Goal \notin mixed /\ r.pc = "goal_restore" => ~Open(checkpoint) \/ checkpoint.before = kept[Goal],
           Goal \notin mixed /\ r.pc = "goal_look" =>
             ~Open(checkpoint) \/ checkpoint.before = kept[Goal] \/ ~GoalIsOwn(r.saw),
           messages' = messages \/ MarkerOK'
    PROVE  IInv'
<1>1. /\ undo' \in [Undos -> UndoType] /\ undo'[u] = r
      /\ \A v \in Undos : v # u => undo'[v] = undo[v]
  BY DEF IInv, Types
<1>2. \A c \in Calls : CallOK(c)' /\ \A f \in Files : CallKeeps(c, f)
  BY CallRests DEF IInv, CallOK
<1>3. ASSUME NEW v \in Undos
      PROVE  /\ UndoOK(v)' /\ \A f \in Files : UndoKeeps(v, f)
             /\ undo'[v].pc # "idle" =>
                  /\ undo[v].pc # "idle" /\ undo'[v].seen = undo[v].seen /\ undo'[v].todo = undo[v].todo
                  /\ undo[v].goal => undo'[v].goal \/ ~Open(checkpoint')
  <2>1. CASE v = u
    BY <1>1, <2>1 DEF UndoOK, UndoKeeps
  <2>2. CASE v # u
    BY <1>1, <2>2, RequestRests DEF IInv, UndoOK
  <2> QED
    BY <2>1, <2>2
<1>4. GoalOK'
  <2>1. /\ checkpoint'.state = None => checkpoint' = NoRow
        /\ \A c \in Calls : call'[c].pc \in GoalBusy => turn' \in {"running", "ending"}
    BY DEF IInv, GoalOK, NoRow
  <2>2. \A v \in Undos : undo'[v].pc = "goal_restore" /\ Goal \notin mixed =>
          ~Open(checkpoint) \/ checkpoint.before = kept[Goal]
    BY <1>1 DEF IInv, GoalOK
  <2>5. \A v \in Undos : undo'[v].pc = "goal_look" /\ Goal \notin mixed =>
          ~Open(checkpoint) \/ checkpoint.before = kept[Goal] \/ ~GoalIsOwn(undo'[v].saw)
    BY <1>1 DEF IInv, GoalOK
  <2>3. CASE goal' = goal /\ checkpoint' = checkpoint
    BY <2>1, <2>2, <2>3, <2>5 DEF IInv, GoalOK, GoalIsOwn, Open
  <2>4. CASE ~Open(checkpoint') /\ (Goal \notin mixed => goal' = kept[Goal])
    <3>1. checkpoint'.state = None => checkpoint.state = None
      OBVIOUS
    <3> QED
      BY <2>1, <2>4, <3>1 DEF IInv, GoalOK, Open
  <2> QED
    BY <2>3, <2>4
<1>5. call' \in [Calls -> CallType] /\ turn' \in Turns /\ recorded' \in GoalVersions
      /\ kept' \in [Files \cup {Goal} -> Versions \cup Goals]
  BY DEF IInv, Types
<1> QED
  BY <1>1, <1>2, <1>3, <1>4, <1>5, NoFileMoves

\* A request without an undo.
LEMMA Idle == NoUndo \in UndoType /\ NoUndo.pc = "idle" /\ NoUndo.todo = {}
BY DEF NoUndo, UndoType, NoFiles, Versions, NoRow, Records, GoalVersions

\* An undo stops.
LEMMA UndoStops ==
    ASSUME IInv, NEW u \in Undos, UndoFails(u), UNCHANGED <<Rest, call>>
    PROVE  IInv'
<1>1. undo' = [undo EXCEPT ![u] = NoUndo]
      /\ UNCHANGED <<disk, row, goal, checkpoint, turn, recorded, messages, call, kept, mixed, late>>
  BY DEF UndoFails, Put, Rest
<1>2. goal' \in GoalVersions /\ checkpoint' \in Records(GoalVersions) /\ (Open(checkpoint') <=> Open(checkpoint))
  BY <1>1, CheckpointFacts DEF Open
<1> QED
  BY <1>1, <1>2, Idle, UndoAside

LEMMA UndoErrorIInv ==
    ASSUME IInv, NEW u \in Undos, UndoError(u)
    PROVE  IInv'
BY UndoStops DEF UndoError, session, Rest

\* The record of the goal is read, ...
LEMMA UndoGoalIInv ==
    ASSUME IInv, NEW u \in Undos, UndoGoal(u)
    PROVE  IInv'
<1> DEFINE r == IF Open(checkpoint) THEN [undo[u] EXCEPT !.pc = "goal_look", !.saw = checkpoint]
                ELSE [undo[u] EXCEPT !.goal = FALSE]
<1>1. undo[u].pc = "files" /\ undo' = [undo EXCEPT ![u] = r]
      /\ UNCHANGED <<disk, row, goal, checkpoint, turn, recorded, messages, call, kept, mixed, late>>
  BY DEF UndoGoal, Put, session
<1>2. /\ r \in UndoType /\ r.todo = undo[u].todo /\ r.seen = undo[u].seen
      /\ r.expected = undo[u].expected /\ r.before = undo[u].before
      /\ IF Open(checkpoint) THEN r.pc = "goal_look" /\ r.saw = checkpoint /\ r.goal = undo[u].goal
         ELSE r.pc = "files"
  BY <1>1, RequestFacts, CheckpointFacts DEF UndoType, IInv
<1> HIDE DEF r
<1>3. Goal \notin mixed /\ Open(checkpoint) => checkpoint.before = kept[Goal] \/ ~GoalIsOwn(checkpoint)
  BY OwnGoal
<1>4. goal' \in GoalVersions /\ checkpoint' \in Records(GoalVersions) /\ (Open(checkpoint') <=> Open(checkpoint))
  BY <1>1, CheckpointFacts DEF Open
<1> QED
  BY <1>1, <1>2, <1>3, <1>4, UndoAside

\* ... the goal is compared with it ...
LEMMA UndoGoalLooksIInv ==
    ASSUME IInv, NEW u \in Undos, UndoGoalLooks(u)
    PROVE  IInv'
<1>1. undo[u].pc = "goal_look"
      /\ UNCHANGED <<disk, row, goal, checkpoint, turn, recorded, messages, call, kept, mixed, late>>
  BY DEF UndoGoalLooks, session
<1>2. CASE UndoFails(u)
  <2>1. UNCHANGED <<Rest, call>>
    BY <1>1 DEF Rest
  <2> QED
    BY <1>2, <2>1, UndoStops
<1>3. CASE GoalIsOwn(undo[u].saw) /\ Put(u, [undo[u] EXCEPT !.pc = "goal_restore", !.saw = NoRow])
  <2> DEFINE r == [undo[u] EXCEPT !.pc = "goal_restore", !.saw = NoRow]
  <2>1. undo' = [undo EXCEPT ![u] = r]
    BY <1>3 DEF Put
  <2>2. NoRow \in Records(GoalVersions)
    BY DEF NoRow, Records, GoalVersions
  <2>3. /\ r \in UndoType /\ r.pc = "goal_restore" /\ r.todo = undo[u].todo /\ r.seen = undo[u].seen
        /\ r.expected = undo[u].expected /\ r.before = undo[u].before /\ r.goal = undo[u].goal
    BY <2>2, RequestFacts DEF UndoType, IInv
  <2> HIDE DEF r
  <2>4. Goal \notin mixed => ~Open(checkpoint) \/ checkpoint.before = kept[Goal]
    BY <1>1, <1>3 DEF IInv, GoalOK
  <2>5. goal' \in GoalVersions /\ checkpoint' \in Records(GoalVersions) /\ (Open(checkpoint') <=> Open(checkpoint))
    BY <1>1, CheckpointFacts DEF Open
  <2> QED
    BY <1>1, <2>1, <2>3, <2>4, <2>5, UndoAside
<1> QED
  BY <1>2, <1>3 DEF UndoGoalLooks

\* ... and put back.
LEMMA UndoGoalWritesIInv ==
    ASSUME IInv, NEW u \in Undos, UndoGoalWrites(u)
    PROVE  IInv'
<1>1. undo[u].pc = "goal_restore"
      /\ UNCHANGED <<disk, row, turn, recorded, call, messages, kept, mixed, late>>
  BY DEF UndoGoalWrites
<1>2. CASE UndoFails(u) /\ UNCHANGED <<goal, checkpoint>>
  <2>1. UNCHANGED <<Rest, call>>
    BY <1>1, <1>2 DEF Rest
  <2> QED
    BY <1>2, <2>1, UndoStops
<1>3. CASE GoalIsPutBack /\ Put(u, [undo[u] EXCEPT !.pc = "files", !.goal = FALSE])
  <2> DEFINE r == [undo[u] EXCEPT !.pc = "files", !.goal = FALSE]
  <2>1. undo' = [undo EXCEPT ![u] = r]
    BY <1>3 DEF Put
  <2>2. /\ r \in UndoType /\ r.pc = "files" /\ r.todo = undo[u].todo /\ r.seen = undo[u].seen
        /\ r.expected = undo[u].expected /\ r.before = undo[u].before
    BY RequestFacts DEF UndoType, IInv
  <2> HIDE DEF r
  <2>3. Goal \notin mixed => checkpoint.before = kept[Goal]
    BY <1>1, <1>3, GoalComesBack DEF IInv, GoalOK
  <2>4. /\ goal' \in GoalVersions /\ checkpoint' \in Records(GoalVersions) /\ ~Open(checkpoint')
        /\ checkpoint'.state # None /\ (Goal \notin mixed => goal' = kept[Goal])
    BY <1>3, <2>3, GoalComesBack DEF None
  <2> QED
    BY <1>1, <2>1, <2>2, <2>4, UndoAside
<1> QED
  BY <1>2, <1>3 DEF UndoGoalWrites

\* append_conversation_undo: nothing came after the turn, and nothing is left to restore.
LEMMA UndoMarkerIInv ==
    ASSUME IInv, NEW u \in Undos, UndoMarker(u)
    PROVE  IInv'
<1>1. /\ undo[u].pc = "files" /\ undo[u].todo = {} /\ ~undo[u].goal /\ UndoFails(u)
      /\ UNCHANGED <<disk, row, goal, checkpoint, turn, recorded, call, kept, mixed, late>>
      /\ messages' = IF SameConversation(u) THEN Append(messages, "undo") ELSE messages
  BY DEF UndoMarker
<1>2. MarkerOK /\ UndoneOnce /\ Sees(u)
  BY DEF IInv, MarkerOK
<1>3. CASE ~SameConversation(u)
  <2>1. UNCHANGED <<Rest, call>>
    BY <1>1, <1>3 DEF Rest
  <2> QED
    BY <1>1, <2>1, UndoStops
<1>4. CASE SameConversation(u)
  <2>1. Len(messages) = 1
    BY <1>1, <1>2, <1>4 DEF Sees, SameConversation
  <2>2. messages = <<"turn">>
    BY <1>2, <2>1 DEF UndoneOnce
  <2>3. messages' = <<"turn", "undo">>
    BY <1>1, <1>4, <2>2, AppendToOne
  <2>4. (\A f \in Files : Open(row[f]) => f \in late) /\ (Open(checkpoint) => Goal \in late)
    BY <1>1, <1>2 DEF Sees
  <2>5. MarkerOK'
    BY <1>1, <2>3, <2>4 DEF MarkerOK, UndoneOnce, Open
  <2>6. undo' = [undo EXCEPT ![u] = NoUndo]
    BY <1>1 DEF UndoFails, Put
  <2>9. goal' \in GoalVersions /\ checkpoint' \in Records(GoalVersions) /\ (Open(checkpoint') <=> Open(checkpoint))
    BY <1>1, CheckpointFacts DEF Open
  <2> QED
    BY <1>1, <2>5, <2>6, <2>9, Idle, UndoAside
<1> QED
  BY <1>3, <1>4

\* A step of one request about one file.
LEMMA UndoMoves ==
    ASSUME IInv, NEW u \in Undos, NEW r \in UndoType, NEW f \in Files, undo' = [undo EXCEPT ![u] = r],
           UNCHANGED <<session, call, kept, mixed, late>>,
           disk' \in [Files -> Versions], row' \in [Files -> Records(Versions)],
           \A g \in Files : g # f => disk'[g] = disk[g] /\ row'[g] = row[g],
           undo[u].pc # "idle", r.pc \in {"files", "rename", "mark"},
           r.todo \subseteq undo[u].todo, undo[u].todo \subseteq r.todo \cup {f},
           f \in r.todo \/ ~Open(row'[f]), Open(row'[f]) => Open(row[f]),
           r.expected = undo[u].expected, r.before = undo[u].before, r.seen = undo[u].seen,
           r.goal = undo[u].goal, r.pc \in {"rename", "mark"} => r.file = f /\ f \in r.todo,
           r.pc = "rename" => r.expected[f] # r.before[f],
           FileInv(f)'
    PROVE  IInv'
<1>1. /\ undo' \in [Undos -> UndoType] /\ undo'[u] = r
      /\ \A v \in Undos : v # u => undo'[v] = undo[v]
  BY DEF IInv, Types
<1>2. UNCHANGED <<goal, checkpoint, turn, recorded, messages, call, kept, mixed, late>>
  BY DEF session
<1>3. Types'
  BY <1>1, <1>2 DEF IInv, Types
<1>4. ASSUME NEW g \in Files, g # f PROVE FileInv(g)'
  <2>1. \A c \in Calls : CallKeeps(c, g)
    BY <1>2, <1>4, CallRests
  <2>2. ASSUME NEW v \in Undos PROVE UndoKeeps(v, g)
    <3>1. CASE v = u
      BY <1>1, <1>4, <3>1 DEF UndoKeeps
    <3>2. CASE v # u
      BY <1>1, <3>2, RequestRests
    <3> QED
      BY <3>1, <3>2
  <2> QED
    BY <1>2, <1>4, <2>1, <2>2, FileFrame DEF IInv
<1>5. GoalOK'
  <2>1. \A v \in Undos : undo'[v].pc \in {"goal_look", "goal_restore"} => undo'[v] = undo[v]
    BY <1>1
  <2> QED
    BY <1>2, <2>1, GoalFrame DEF IInv
<1>6. \A g \in Files : Open(row'[g]) => Open(row[g])
  BY DEF Open
<1>7. MarkerOK'
  BY <1>2, <1>6, MarkerFrame DEF IInv
<1>8. \A c \in Calls : CallOK(c)'
  BY <1>2 DEF IInv, CallOK
<1>9. ASSUME NEW v \in Undos PROVE UndoOK(v)' /\ Sees(v)'
  <2>1. UndoOK(v)'
    <3>1. CASE v = u
      BY <1>1, <3>1 DEF UndoOK
    <3>2. CASE v # u
      BY <1>1, <3>2 DEF IInv, UndoOK
    <3> QED
      BY <3>1, <3>2
  <2>2. undo'[v].pc # "idle" =>
          /\ \A g \in undo[v].todo : g \in undo'[v].todo \/ ~Open(row'[g])
          /\ undo[v].goal => undo'[v].goal \/ ~Open(checkpoint')
    BY <1>1
  <2>3. undo'[v].pc # "idle" => undo[v].pc # "idle" /\ undo'[v].seen = undo[v].seen
    BY <1>1
  <2> QED
    BY <1>2, <1>6, <2>1, <2>2, <2>3, SeesFrame DEF IInv
<1> QED
  BY <1>3, <1>4, <1>5, <1>7, <1>8, <1>9, FileInv(f)' DEF IInv

\* Each file is looked at first.
LEMMA UndoStartIInv ==
    ASSUME IInv, NEW u \in Undos, UndoStart(u)
    PROVE  IInv'
<1> DEFINE open == {f \in Files : Open(row[f])}
           r == [pc |-> "files", todo |-> open, file |-> None,
                 expected |-> [f \in Files |-> IF f \in open THEN disk[f] ELSE Absent],
                 before |-> [f \in Files |-> IF f \in open THEN row[f].before ELSE Absent],
                 goal |-> Open(checkpoint), saw |-> NoRow, seen |-> Len(messages)]
<1>1. /\ messages = <<"turn">> /\ (\A f \in open : IsOwn(f)) /\ undo' = [undo EXCEPT ![u] = r]
      /\ mixed' = mixed \cup {f \in open : Coincides(f)}
      /\ late' = IF \A v \in Undos \ {u} : undo[v].pc = "idle" THEN {} ELSE late
      /\ UNCHANGED <<disk, row, goal, checkpoint, turn, recorded, messages, call, kept>>
  BY DEF UndoStart, Put, session
<1>2. Len(messages) = 1
  BY <1>1
<1>3. r \in UndoType
  <2>1. /\ [f \in Files |-> IF f \in open THEN disk[f] ELSE Absent] \in [Files -> Versions]
        /\ [f \in Files |-> IF f \in open THEN row[f].before ELSE Absent] \in [Files -> Versions]
    BY RowFacts DEF IInv, Versions
  <2>2. open \in SUBSET Files /\ Open(checkpoint) \in BOOLEAN /\ NoRow \in Records(GoalVersions)
    BY DEF Open, NoRow, Records, GoalVersions
  <2> HIDE DEF open
  <2> QED
    BY <1>2, <2>1, <2>2 DEF UndoType
<1>4. /\ r.pc = "files" /\ r.todo = open /\ r.goal = Open(checkpoint) /\ r.seen = 1
      /\ \A f \in open : r.expected[f] = disk[f] /\ r.before[f] = row[f].before
  BY <1>2
<1>5. open = {f \in Files : Open(row[f])} /\ open \subseteq Files
  OBVIOUS
<1> HIDE DEF open, r
<1>6. /\ undo' \in [Undos -> UndoType] /\ undo'[u] = r
      /\ \A v \in Undos : v # u => undo'[v] = undo[v]
  BY <1>1, <1>3 DEF IInv, Types
<1>7. Types'
  BY <1>1, <1>5, <1>6 DEF IInv, Types
<1>8. ASSUME NEW f \in Files PROVE FileInv(f)'
  <2>1. FileInv(f) /\ FileOK(f) /\ RowOK(f)
    BY DEF IInv, FileInv
  <2>2. RowOK(f)' /\ FileOK(f)'
    BY <1>1, <2>1 DEF RowOK, FileOK, NoRow, IsOwn, Open
  <2>3. ASSUME NEW c \in Calls PROVE CallFileOK(c, f)' /\ (Works(c, f)' <=> Works(c, f))
    BY <1>1, <2>1 DEF FileInv, CallFileOK, Works
  <2>4. ASSUME NEW v \in Undos, v # u PROVE UndoFileOK(v, f)'
    <3>1. \A c \in Calls : Works(c, f)' /\ call'[c].pc \in Before => Works(c, f) /\ call[c].pc \in Before
      BY <1>1, <2>3
    <3> QED
      BY <1>1, <1>6, <2>1, <2>4, <3>1 DEF FileInv, UndoFileOK
  <2>5. UndoFileOK(u, f)'
    <3> SUFFICES ASSUME f \in open, f \notin mixed' PROVE UndoFileOK(u, f)'
      BY <1>4, <1>6 DEF UndoFileOK
    <3>1. Open(row[f]) /\ row[f].state # None /\ IsOwn(f) /\ f \notin mixed /\ ~Coincides(f)
      BY <1>1, <1>5 DEF Open, None
    <3>2. row[f].after # Absent
      BY <2>1, <3>1, UndoAssumption DEF RowOK
    <3>3. disk[f] # kept[f] => row[f].before = kept[f]
      BY <2>1, <3>1 DEF FileOK
    <3>4. disk[f] = kept[f] => disk[f] = row[f].before
      BY <3>1, <3>2 DEF Coincides, IsOwn
    <3>5. disk[f] = row[f].before => disk[f] = kept[f]
      BY <3>3
    <3>6. disk[f] # row[f].before => kept[f] = row[f].before
      BY <3>3, <3>4
    <3>7. ASSUME disk[f] # row[f].before, row[f].previous = Absent, NEW c \in Calls
          PROVE  ~(Works(c, f)' /\ call'[c].pc \in Before)
      <4>1. disk[f] # kept[f] /\ CallFileOK(c, f)
        BY <2>1, <3>6, <3>7 DEF FileInv
      <4> QED
        BY <1>1, <2>3, <3>1, <3>7, <4>1 DEF CallFileOK
    <3> QED
      BY <1>1, <1>4, <1>6, <3>1, <3>5, <3>6, <3>7 DEF UndoFileOK
  <2> QED
    BY <2>2, <2>3, <2>4, <2>5 DEF FileInv
<1>9. GoalOK'
  <2>1. \A v \in Undos : undo'[v].pc \in {"goal_look", "goal_restore"} => undo'[v] = undo[v]
    BY <1>4, <1>6
  <2> QED
    BY <1>1, <2>1, GoalFrame DEF IInv
<1>10. MarkerOK'
  <2>1. UndoneOnce /\ ~Marked'
    <3>1. <<"turn">> \notin {<<"turn", "undo">>, <<"turn", "undo", "later">>}
      OBVIOUS
    <3> QED
      BY <1>1, <3>1 DEF Marked, UndoneOnce
  <2> QED
    BY <1>1, <2>1 DEF MarkerOK, UndoneOnce
<1>11. \A c \in Calls : CallOK(c)'
  BY <1>1 DEF IInv, CallOK
<1>12. ASSUME NEW v \in Undos PROVE UndoOK(v)' /\ Sees(v)'
  <2>1. CASE v = u
    BY <1>1, <1>4, <1>5, <1>6, <2>1 DEF UndoOK, Sees
  <2>2. CASE v # u
    <3>1. UndoOK(v) /\ Sees(v) /\ undo'[v] = undo[v] /\ (undo[v].pc # "idle" => late' = late)
      BY <1>1, <1>6, <2>2 DEF IInv
    <3>2. UndoOK(v)'
      BY <3>1 DEF UndoOK
    <3>3. Sees(v)'
      BY <1>1, <3>1 DEF Sees, Open
    <3> QED
      BY <3>2, <3>3
  <2> QED
    BY <2>1, <2>2
<1> QED
  BY <1>7, <1>8, <1>9, <1>10, <1>11, <1>12 DEF IInv

\* The next file: it is as it was, or it is the turn's and will be replaced.
LEMMA UndoFileIInv ==
    ASSUME IInv, NEW u \in Undos, NEW f \in Files, UndoFile(u, f)
    PROVE  IInv'
<1>1. /\ undo[u].pc = "files" /\ f \in undo[u].todo
      /\ UNCHANGED <<session, disk, row, call, kept, mixed, late>>
  BY DEF UndoFile
<1>2. CASE UndoFails(u)
  <2>1. UNCHANGED <<Rest, call>>
    BY <1>1 DEF Rest, session
  <2> QED
    BY <1>2, <2>1, UndoStops
<1>3. ASSUME NEW pc \in {"rename", "mark"}, Put(u, [undo[u] EXCEPT !.file = f, !.pc = pc]),
             IF pc = "mark" THEN undo[u].expected[f] = undo[u].before[f]
             ELSE undo[u].expected[f] # undo[u].before[f] /\ disk[f] = undo[u].expected[f]
      PROVE  IInv'
  <2> DEFINE r == [undo[u] EXCEPT !.file = f, !.pc = pc]
  <2>1. undo' = [undo EXCEPT ![u] = r]
    BY <1>3 DEF Put
  <2>2. /\ r \in UndoType /\ r.pc = pc /\ r.file = f /\ r.todo = undo[u].todo /\ r.seen = undo[u].seen
        /\ r.expected = undo[u].expected /\ r.before = undo[u].before /\ r.goal = undo[u].goal
    BY RequestFacts DEF UndoType, IInv
  <2> HIDE DEF r
  <2>3. undo'[u] = r /\ \A v \in Undos : v # u => undo'[v] = undo[v]
    BY <2>1 DEF IInv, Types
  <2>4. FileInv(f)'
    <3>1. FileInv(f)
      BY DEF IInv
    <3>2. RowOK(f)' /\ FileOK(f)'
      BY <1>1, <3>1 DEF FileInv, RowOK, FileOK, NoRow, IsOwn, Open
    <3>3. ASSUME NEW c \in Calls PROVE CallFileOK(c, f)' /\ (Works(c, f)' <=> Works(c, f))
      BY <1>1, <3>1 DEF FileInv, CallFileOK, Works
    <3>4. \A c \in Calls : Works(c, f)' /\ call'[c].pc \in Before => Works(c, f) /\ call[c].pc \in Before
      BY <1>1, <3>3
    <3>5. ASSUME NEW v \in Undos, v # u PROVE UndoFileOK(v, f)'
      BY <1>1, <2>3, <3>1, <3>4, <3>5 DEF FileInv, UndoFileOK
    <3>6. UndoFileOK(u, f)'
      <4>1. UndoFileOK(u, f)
        BY <3>1 DEF FileInv
      <4> QED
        BY <1>1, <1>3, <2>2, <2>3, <3>4, <4>1 DEF UndoFileOK
    <3> QED
      BY <3>2, <3>3, <3>5, <3>6 DEF FileInv
  <2>5. disk' \in [Files -> Versions] /\ row' \in [Files -> Records(Versions)]
    BY <1>1 DEF IInv, Types
  <2> QED
    BY <1>1, <1>3, <2>1, <2>2, <2>4, <2>5, UndoMoves DEF Open
<1> QED
  BY <1>2, <1>3 DEF UndoFile

\* What is known of the file of a request.
LEMMA UndoTarget ==
    ASSUME IInv, NEW u \in Undos, undo[u].pc \in {"rename", "mark"}
    PROVE  /\ undo[u].file \in undo[u].todo /\ undo[u].file \in Files
           /\ undo[u].pc = "rename" => undo[u].expected[undo[u].file] # undo[u].before[undo[u].file]
BY RequestFacts DEF IInv, UndoOK

\* restore_file puts the content before the turn in its place.
LEMMA UndoRenameIInv ==
    ASSUME IInv, NEW u \in Undos, UndoRename(u)
    PROVE  IInv'
<1>1. undo[u].pc = "rename" /\ UNCHANGED <<session, row, call, kept, mixed, late>>
  BY DEF UndoRename
<1>2. PICK f \in Files : /\ f = undo[u].file /\ f \in undo[u].todo
                         /\ undo[u].expected[f] # undo[u].before[f]
  BY <1>1, UndoTarget
<1>3. CASE UndoFails(u) /\ UNCHANGED disk
  <2>1. UNCHANGED <<Rest, call>>
    BY <1>1, <1>3 DEF Rest, session
  <2> QED
    BY <1>3, <2>1, UndoStops
<1>4. CASE /\ disk' = [disk EXCEPT ![f] = undo[u].before[f]]
           /\ Put(u, [undo[u] EXCEPT !.pc = "mark"])
  <2> DEFINE r == [undo[u] EXCEPT !.pc = "mark"]
  <2>1. undo' = [undo EXCEPT ![u] = r]
    BY <1>4 DEF Put
  <2>2. /\ r \in UndoType /\ r.pc = "mark" /\ r.file = f /\ r.todo = undo[u].todo /\ r.seen = undo[u].seen
        /\ r.expected = undo[u].expected /\ r.before = undo[u].before /\ r.goal = undo[u].goal
    BY <1>2, RequestFacts DEF UndoType, IInv
  <2> HIDE DEF r
  <2>3. undo'[u] = r /\ \A v \in Undos : v # u => undo'[v] = undo[v]
    BY <2>1 DEF IInv, Types
  <2>4. /\ disk' \in [Files -> Versions] /\ row' \in [Files -> Records(Versions)]
        /\ disk'[f] = undo[u].before[f] /\ \A g \in Files : g # f => disk'[g] = disk[g] /\ row'[g] = row[g]
    BY <1>1, <1>4, RequestFacts DEF IInv, Types
  <2>5. FileInv(f)'
    <3>1. FileInv(f) /\ UndoFileOK(u, f) /\ row' = row /\ kept' = kept /\ mixed' = mixed /\ call' = call
      BY <1>1 DEF IInv, FileInv
    <3>2. f \notin mixed => row[f].state # None /\ row[f].before = undo[u].before[f] /\ disk'[f] = kept[f]
      BY <1>1, <1>2, <2>4, <3>1 DEF UndoFileOK
    <3>3. RowOK(f)' /\ FileOK(f)'
      BY <3>1, <3>2 DEF FileInv, RowOK, FileOK, NoRow
    <3>4. ASSUME NEW c \in Calls PROVE CallFileOK(c, f)' /\ (Works(c, f)' <=> Works(c, f))
      <4>1. CallFileOK(c, f)
        BY <3>1 DEF FileInv
      <4> QED
        BY <3>1, <3>2, <4>1 DEF CallFileOK, Works
    <3>5. \A c \in Calls : Works(c, f)' /\ call'[c].pc \in Before => Works(c, f) /\ call[c].pc \in Before
      BY <3>1, <3>4
    <3>6. ASSUME NEW v \in Undos PROVE UndoFileOK(v, f)'
      <4>1. UndoFileOK(v, f)
        BY <3>1 DEF FileInv
      <4>2. /\ undo'[v].todo = undo[v].todo /\ undo'[v].expected = undo[v].expected
            /\ undo'[v].before = undo[v].before
            /\ undo'[v].pc = "rename" => undo'[v].pc = undo[v].pc /\ undo'[v].file = undo[v].file
        <5>1. CASE v = u
          BY <2>2, <2>3, <5>1
        <5>2. CASE v # u
          BY <2>3, <5>2
        <5> QED
          BY <5>1, <5>2
      <4>3. f \notin mixed => kept[f] = row[f].before
        BY <2>4, <3>2
      <4> QED
        BY <3>1, <3>2, <3>5, <4>1, <4>2, <4>3 DEF UndoFileOK
    <3> QED
      BY <3>3, <3>4, <3>6 DEF FileInv
  <2> QED
    BY <1>1, <1>2, <2>1, <2>2, <2>4, <2>5, UndoMoves DEF Open
<1> QED
  BY <1>2, <1>3, <1>4 DEF UndoRename

\* mark_turn_file_change_undone: the record of a file that is as before the turn.
LEMMA UndoMarkIInv ==
    ASSUME IInv, NEW u \in Undos, UndoMark(u)
    PROVE  IInv'
<1>1. undo[u].pc = "mark" /\ UNCHANGED <<session, disk, call, kept, mixed, late>>
  BY DEF UndoMark
<1>2. PICK f \in Files : f = undo[u].file /\ f \in undo[u].todo
  BY <1>1, UndoTarget
<1>3. CASE UndoFails(u) /\ UNCHANGED row
  <2>1. UNCHANGED <<Rest, call>>
    BY <1>1, <1>3 DEF Rest, session
  <2> QED
    BY <1>3, <2>1, UndoStops
<1>4. CASE Open(row[f])
  <2> DEFINE r == [undo[u] EXCEPT !.pc = "files", !.file = None, !.todo = @ \ {f}]
             new == [row[f] EXCEPT !.state = "undone", !.op = None]
  <2>1. undo' = [undo EXCEPT ![u] = r] /\ row' = [row EXCEPT ![f] = new]
    BY <1>2, <1>4 DEF UndoMark, Put
  <2>2. /\ r \in UndoType /\ r.pc = "files" /\ r.todo = undo[u].todo \ {f} /\ r.seen = undo[u].seen
        /\ r.expected = undo[u].expected /\ r.before = undo[u].before /\ r.goal = undo[u].goal
    BY RequestFacts DEF UndoType, IInv
  <2>3. /\ new \in Records(Versions) /\ new.state = "undone" /\ new.before = row[f].before
        /\ new.after = row[f].after /\ new.previous = row[f].previous
    BY RowFacts DEF Records, IInv
  <2> HIDE DEF r, new
  <2>4. /\ undo'[u] = r /\ \A v \in Undos : v # u => undo'[v] = undo[v]
        /\ disk' \in [Files -> Versions] /\ row' \in [Files -> Records(Versions)] /\ row'[f] = new
        /\ \A g \in Files : g # f => disk'[g] = disk[g] /\ row'[g] = row[g]
    BY <1>1, <2>1, <2>3 DEF IInv, Types
  <2>5. FileInv(f)'
    <3>1. FileInv(f) /\ UndoFileOK(u, f) /\ disk' = disk /\ kept' = kept /\ mixed' = mixed /\ call' = call
      BY <1>1 DEF IInv, FileInv
    <3>2. f \notin mixed => disk[f] = kept[f]
      BY <1>1, <1>2, <3>1 DEF UndoFileOK
    <3>3. RowOK(f)' /\ FileOK(f)'
      BY <1>4, <2>3, <2>4, <3>1, <3>2 DEF FileInv, RowOK, FileOK, Open, None
    <3>4. \A c \in Calls : CallFileOK(c, f)' /\ ~Works(c, f)'
      BY <2>3, <2>4 DEF CallFileOK, Works
    <3>5. ASSUME NEW v \in Undos PROVE UndoFileOK(v, f)'
      <4>1. UndoFileOK(v, f)
        BY <3>1 DEF FileInv
      <4>2. v # u \/ f \notin undo'[v].todo
        BY <2>2, <2>4
      <4> QED
        BY <2>3, <2>4, <3>1, <3>2, <3>4, <4>1, <4>2 DEF UndoFileOK, None
    <3> QED
      BY <3>3, <3>4, <3>5 DEF FileInv
  <2>6. ~Open(row'[f])
    BY <2>3, <2>4 DEF Open
  <2> QED
    BY <1>1, <1>2, <2>1, <2>2, <2>4, <2>5, <2>6, UndoMoves
<1> QED
  BY <1>2, <1>3, <1>4 DEF UndoMark

\* An edit of the user's, at any moment.
LEMMA UserEditsIInv == ASSUME IInv, UserEdits PROVE IInv'
<1>1. UNCHANGED <<session, row, call, undo, late>>
  BY DEF UserEdits
<1>2. PICK f \in Files, v \in Versions :
        /\ disk' = [disk EXCEPT ![f] = v] /\ kept' = [kept EXCEPT ![f] = v]
        /\ mixed' = IF InWindow(f) \/ IsExpected(f, v) THEN mixed \cup {f} ELSE mixed
  BY DEF UserEdits
<1>3. Goal \notin Files
  BY UndoAssumption DEF Goal
<1>4. /\ disk' \in [Files -> Versions] /\ disk'[f] = v /\ kept'[f] = v /\ kept'[Goal] = kept[Goal]
      /\ \A g \in Files : g # f => disk'[g] = disk[g] /\ kept'[g] = kept[g]
      /\ kept' \in [Files \cup {Goal} -> Versions \cup Goals] /\ \A g \in Files : kept'[g] \in Versions
  BY <1>2, <1>3 DEF IInv, Types
<1>5. mixed \subseteq mixed' /\ mixed' \subseteq Files \cup {Goal} /\ (Goal \in mixed' <=> Goal \in mixed)
  BY <1>2, <1>3 DEF IInv, Types
<1>6. UNCHANGED <<goal, checkpoint, turn, recorded, messages, row, call, undo, late>>
  BY <1>1 DEF session
<1>7. Types'
  BY <1>4, <1>5, <1>6 DEF IInv, Types
<1>8. ASSUME NEW g \in Files, g # f PROVE FileInv(g)'
  BY <1>4, <1>5, <1>6, <1>8, FileFrame, CallRests, RequestRests DEF IInv
<1>9. FileInv(f)'
  <2>1. FileInv(f)
    BY DEF IInv
  <2>2. f \notin mixed' => f \notin mixed /\ ~InWindow(f) /\ ~IsExpected(f, v)
    BY <1>2
  <2>3. RowOK(f)' /\ FileOK(f)'
    BY <1>4, <1>6, <2>1 DEF FileInv, RowOK, FileOK, NoRow
  <2>4. ASSUME NEW c \in Calls PROVE CallFileOK(c, f)' /\ (Works(c, f)' <=> Works(c, f))
    <3>1. CallFileOK(c, f)
      BY <2>1 DEF FileInv
    <3>2. Works(c, f)' <=> Works(c, f)
      BY <1>6 DEF Works
    <3>3. f \notin mixed' /\ Works(c, f) => ~(call[c].pc = "rename" /\ call[c].snapshot[f] # Absent)
      BY <2>2 DEF InWindow, At, Works
    <3> QED
      BY <1>4, <1>6, <3>1, <3>2, <3>3 DEF CallFileOK
  <2>5. \A c \in Calls : Works(c, f)' /\ call'[c].pc \in Before => Works(c, f) /\ call[c].pc \in Before
    BY <1>6, <2>4
  <2>6. ASSUME NEW u \in Undos PROVE UndoFileOK(u, f)'
    <3>1. UndoFileOK(u, f)
      BY <2>1 DEF FileInv
    <3>2. f \notin mixed' /\ f \in undo[u].todo =>
            /\ v = undo[u].expected[f] => v = undo[u].before[f]
            /\ ~(undo[u].pc = "rename" /\ undo[u].file = f)
      BY <2>2 DEF InWindow, IsExpected
    <3> QED
      BY <1>4, <1>6, <2>2, <2>5, <3>1, <3>2 DEF UndoFileOK
  <2> QED
    BY <2>3, <2>4, <2>6 DEF FileInv
<1>10. GoalOK'
  BY <1>4, <1>5, <1>6, GoalFrame DEF IInv
<1>11. MarkerOK' /\ (\A c \in Calls : CallOK(c)') /\ \A u \in Undos : UndoOK(u)' /\ Sees(u)'
  BY <1>6 DEF IInv, MarkerOK, UndoneOnce, Marked, Open, CallOK, UndoOK, Sees
<1> QED
  BY <1>7, <1>8, <1>9, <1>10, <1>11 DEF IInv

-----------------------------------------------------------------------------
(* The invariant, and the theorems.                                         *)

\* Every step keeps the invariant.
LEMMA NextIInv == ASSUME IInv, [Next]_vars PROVE IInv'
<1>1. CASE UNCHANGED vars
  <2>1. UNCHANGED <<disk, row, goal, checkpoint, turn, recorded, call, undo, messages, kept, mixed, late>>
    BY <1>1 DEF vars
  <2>2. GoalOK'
    BY <2>1 DEF IInv, GoalOK, GoalIsOwn, Open, NoRow
  <2> QED
    BY <2>1, <2>2, Aside, CheckpointFacts DEF IInv, Types
<1>2. ASSUME NEW c \in Calls, Edit(c) PROVE IInv'
  BY <1>2, PrepareIInv, PlanIInv, CheckFileIInv, RenameIInv, WriteFailsIInv, CompleteIInv, AbortIInv,
     CallDroppedIInv DEF Edit
<1>3. ASSUME NEW c \in Calls, GoalCall(c) PROVE IInv'
  BY <1>3, GoalReadsIInv, GoalBeginsIInv, GoalSetIInv, GoalFailsIInv, GoalFinishesIInv, GoalLooksIInv,
     GoalRestoresIInv DEF GoalCall
<1>4. ASSUME NEW u \in Undos, Undo(u) PROVE IInv'
  BY <1>4, UndoStartIInv, UndoFileIInv, UndoRenameIInv, UndoMarkIInv, UndoGoalIInv, UndoGoalLooksIInv,
     UndoGoalWritesIInv, UndoMarkerIInv, UndoErrorIInv DEF Undo
<1>5. CASE TurnStep \/ UserEdits \/ UserSetsGoal \/ NewPrompt \/ Crash
  BY <1>5, TurnEndsIInv, RecordGoalIInv, RefreshGoalIInv, UserEditsIInv, UserSetsGoalIInv,
     NewPromptIInv, CrashIInv DEF TurnStep
<1> QED
  BY <1>1, <1>2, <1>3, <1>4, <1>5 DEF Next

\* The inductive invariant holds in every behaviour.
THEOREM Invariance == Spec => []IInv
<1>1. Init => IInv
  BY InitIInv
<1>2. IInv /\ [Next]_vars => IInv'
  BY NextIInv
<1> QED
  BY <1>1, <1>2, PTL DEF Spec

\* What the invariant says of the properties.
LEMMA IInvImplies == ASSUME IInv PROVE RecordsConsistent /\ UndoneOnce /\ UndoRestores
<1>1. UndoneOnce
  BY DEF IInv, MarkerOK
<1>2. TypeOK
  <2>1. messages \in Seq({"turn", "later", "undo"})
    <3>1. /\ <<"turn">> \in Seq({"turn", "later", "undo"})
          /\ <<"turn", "later">> \in Seq({"turn", "later", "undo"})
          /\ <<"turn", "undo">> \in Seq({"turn", "later", "undo"})
          /\ <<"turn", "undo", "later">> \in Seq({"turn", "later", "undo"})
      OBVIOUS
    <3> QED
      BY <1>1, <3>1 DEF UndoneOnce
  <2>2. \A f \in Files : row[f].previous # Absent => row[f].state \in {"planned", "undone"}
    BY DEF IInv, FileInv, RowOK
  <2>3. (\A c \in Calls : call[c].todo \subseteq Files) /\ \A u \in Undos : undo[u].todo \subseteq Files
    BY CallFacts, RequestFacts DEF IInv
  <2> QED
    BY <2>1, <2>2, <2>3 DEF IInv, Types, TypeOK, Turns
<1>3. ChangeIsRecorded
  BY DEF IInv, FileInv, FileOK, ChangeIsRecorded
<1>4. UndoRestores
  <2> SUFFICES ASSUME Contains(messages, "undo")
               PROVE  /\ \A f \in Files \ (mixed \cup late) : disk[f] = kept[f]
                      /\ Goal \in mixed \cup late \/ goal = kept[Goal]
    BY DEF UndoRestores
  <2>1. (\A f \in Files : Open(row[f]) => f \in late) /\ (Open(checkpoint) => Goal \in late)
    BY <1>1, MarkedContains DEF IInv, MarkerOK
  <2>2. ASSUME NEW f \in Files, f \notin mixed \cup late PROVE disk[f] = kept[f]
    BY <2>1, <2>2 DEF IInv, FileInv, FileOK
  <2>3. Goal \notin mixed \cup late => goal = kept[Goal]
    BY <2>1 DEF IInv, GoalOK
  <2> QED
    BY <2>2, <2>3
<1> QED
  BY <1>1, <1>2, <1>3, <1>4 DEF RecordsConsistent

\* The records of a turn fit the files at every step, of any number of calls and
\* requests next to each other, of the user and of crashes: a file that is not as it
\* would be without the turn has an open record with the content to put back and the
\* content that is there (plan_turn_file_change before replace_workspace_file).
THEOREM ChangesStayRecorded == Spec => []RecordsConsistent
<1>1. IInv => RecordsConsistent
  BY IInvImplies
<1> QED
  BY <1>1, Invariance, PTL

\* A conversation is undone at most once, and only directly after its turn, however many
\* requests race with each other and with the next prompt (append_conversation_undo).
THEOREM ConversationIsUndoneOnce == Spec => []UndoneOnce
<1>1. IInv => UndoneOnce
  BY IInvImplies
<1> QED
  BY <1>1, Invariance, PTL

\* When undo_turn has added its marker, files and goal are what they would be without
\* the turn, but where a race was lost or the turn made its first change after the undo
\* had looked; also after several attempts, and next to calls that still run.
THEOREM UndoPutsBack == Spec => []UndoRestores
<1>1. IInv => UndoRestores
  BY IInvImplies
<1> QED
  BY <1>1, Invariance, PTL
=============================================================================
