-------------------------- MODULE PauseResumeProofs --------------------------
(***************************************************************************)
(* Proofs about PauseResume for any number of tasks, pauses, requests and  *)
(* restarts: barriers have owners and keep the turn from being opened, two *)
(* tasks never execute the turn at once, an outcome is final, and the      *)
(* answer to a tool-limit question is carried out or given back.           *)
(***************************************************************************)
EXTENDS PauseResume, FiniteSetTheorems, SequenceTheorems, TLAPS

-----------------------------------------------------------------------------
(* Types.                                                                  *)

Statuses == {"idle", "preparing_context", "calling_model", "awaiting_input", "awaiting_approval"}
              \cup Terminal
RowType == [status : Statuses, marker : {"none", "limit", "closed"}, asks : Nat]
QuestionType == [kind : Kinds, status : {"pending", "answered", "cancelled"},
                 revision : Nat, action : {"none", "resume", "stop"}]
TaskType == [role : Roles, pc : Executing \cup Handling \cup {"idle"}, q : Nat, revision : Nat,
             action : {"none", "resume", "stop"}, cancelled : BOOLEAN, write : RowType]

Types ==
    /\ row \in RowType /\ row.asks <= Len(questions)
    /\ questions \in Seq(QuestionType)
    /\ session \in {"active", "archived"}
    /\ scope \in Tasks \cup {NoTask} /\ blocks \in Nat
    /\ closed \in BOOLEAN /\ cancelAsked \in BOOLEAN /\ everClosed \in BOOLEAN
    /\ tasks \in [Tasks -> TaskType]
    /\ \A t \in Tasks : tasks[t].q <= Len(questions) /\ tasks[t].write.asks <= Len(questions)

-----------------------------------------------------------------------------
(* The inductive invariant: where a task may be, and what it knows there.  *)

Resolving == {"resume", "await", "claim", "unclaimed", "open", "refused", "confirm", "spawn",
              "unwind", "stop", "stopping", "unstopped", "rollback", "token", "restore", "reopen"}
Cancelling == {"cancel", "barrier", "drain", "latest", "unblock", "signal",
               "stop", "stopping", "unstopped"}
GivingBack == {"early", "rollback", "token", "restore", "reopen"}

\* The places of each role; only a task that carries out a decision has a question.
PlaceOK(t) ==
    /\ tasks[t].role = "none" <=> tasks[t].pc = "idle"
    /\ tasks[t].role = "none" => tasks[t].q = 0 /\ tasks[t].cancelled = FALSE
    /\ tasks[t].role = "run" => \/ tasks[t].pc \in Executing
                                \/ tasks[t].pc \in GivingBack /\ tasks[t].q # 0
    /\ tasks[t].role = "answer" => tasks[t].pc \in Resolving \cup {"answered"} /\ tasks[t].q # 0
    /\ tasks[t].role = "reconcile" => tasks[t].pc \in Resolving \cup {"reconcile"} /\ tasks[t].q # 0
    /\ tasks[t].role = "cancel" => tasks[t].pc \in Cancelling /\ tasks[t].q = 0 /\ cancelAsked
    /\ tasks[t].role = "close" => tasks[t].pc = "close_scope" /\ tasks[t].q = 0 /\ everClosed
    /\ tasks[t].role = "restore" => tasks[t].pc = "reopen_scope" /\ tasks[t].q = 0
    /\ tasks[t].cancelled => cancelAsked \/ everClosed

Kind(q) == questions[q].kind

\* A question is in the hands of one task, and stays answered while it is.
HandOK(t) ==
    tasks[t].q # 0 =>
        /\ StillAnswered(t)
        /\ tasks[t].pc \in {"claim", "unclaimed", "refused", "confirm", "spawn", "unwind", "stop",
                            "stopping", "unstopped", "early", "token", "restore", "reconcile"}
             => Kind(tasks[t].q) = "limit"
        /\ \A u \in Tasks : tasks[u].q = tasks[t].q => u = t

\* What the row and the writes to come say about the question they await.
WriteOK(t) ==
    /\ tasks[t].pc = "asked" => Len(questions) > 0
    /\ tasks[t].pc = "pause" => "limit" \in Kinds
    /\ tasks[t].pc \in {"check", "write"} =>
         /\ tasks[t].write.marker # "closed"
         /\ tasks[t].write.marker = "limit" =>
              /\ tasks[t].write.status = "calling_model"
              /\ tasks[t].write.asks # 0 /\ Kind(tasks[t].write.asks) = "limit"
         /\ tasks[t].write.status = "awaiting_approval" =>
              tasks[t].write.asks # 0 /\ Kind(tasks[t].write.asks) = "approval"
         /\ tasks[t].write.status = "preparing_context" => tasks[t].write.asks = 0
RowOK ==
    /\ row.marker = "limit" => row.asks # 0 /\ Kind(row.asks) = "limit"
    /\ row.status = "awaiting_approval" => row.asks # 0 /\ Kind(row.asks) = "approval"

\* The scope of the registry and the barrier against opening one.
Holding == Executing \cup {"early", "confirm", "spawn", "unwind"}
ScopeOK(t) ==
    /\ scope = t => tasks[t].pc \in Holding
    /\ ~everClosed /\ tasks[t].pc \in Holding => scope = t
Blocking == {t \in Tasks : tasks[t].role = "cancel" /\ tasks[t].pc \notin {"cancel", "barrier", "signal"}}
BarrierOK(t) ==
    tasks[t].role = "cancel" /\ tasks[t].pc \in {"latest", "stop", "stopping", "unstopped"}
    => scope = NoTask

\* The reconciliation after a restart is alone.
ReconcileOK(t) ==
    /\ tasks[t].role = "reconcile" => \A u \in Tasks : u # t => tasks[u].role = "none"
    /\ tasks[t].pc = "reconcile" => PreExecution /\ row.asks = tasks[t].q

\* With one approval at most, the row decides who may go on.
OneApproval ==
    \A p, q \in DOMAIN questions : Kind(p) = "approval" /\ Kind(q) = "approval" => p = q

RowPaused ==
    \/ row.status \in {"awaiting_input", "awaiting_approval"}
    \/ row.status = "preparing_context" /\ row.marker = "limit"
Active == {"check", "write", "running", "asked", "pause"}
Past == {"await", "claim", "unclaimed", "open", "refused", "confirm", "spawn", "stop", "stopping",
         "unstopped", "token", "restore", "reopen"}
InPast(t) == tasks[t].q # 0 /\ tasks[t].pc \in Past
First(t) == /\ tasks[t].pc \in {"check", "write"} /\ tasks[t].write.status = "calling_model"
            /\ tasks[t].q # 0

\* A task that executes the turn or is past its look at the row is the only one.
Engaged(t) == tasks[t].pc \in Active \/ InPast(t)

TurnOK(t) ==
    /\ RowPaused /\ tasks[t].pc \in Active => First(t) /\ tasks[t].q = row.asks
    /\ InPast(t) /\ row.status \notin Terminal => RowPaused /\ row.asks = tasks[t].q
    /\ Engaged(t) => \A u \in Tasks : u # t => ~Engaged(u)
    /\ tasks[t].pc = "asked" => Kind(Len(questions)) # "limit"
    /\ tasks[t].pc \in {"check", "write"} /\ tasks[t].write.status = "awaiting_input"
         => tasks[t].write.asks # 0 /\ Kind(tasks[t].write.asks) # "limit"
PauseOK ==
    /\ row.status \in {"awaiting_input", "preparing_context"} /\ row.asks # 0
         /\ Kind(row.asks) = "limit" => row.marker = "limit"
    /\ row.status = "preparing_context" /\ row.marker = "limit"
         => questions[row.asks].status = "answered"

\* While the session is not closed: outcomes and decisions are kept.
Prepared(q) == row.status = "preparing_context" /\ row.asks = q
Awaited(q) == row.status = "awaiting_input" /\ row.asks = q
Waits(q) == Prepared(q) \/ Awaited(q)
KeptOK(t) ==
    /\ tasks[t].pc = "write" => row.status \notin Terminal
    /\ tasks[t].q # 0 /\ Kind(tasks[t].q) = "limit" =>
         /\ tasks[t].pc \in {"answered", "resume", "await", "claim", "unclaimed", "stop", "stopping",
                             "unstopped", "reopen", "fail", "finish"} => ~Prepared(tasks[t].q)
         /\ tasks[t].pc \in Executing \cup {"open", "refused", "confirm", "spawn", "unwind", "early",
                                           "unclaimed", "token", "restore"} => ~Awaited(tasks[t].q)
         /\ \/ tasks[t].pc = "claim" /\ Awaited(tasks[t].q)
            \/ tasks[t].pc \in {"open", "refused", "rollback", "token", "restore"}
                 /\ Prepared(tasks[t].q)
            => scope = NoTask
         /\ tasks[t].pc = "unwind" /\ Prepared(tasks[t].q) => cancelAsked

DecisionKept == Stranded("limit") => cancelAsked /\ row.status = "preparing_context"

TaskOK(t) == PlaceOK(t) /\ HandOK(t) /\ WriteOK(t) /\ ScopeOK(t) /\ BarrierOK(t) /\ ReconcileOK(t)

IInv ==
    /\ Types /\ blocks = Cardinality(Blocking) /\ (closed => everClosed) /\ RowOK
    /\ \A t \in Tasks : TaskOK(t)
    /\ OneApproval => PauseOK /\ \A t \in Tasks : TurnOK(t)
    /\ OneApproval /\ ~everClosed => DecisionKept /\ \A t \in Tasks : KeptOK(t)

-----------------------------------------------------------------------------
(* Tasks.                                                                  *)

Places == Executing \cup Handling \cup {"idle"}

\* An idle task.
LEMMA IdleType ==
    /\ Idle \in TaskType /\ Idle.role = "none" /\ Idle.pc = "idle" /\ Idle.q = 0
    /\ Idle.cancelled = FALSE /\ Idle.write.asks = 0
BY DEF Idle, TaskType, Roles, RowType, Row, Statuses

\* One task is replaced, the others stay.
Replaced(t, n) == \A u \in Tasks : tasks'[u] = IF u = t THEN n ELSE tasks[u]

\* Replacing one task keeps the type of the tasks.
LEMMA ReplaceFacts ==
    ASSUME tasks \in [Tasks -> TaskType], NEW t \in Tasks, NEW n \in TaskType,
           tasks' = [tasks EXCEPT ![t] = n]
    PROVE  tasks' \in [Tasks -> TaskType] /\ Replaced(t, n)
BY DEF Replaced

\* A task goes to another place, and may have something to write.
At(n, pc) == [n EXCEPT !.pc = pc]
AtWrite(n, pc, w) == [n EXCEPT !.pc = pc, !.write = w]
AsRun(n, w) == [n EXCEPT !.role = "run", !.pc = "check", !.write = w]
Cancelled(n) == [n EXCEPT !.cancelled = TRUE]

\* The fields of a task at another place.
LEMMA AtFacts ==
    ASSUME NEW n \in TaskType, NEW pc \in Places
    PROVE  /\ At(n, pc) \in TaskType /\ At(n, pc).role = n.role /\ At(n, pc).pc = pc
           /\ At(n, pc).q = n.q /\ At(n, pc).revision = n.revision /\ At(n, pc).action = n.action
           /\ At(n, pc).cancelled = n.cancelled /\ At(n, pc).write = n.write
BY DEF TaskType, At, Places

\* The fields of a task that has something to write.
LEMMA AtWriteFacts ==
    ASSUME NEW n \in TaskType, NEW pc \in Places, NEW w \in RowType
    PROVE  /\ AtWrite(n, pc, w) \in TaskType /\ AtWrite(n, pc, w).role = n.role
           /\ AtWrite(n, pc, w).pc = pc /\ AtWrite(n, pc, w).q = n.q
           /\ AtWrite(n, pc, w).revision = n.revision /\ AtWrite(n, pc, w).action = n.action
           /\ AtWrite(n, pc, w).cancelled = n.cancelled /\ AtWrite(n, pc, w).write = w
BY DEF TaskType, AtWrite, Places

\* The fields of a task that becomes the executing one.
LEMMA AsRunFacts ==
    ASSUME NEW n \in TaskType, NEW w \in RowType
    PROVE  /\ AsRun(n, w) \in TaskType /\ AsRun(n, w).role = "run"
           /\ AsRun(n, w).pc = "check" /\ AsRun(n, w).q = n.q
           /\ AsRun(n, w).revision = n.revision /\ AsRun(n, w).action = n.action
           /\ AsRun(n, w).cancelled = n.cancelled /\ AsRun(n, w).write = w
BY DEF TaskType, AsRun, Roles, Executing

\* The fields of a task whose token is cancelled.
LEMMA CancelledFacts ==
    ASSUME NEW n \in TaskType
    PROVE  /\ Cancelled(n) \in TaskType /\ Cancelled(n).role = n.role /\ Cancelled(n).pc = n.pc
           /\ Cancelled(n).q = n.q /\ Cancelled(n).revision = n.revision
           /\ Cancelled(n).action = n.action /\ Cancelled(n).cancelled = TRUE
           /\ Cancelled(n).write = n.write
BY DEF TaskType, Cancelled

\* Goto replaces one task ...
LEMMA GotoFacts ==
    ASSUME tasks \in [Tasks -> TaskType], NEW t \in Tasks, NEW pc \in Places, Goto(t, pc)
    PROVE  tasks' = [tasks EXCEPT ![t] = At(tasks[t], pc)]
BY DEF Goto, At

\* ... and so do Done, ...
LEMMA DoneFacts ==
    ASSUME tasks \in [Tasks -> TaskType], NEW t \in Tasks, Done(t)
    PROVE  tasks' = [tasks EXCEPT ![t] = Idle]
BY DEF Done

\* ... Update ...
LEMMA UpdateFacts ==
    ASSUME tasks \in [Tasks -> TaskType], NEW t \in Tasks, NEW w, Update(t, w)
    PROVE  tasks' = [tasks EXCEPT ![t] = AtWrite(tasks[t], "check", w)]
BY DEF Update, AtWrite

\* ... and Execute.
LEMMA ExecuteFacts ==
    ASSUME tasks \in [Tasks -> TaskType], NEW t \in Tasks, Execute(t)
    PROVE  tasks' = [tasks EXCEPT ![t] = AsRun(tasks[t], Resumed(t))]
BY DEF Execute, AsRun

\* The fields of a row.
LEMMA RowFacts ==
    ASSUME NEW st \in Statuses, NEW m \in {"none", "limit", "closed"}, NEW a \in Nat
    PROVE  /\ Row(st, m, a) \in RowType /\ Row(st, m, a).status = st
           /\ Row(st, m, a).marker = m /\ Row(st, m, a).asks = a
BY DEF Row, RowType

-----------------------------------------------------------------------------
(* Steps that change one task, and others at most in their token.          *)

Same(u) ==
    /\ tasks'[u].role = tasks[u].role /\ tasks'[u].pc = tasks[u].pc /\ tasks'[u].q = tasks[u].q
    /\ tasks'[u].revision = tasks[u].revision /\ tasks'[u].write = tasks[u].write
    /\ tasks'[u].cancelled => tasks[u].cancelled \/ (tasks[u].role # "none" /\ (cancelAsked' \/ everClosed'))

Others(t) ==
    \A u \in Tasks : u # t =>
      Same(u) /\ tasks[u].role # "reconcile" /\ ScopeOK(u)' /\ BarrierOK(u)'

Steady ==
    /\ session' \in {"active", "archived"} /\ scope' \in Tasks \cup {NoTask}
    /\ blocks' \in Nat /\ blocks' = Cardinality(Blocking)'
    /\ closed' \in BOOLEAN /\ (closed' => everClosed')
    /\ cancelAsked' \in BOOLEAN /\ everClosed' \in BOOLEAN
    /\ (cancelAsked => cancelAsked') /\ (everClosed => everClosed')

\* Questions are added, and those in the hands of other tasks stay as they are.
QuestionsGrow(t) ==
    /\ questions' \in Seq(QuestionType) /\ Len(questions) <= Len(questions')
    /\ \A q \in 1..Len(questions) : questions'[q].kind = questions[q].kind
    /\ \A u \in Tasks : u # t /\ tasks[u].q # 0 =>
         /\ questions'[tasks[u].q].status = questions[tasks[u].q].status
         /\ questions'[tasks[u].q].revision = questions[tasks[u].q].revision

\* What a step owes to the invariant, beyond what it leaves alone.
LEMMA StepMoves ==
    ASSUME IInv, NEW t \in Tasks, tasks' \in [Tasks -> TaskType], Others(t), Steady, QuestionsGrow(t),
           row' \in RowType, row'.asks <= Len(questions'), RowOK',
           tasks'[t].q <= Len(questions'), tasks'[t].write.asks <= Len(questions'),
           tasks'[t].q # 0 => \A u \in Tasks : u # t => tasks[u].q # tasks'[t].q,
           tasks'[t].role = "reconcile" => tasks[t].role = "reconcile",
           TaskOK(t)',
           OneApproval' => PauseOK' /\ \A u \in Tasks : TurnOK(u)',
           OneApproval' /\ ~everClosed' => DecisionKept' /\ \A u \in Tasks : KeptOK(u)'
    PROVE  IInv'
<1>1. Types /\ \A u \in Tasks : TaskOK(u)
  BY DEF IInv
<1>2. Len(questions) \in Nat /\ Len(questions') \in Nat
  BY <1>1 DEF Types, QuestionsGrow
<1>3. Types'
  <2>1. ASSUME NEW u \in Tasks PROVE tasks'[u].q <= Len(questions') /\ tasks'[u].write.asks <= Len(questions')
    <3>1. CASE u # t
      <4>1. tasks[u].q <= Len(questions) /\ tasks[u].write.asks <= Len(questions)
            /\ tasks[u].q \in Nat /\ tasks[u].write.asks \in Nat /\ Len(questions) <= Len(questions')
        BY <1>1 DEF Types, TaskType, RowType, QuestionsGrow
      <4>2. tasks'[u].q = tasks[u].q /\ tasks'[u].write = tasks[u].write
        BY <3>1 DEF Others, Same
      <4> QED
        BY <1>2, <4>1, <4>2
    <3> QED
      BY <3>1
  <2> QED
    BY <2>1 DEF Types, QuestionsGrow, Steady
<1>4. ASSUME NEW u \in Tasks, u # t PROVE TaskOK(u)'
  <2>1. TaskOK(u) /\ Same(u) /\ tasks[u].role # "reconcile" /\ ScopeOK(u)' /\ BarrierOK(u)'
    BY <1>1, <1>4 DEF Others
  <2>2. tasks[u] \in TaskType /\ tasks[u].q \in 0..Len(questions)
        /\ tasks[u].write.asks \in 0..Len(questions)
    BY <1>1, <1>2 DEF Types, TaskType, RowType
  <2>3. PlaceOK(u)'
    BY <2>1 DEF TaskOK, PlaceOK, Same, Steady
  <2>4. WriteOK(u)'
    BY <1>2, <2>1, <2>2 DEF TaskOK, WriteOK, Same, QuestionsGrow, Kind
  <2>5. HandOK(u)'
    <3> SUFFICES ASSUME tasks'[u].q # 0 PROVE HandOK(u)'
      BY DEF HandOK
    <3>1. tasks[u].q # 0 /\ HandOK(u) /\ tasks'[u].q = tasks[u].q /\ tasks[u].q \in 1..Len(questions)
      BY <2>1, <2>2 DEF TaskOK, Same
    <3>2. StillAnswered(u)' /\ Kind(tasks[u].q)' = Kind(tasks[u].q)
      BY <1>4, <2>1, <3>1 DEF HandOK, StillAnswered, QuestionsGrow, Same, Kind
    <3>3. ASSUME NEW v \in Tasks, tasks'[v].q = tasks'[u].q PROVE v = u
      BY <1>4, <3>1, <3>3 DEF HandOK, Others, Same
    <3> QED
      BY <2>1, <3>1, <3>2, <3>3 DEF HandOK, Same, Kind
  <2>6. ReconcileOK(u)'
    <3>1. tasks[u].role \in Roles /\ PlaceOK(u)
      BY <2>1, <2>2 DEF TaskOK, TaskType
    <3>2. tasks[u].pc # "reconcile"
      BY <2>1, <3>1 DEF PlaceOK, Roles, Resolving, GivingBack, Executing, Cancelling
    <3> QED
      BY <2>1, <3>2 DEF ReconcileOK, Same
  <2> QED
    BY <2>1, <2>3, <2>4, <2>5, <2>6 DEF TaskOK
<1> QED
  BY <1>3, <1>4 DEF IInv, Steady

\* A step that leaves the rows alone keeps the invariant if the task is right at its
\* new place and lets no decision drop, and a scope is opened only over a turn that
\* no other task is to resume.
LEMMA RowsStay ==
    ASSUME IInv, NEW t \in Tasks, tasks' \in [Tasks -> TaskType], Others(t), Steady,
           UNCHANGED <<row, questions>>,
           tasks'[t].q = tasks[t].q \/ tasks'[t].q = 0, tasks'[t].q # 0 => tasks'[t].pc # "idle",
           tasks'[t].write.asks <= Len(questions),
           tasks'[t].role = "reconcile" => tasks[t].role = "reconcile",
           TaskOK(t)',
           OneApproval => TurnOK(t)',
           OneApproval /\ ~everClosed' => KeptOK(t)',
           OneApproval /\ ~everClosed' =>
             \/ scope' = scope \/ scope' = NoTask
             \/ \A u \in Tasks : u # t /\ tasks[u].q # 0 => ~Waits(tasks[u].q),
           OneApproval /\ ~everClosed' /\ tasks'[t].q = 0 /\ tasks[t].q # 0
             /\ Kind(tasks[t].q) = "limit" /\ Waits(tasks[t].q)
             => cancelAsked /\ row.status = "preparing_context"
    PROVE  IInv'
<1>1. /\ Types /\ \A u \in Tasks : TaskOK(u)
      /\ OneApproval => PauseOK /\ \A u \in Tasks : TurnOK(u)
      /\ OneApproval /\ ~everClosed => DecisionKept /\ \A u \in Tasks : KeptOK(u)
  BY DEF IInv
<1>2. QuestionsGrow(t) /\ row' \in RowType /\ row'.asks <= Len(questions') /\ RowOK'
  BY DEF IInv, Types, QuestionsGrow, RowOK, Kind
<1>3. tasks'[t].q <= Len(questions') /\ tasks'[t].write.asks <= Len(questions')
  BY <1>1 DEF Types
<1>4. tasks'[t].q # 0 => \A u \in Tasks : u # t => tasks[u].q # tasks'[t].q
  BY <1>1 DEF TaskOK, HandOK
<1>5. ASSUME OneApproval' PROVE PauseOK' /\ \A u \in Tasks : TurnOK(u)'
  <2>1. OneApproval
    BY <1>5 DEF OneApproval, Kind
  <2>2. PauseOK'
    BY <1>1, <2>1 DEF PauseOK, Kind
  <2>3. ASSUME NEW u \in Tasks, u # t PROVE TurnOK(u)'
    <3>1. TurnOK(u) /\ Same(u) /\ (Engaged(u)' <=> Engaged(u))
      BY <1>1, <2>1, <2>3 DEF Others, Same, Engaged, InPast
    <3>2. Engaged(u)' => \A v \in Tasks : v # u => ~Engaged(v)'
      <4> SUFFICES ASSUME Engaged(u)', NEW v \in Tasks, v # u PROVE ~Engaged(v)'
        OBVIOUS
      <4>1. CASE v = t
        BY <2>1, <2>3, <4>1 DEF TurnOK
      <4>2. CASE v # t
        BY <3>1, <4>2 DEF TurnOK, Others, Same, Engaged, InPast
      <4> QED
        BY <4>1, <4>2
    <3> QED
      BY <3>1, <3>2 DEF TurnOK, InPast, First, RowPaused, Kind, Same
  <2> QED
    BY <2>1, <2>2, <2>3
<1>6. ASSUME OneApproval', ~everClosed' PROVE DecisionKept' /\ \A u \in Tasks : KeptOK(u)'
  <2>1. OneApproval /\ ~everClosed /\ DecisionKept /\ \A u \in Tasks : KeptOK(u)
    BY <1>1, <1>6 DEF OneApproval, Kind, Steady
  <2>2. ASSUME NEW u \in Tasks, u # t PROVE KeptOK(u)'
    <3>1. KeptOK(u) /\ Same(u)
      BY <2>1, <2>2 DEF Others
    <3>2. \/ scope' = scope \/ scope' = NoTask
          \/ tasks[u].q # 0 => ~Waits(tasks[u].q)
      BY <1>6, <2>1, <2>2
    <3> QED
      BY <3>1, <3>2 DEF KeptOK, Prepared, Awaited, Waits, Same, Kind, Steady
  <2>3. DecisionKept'
    <3> SUFFICES ASSUME Stranded("limit")' PROVE cancelAsked' /\ row'.status = "preparing_context"
      BY DEF DecisionKept
    <3>1. row.status \in {"awaiting_input", "preparing_context"} /\ row.asks # 0
          /\ Kind(row.asks) = "limit" /\ questions[row.asks].status = "answered"
          /\ ~InHand(row.asks)'
      BY DEF Stranded, Kind
    <3>2. CASE InHand(row.asks)
      <4>1. PICK u \in Tasks : tasks[u].q = row.asks /\ tasks[u].pc # "idle"
        BY <3>2 DEF InHand
      <4>2. u = t
        BY <3>1, <4>1 DEF InHand, Others, Same
      <4>3. tasks'[t].q = 0
        BY <3>1, <4>1, <4>2 DEF InHand
      <4> QED
        BY <1>6, <2>1, <3>1, <4>1, <4>2, <4>3 DEF Waits, Prepared, Awaited, Steady
    <3>3. CASE ~InHand(row.asks)
      BY <2>1, <3>1, <3>3 DEF DecisionKept, Stranded, Kind, Steady
    <3> QED
      BY <3>2, <3>3
  <2> QED
    BY <1>6, <2>1, <2>2, <2>3
<1> QED
  BY <1>2, <1>3, <1>4, <1>5, <1>6, StepMoves

still == <<row, questions, session, scope, blocks, closed, cancelAsked, everClosed>>

\* While a task acts, no other one reconciles.
LEMMA NobodyReconciles ==
    ASSUME IInv, NEW t \in Tasks, tasks[t].role # "none", NEW u \in Tasks, u # t
    PROVE  tasks[u].role # "reconcile"
BY DEF IInv, TaskOK, ReconcileOK

\* Nothing but one task changes.
LEMMA TaskMoves ==
    ASSUME IInv, NEW t \in Tasks, NEW n \in TaskType, tasks' = [tasks EXCEPT ![t] = n],
           UNCHANGED still, tasks[t].role # "none",
           n.q = tasks[t].q \/ n.q = 0, n.write.asks <= Len(questions),
           n.role = "reconcile" => tasks[t].role = "reconcile",
           TaskOK(t)', t \in Blocking <=> t \in Blocking',
           OneApproval => TurnOK(t)',
           OneApproval /\ ~everClosed => KeptOK(t)',
           OneApproval /\ ~everClosed /\ n.q = 0 /\ tasks[t].q # 0 /\ Kind(tasks[t].q) = "limit"
             /\ Waits(tasks[t].q) => cancelAsked /\ row.status = "preparing_context",
           n.q # 0 => n.pc # "idle"
    PROVE  IInv'
<1>1. Types /\ tasks \in [Tasks -> TaskType] /\ \A u \in Tasks : TaskOK(u)
  BY DEF IInv, Types
<1>2. tasks' \in [Tasks -> TaskType] /\ Replaced(t, n) /\ tasks'[t] = n
  BY <1>1, ReplaceFacts DEF Replaced
<1>3. Blocking' = Blocking
  BY <1>2 DEF Blocking, Replaced
<1>4. Steady
  BY <1>1, <1>3 DEF IInv, Types, Steady, still
<1>5. Others(t)
  <2> SUFFICES ASSUME NEW u \in Tasks, u # t
               PROVE  Same(u) /\ tasks[u].role # "reconcile" /\ ScopeOK(u)' /\ BarrierOK(u)'
    BY DEF Others
  <2>1. tasks'[u] = tasks[u] /\ tasks[u].role # "reconcile" /\ TaskOK(u)
    BY <1>1, <1>2, NobodyReconciles DEF Replaced
  <2> QED
    BY <2>1 DEF Same, TaskOK, ScopeOK, BarrierOK, still
<1> QED
  BY <1>2, <1>4, <1>5, RowsStay DEF still

\* What the invariant says about one task.
LEMMA TaskFacts ==
    ASSUME IInv, NEW t \in Tasks
    PROVE  /\ Types /\ tasks \in [Tasks -> TaskType] /\ tasks[t] \in TaskType
           /\ PlaceOK(t) /\ HandOK(t) /\ WriteOK(t) /\ ScopeOK(t) /\ BarrierOK(t) /\ ReconcileOK(t)
           /\ tasks[t].write.asks <= Len(questions) /\ Len(questions) \in Nat
           /\ OneApproval => PauseOK /\ TurnOK(t)
           /\ OneApproval /\ ~everClosed => KeptOK(t)
BY DEF IInv, Types, TaskOK

LimitPlaces == {"claim", "unclaimed", "refused", "confirm", "spawn", "unwind", "stop",
                "stopping", "unstopped", "early", "token", "restore", "reconcile"}

\* A task goes on to another place and everything else stays.
LEMMA GotoMoves ==
    ASSUME IInv, NEW t \in Tasks, NEW pc \in Places, Goto(t, pc), UNCHANGED still,
           tasks[t].role # "none", pc # "idle", pc # "reconcile", PlaceOK(t)',
           pc \in LimitPlaces /\ tasks[t].q # 0 => Kind(tasks[t].q) = "limit",
           pc \in {"check", "write"} => tasks[t].pc \in {"check", "write"},
           pc = "asked" => tasks[t].pc = "asked", pc = "pause" => "limit" \in Kinds,
           pc \in Holding <=> tasks[t].pc \in Holding,
           tasks[t].role = "cancel" =>
             /\ pc \in {"latest", "stop", "stopping", "unstopped"} => scope = NoTask
             /\ pc \in {"cancel", "barrier", "signal"} <=> tasks[t].pc \in {"cancel", "barrier", "signal"},
           OneApproval => TurnOK(t)',
           OneApproval /\ ~everClosed => KeptOK(t)'
    PROVE  IInv'
<1>1. tasks \in [Tasks -> TaskType] /\ tasks[t] \in TaskType /\ HandOK(t) /\ WriteOK(t)
      /\ ScopeOK(t) /\ BarrierOK(t) /\ ReconcileOK(t) /\ tasks[t].write.asks <= Len(questions)
  BY TaskFacts
<1> DEFINE n == At(tasks[t], pc)
<1>2. n \in TaskType /\ n.role = tasks[t].role /\ n.pc = pc /\ n.q = tasks[t].q
      /\ n.revision = tasks[t].revision /\ n.cancelled = tasks[t].cancelled
      /\ n.write = tasks[t].write
  BY <1>1, AtFacts
<1>3. tasks' = [tasks EXCEPT ![t] = n]
  BY <1>1, GotoFacts
<1> HIDE DEF n
<1>4. Replaced(t, n)
  BY <1>1, <1>2, <1>3, ReplaceFacts
<1>5. HandOK(t)'
  BY <1>1, <1>2, <1>4 DEF HandOK, Replaced, StillAnswered, Kind, LimitPlaces, still
<1>6. WriteOK(t)'
  BY <1>1, <1>2, <1>4 DEF WriteOK, Replaced, Kind, still
<1>7. ScopeOK(t)' /\ BarrierOK(t)'
  BY <1>1, <1>2, <1>4 DEF ScopeOK, BarrierOK, Replaced, still
<1>8. ReconcileOK(t)'
  BY <1>1, <1>2, <1>4 DEF ReconcileOK, Replaced, still
<1>9. t \in Blocking <=> t \in Blocking'
  BY <1>2, <1>4 DEF Blocking, Replaced
<1> QED
  BY <1>1, <1>2, <1>3, <1>5, <1>6, <1>7, <1>8, <1>9, TaskMoves DEF TaskOK

\* A task is done and everything else stays.
LEMMA DoneMoves ==
    ASSUME IInv, NEW t \in Tasks, Done(t), UNCHANGED still,
           tasks[t].role \notin {"none", "cancel"}, tasks[t].pc \notin Holding,
           OneApproval /\ ~everClosed /\ tasks[t].q # 0 /\ Kind(tasks[t].q) = "limit"
             /\ Waits(tasks[t].q) => cancelAsked /\ row.status = "preparing_context"
    PROVE  IInv'
<1>1. tasks \in [Tasks -> TaskType] /\ tasks[t] \in TaskType /\ ScopeOK(t) /\ Len(questions) \in Nat
      /\ NoTask \notin Tasks
  BY TaskFacts, PauseAssumption
<1>2. tasks' = [tasks EXCEPT ![t] = Idle] /\ Replaced(t, Idle)
  BY <1>1, DoneFacts, ReplaceFacts, IdleType
<1>3. tasks'[t] = Idle
  BY <1>2 DEF Replaced
<1>4. TaskOK(t)'
  BY <1>1, <1>3, IdleType DEF TaskOK, PlaceOK, HandOK, WriteOK, ScopeOK, BarrierOK, ReconcileOK,
     Holding, Executing, still
<1>5. t \in Blocking <=> t \in Blocking'
  BY <1>3, IdleType DEF Blocking
<1>6. TurnOK(t)' /\ KeptOK(t)'
  BY <1>3, IdleType DEF TurnOK, KeptOK, Engaged, InPast, Active, Past
<1>7. Idle \in TaskType /\ Idle.q = 0 /\ Idle.write.asks <= Len(questions) /\ Idle.role # "reconcile"
  BY <1>1, IdleType
<1> QED
  BY <1>2, <1>4, <1>5, <1>6, <1>7, TaskMoves

\* The fields of a task that goes to another place.
LEMMA GotoView ==
    ASSUME IInv, NEW t \in Tasks, NEW pc \in Places, Goto(t, pc)
    PROVE  /\ tasks'[t].role = tasks[t].role /\ tasks'[t].pc = pc /\ tasks'[t].q = tasks[t].q
           /\ tasks'[t].cancelled = tasks[t].cancelled /\ tasks'[t].write = tasks[t].write
           /\ \A u \in Tasks : u # t => tasks'[u] = tasks[u]
<1>1. tasks \in [Tasks -> TaskType] /\ tasks[t] \in TaskType
  BY TaskFacts
<1>2. tasks' = [tasks EXCEPT ![t] = At(tasks[t], pc)] /\ At(tasks[t], pc) \in TaskType
  BY <1>1, GotoFacts, AtFacts
<1>3. Replaced(t, At(tasks[t], pc))
  BY <1>1, <1>2, ReplaceFacts
<1> QED
  BY <1>1, <1>3, AtFacts DEF Replaced

\* update_turn reads the row: only a turn that is not over is written.
LEMMA UpdateTurnCheckIInv ==
    ASSUME IInv, NEW t \in Tasks, UpdateTurnCheck(t)
    PROVE  IInv'
<1>1. tasks[t].pc = "check" /\ UNCHANGED still
  BY DEF UpdateTurnCheck, still, memory, bounds
<1>2. /\ PlaceOK(t) /\ HandOK(t) /\ BarrierOK(t) /\ tasks[t] \in TaskType
      /\ OneApproval => PauseOK /\ TurnOK(t)
      /\ OneApproval /\ ~everClosed => KeptOK(t)
  BY TaskFacts
<1>3. tasks[t].role \in {"run"}
  BY <1>1, <1>2 DEF PlaceOK, TaskType, Roles, Executing, Handling, Resolving, Cancelling,
     GivingBack
<1>4. ASSUME NEW pc \in {"error", "write"}, Goto(t, pc),
             pc = "write" => row.status \notin Terminal
      PROVE  IInv'
  <2>1. /\ tasks'[t].role = tasks[t].role /\ tasks'[t].pc = pc /\ tasks'[t].q = tasks[t].q
        /\ tasks'[t].cancelled = tasks[t].cancelled /\ tasks'[t].write = tasks[t].write
        /\ \A u \in Tasks : u # t => tasks'[u] = tasks[u]
    BY <1>4, GotoView DEF Places, Executing, Handling
  <2>2. PlaceOK(t)'
    BY <1>1, <1>2, <1>3, <1>4, <2>1 DEF PlaceOK, still, Roles, Executing, Handling, Resolving,
       Cancelling, GivingBack
  <2>3. OneApproval => TurnOK(t)'
    BY <1>1, <1>2, <1>3, <1>4, <2>1  DEF TurnOK, Engaged, InPast, First, RowPaused, Active,
       Past, Kind, still, HandOK
  <2>4. OneApproval /\ ~everClosed => KeptOK(t)'
    BY <1>1, <1>2, <1>3, <1>4, <2>1 DEF KeptOK, Prepared, Awaited, Kind, still, Executing,
       HandOK, PauseOK
  <2> QED
    BY <1>1, <1>2, <1>3, <1>4, <2>1, <2>2, <2>3, <2>4, GotoMoves
       DEF Places, LimitPlaces, Holding, InPast, Past, HandOK, BarrierOK, Kind, Roles,
       Executing, Handling, Resolving, Cancelling, GivingBack
<1> QED
  BY <1>4 DEF UpdateTurnCheck

\* A check before the run fails.
LEMMA PrepareFailsIInv ==
    ASSUME IInv, NEW t \in Tasks, PrepareFails(t)
    PROVE  IInv'
<1>1. tasks[t].pc = "check" /\ UNCHANGED still
  BY DEF PrepareFails, still, memory, bounds
<1>2. /\ PlaceOK(t) /\ HandOK(t) /\ BarrierOK(t) /\ tasks[t] \in TaskType
      /\ OneApproval => PauseOK /\ TurnOK(t)
      /\ OneApproval /\ ~everClosed => KeptOK(t)
  BY TaskFacts
<1>3. tasks[t].role \in {"run"}
  BY <1>1, <1>2 DEF PlaceOK, TaskType, Roles, Executing, Handling, Resolving, Cancelling,
     GivingBack
<1>4. ASSUME NEW pc \in {"error"}, Goto(t, pc)
      PROVE  IInv'
  <2>1. /\ tasks'[t].role = tasks[t].role /\ tasks'[t].pc = pc /\ tasks'[t].q = tasks[t].q
        /\ tasks'[t].cancelled = tasks[t].cancelled /\ tasks'[t].write = tasks[t].write
        /\ \A u \in Tasks : u # t => tasks'[u] = tasks[u]
    BY <1>4, GotoView DEF Places, Executing, Handling
  <2>2. PlaceOK(t)'
    BY <1>1, <1>2, <1>3, <1>4, <2>1 DEF PlaceOK, still, Roles, Executing, Handling, Resolving,
       Cancelling, GivingBack
  <2>3. OneApproval => TurnOK(t)'
    BY <1>1, <1>2, <1>3, <1>4, <2>1  DEF TurnOK, Engaged, InPast, First, RowPaused, Active,
       Past, Kind, still, HandOK
  <2>4. OneApproval /\ ~everClosed => KeptOK(t)'
    BY <1>1, <1>2, <1>3, <1>4, <2>1 DEF KeptOK, Prepared, Awaited, Kind, still, Executing,
       HandOK, PauseOK
  <2> QED
    BY <1>1, <1>2, <1>3, <1>4, <2>1, <2>2, <2>3, <2>4, GotoMoves
       DEF Places, LimitPlaces, Holding, InPast, Past, HandOK, BarrierOK, Kind, Roles,
       Executing, Handling, Resolving, Cancelling, GivingBack
<1> QED
  BY <1>4 DEF PrepareFails

\* A failed execution of a claimed decision gives it back; any other is settled.
LEMMA ExecutionFailsIInv ==
    ASSUME IInv, NEW t \in Tasks, ExecutionFails(t)
    PROVE  IInv'
<1>1. tasks[t].pc = "error" /\ UNCHANGED still
  BY DEF ExecutionFails, still, memory, bounds
<1>2. /\ PlaceOK(t) /\ HandOK(t) /\ BarrierOK(t) /\ tasks[t] \in TaskType
      /\ OneApproval => PauseOK /\ TurnOK(t)
      /\ OneApproval /\ ~everClosed => KeptOK(t)
  BY TaskFacts
<1>3. tasks[t].role \in {"run"}
  BY <1>1, <1>2 DEF PlaceOK, TaskType, Roles, Executing, Handling, Resolving, Cancelling,
     GivingBack
<1>4. ASSUME NEW pc \in {"early", "fail"}, Goto(t, pc),
             pc = "early" => tasks[t].q # 0 /\ Kind(tasks[t].q) = "limit",
             pc = "fail" /\ tasks[t].q # 0 /\ Kind(tasks[t].q) = "limit" => row.status # "preparing_context"
      PROVE  IInv'
  <2>1. /\ tasks'[t].role = tasks[t].role /\ tasks'[t].pc = pc /\ tasks'[t].q = tasks[t].q
        /\ tasks'[t].cancelled = tasks[t].cancelled /\ tasks'[t].write = tasks[t].write
        /\ \A u \in Tasks : u # t => tasks'[u] = tasks[u]
    BY <1>4, GotoView DEF Places, Executing, Handling
  <2>2. PlaceOK(t)'
    BY <1>1, <1>2, <1>3, <1>4, <2>1 DEF PlaceOK, still, Roles, Executing, Handling, Resolving,
       Cancelling, GivingBack
  <2>3. OneApproval => TurnOK(t)'
    BY <1>1, <1>2, <1>3, <1>4, <2>1  DEF TurnOK, Engaged, InPast, First, RowPaused, Active,
       Past, Kind, still, HandOK
  <2>4. OneApproval /\ ~everClosed => KeptOK(t)'
    BY <1>1, <1>2, <1>3, <1>4, <2>1 DEF KeptOK, Prepared, Awaited, Kind, still, Executing,
       HandOK, PauseOK
  <2> QED
    BY <1>1, <1>2, <1>3, <1>4, <2>1, <2>2, <2>3, <2>4, GotoMoves
       DEF Places, LimitPlaces, Holding, InPast, Past, HandOK, BarrierOK, Kind, Roles,
       Executing, Handling, Resolving, Cancelling, GivingBack
<1> QED
  BY <1>4 DEF ExecutionFails, Kind

\* While the row awaits the question of a task, nobody else executes the turn.
LEMMA AwaitedAlone ==
    ASSUME IInv, OneApproval, NEW t \in Tasks, tasks[t].q # 0, RowPaused, row.asks = tasks[t].q,
           NEW u \in Tasks, u # t
    PROVE  ~Engaged(u)
<1>1. HandOK(t) /\ TurnOK(u)
  BY TaskFacts
<1> QED
  BY <1>1 DEF HandOK, TurnOK, Engaged, InPast, RowPaused, Terminal

\* A task that awaits an approval, or a question, awaits the one the row names.
LEMMA AwaitedQuestion ==
    ASSUME IInv, OneApproval, NEW t \in Tasks, tasks[t].q # 0, row.status = Awaiting(tasks[t].q),
           row.asks = tasks[t].q \/ row.status = "awaiting_approval"
    PROVE  RowPaused /\ row.asks = tasks[t].q
<1>1. tasks[t].q \in DOMAIN questions
  BY TaskFacts DEF Types, TaskType
<1>2. row.status \in {"awaiting_input", "awaiting_approval"}
  BY DEF Awaiting
<1>3. CASE row.asks # tasks[t].q
  <2>1. Kind(tasks[t].q) = "approval" /\ row.status = "awaiting_approval"
    BY <1>3 DEF Awaiting, Kind
  <2>2. row.asks # 0 /\ Kind(row.asks) = "approval" /\ row.asks \in Nat /\ row.asks <= Len(questions)
    BY <2>1 DEF IInv, RowOK, Types, RowType
  <2>3. row.asks \in DOMAIN questions
    BY <2>2 DEF IInv, Types
  <2> QED
    BY <1>1, <1>3, <2>1, <2>2, <2>3 DEF OneApproval
<1> QED
  BY <1>2, <1>3 DEF RowPaused

\* The answer is published, or given back.
LEMMA PublishAnswerIInv ==
    ASSUME IInv, NEW t \in Tasks, PublishAnswer(t)
    PROVE  IInv'
<1>1. tasks[t].pc = "answered" /\ UNCHANGED still
  BY DEF PublishAnswer, still, memory, bounds
<1>2. /\ PlaceOK(t) /\ HandOK(t) /\ BarrierOK(t) /\ tasks[t] \in TaskType
      /\ OneApproval => PauseOK /\ TurnOK(t)
      /\ OneApproval /\ ~everClosed => KeptOK(t)
  BY TaskFacts
<1>3. tasks[t].role \in {"answer"}
  BY <1>1, <1>2 DEF PlaceOK, TaskType, Roles, Executing, Handling, Resolving, Cancelling,
     GivingBack
<1>4. ASSUME NEW pc \in {"resume", "rollback"}, Goto(t, pc)
      PROVE  IInv'
  <2>1. /\ tasks'[t].role = tasks[t].role /\ tasks'[t].pc = pc /\ tasks'[t].q = tasks[t].q
        /\ tasks'[t].cancelled = tasks[t].cancelled /\ tasks'[t].write = tasks[t].write
        /\ \A u \in Tasks : u # t => tasks'[u] = tasks[u]
    BY <1>4, GotoView DEF Places, Executing, Handling
  <2>2. PlaceOK(t)'
    BY <1>1, <1>2, <1>3, <1>4, <2>1 DEF PlaceOK, still, Roles, Executing, Handling, Resolving,
       Cancelling, GivingBack
  <2>3. OneApproval => TurnOK(t)'
    BY <1>1, <1>2, <1>3, <1>4, <2>1  DEF TurnOK, Engaged, InPast, First, RowPaused, Active,
       Past, Kind, still, HandOK
  <2>4. OneApproval /\ ~everClosed => KeptOK(t)'
    BY <1>1, <1>2, <1>3, <1>4, <2>1 DEF KeptOK, Prepared, Awaited, Kind, still, Executing,
       HandOK, PauseOK
  <2> QED
    BY <1>1, <1>2, <1>3, <1>4, <2>1, <2>2, <2>3, <2>4, GotoMoves
       DEF Places, LimitPlaces, Holding, InPast, Past, HandOK, BarrierOK, Kind, Roles,
       Executing, Handling, Resolving, Cancelling, GivingBack
<1>5. ASSUME Done(t), Kind(tasks[t].q) # "limit"
      PROVE  IInv'
  BY <1>1, <1>2, <1>3, <1>5, DoneMoves DEF Holding, Executing, Waits, Prepared, Awaited, KeptOK,
     TurnOK, InPast, Past, Kind, RowPaused, PauseOK, Terminal, HandOK
<1> QED
  BY <1>4, <1>5 DEF PublishAnswer, GiveUp, Kind

\* A decision is taken up where the row awaits it.
LEMMA MaybeResumeIInv ==
    ASSUME IInv, NEW t \in Tasks, MaybeResume(t)
    PROVE  IInv'
<1>1. tasks[t].pc = "resume" /\ UNCHANGED still
  BY DEF MaybeResume, still, memory, bounds
<1>2. /\ PlaceOK(t) /\ HandOK(t) /\ BarrierOK(t) /\ tasks[t] \in TaskType
      /\ OneApproval => PauseOK /\ TurnOK(t)
      /\ OneApproval /\ ~everClosed => KeptOK(t)
  BY TaskFacts
<1>3. tasks[t].role \in {"answer", "reconcile"}
  BY <1>1, <1>2 DEF PlaceOK, TaskType, Roles, Executing, Handling, Resolving, Cancelling,
     GivingBack
<1>4. ASSUME NEW pc \in {"rollback", "stop", "await"}, Goto(t, pc),
             pc = "stop" => Kind(tasks[t].q) = "limit",
             pc \in {"stop", "await"} => row.status = Awaiting(tasks[t].q)
               /\ (row.asks = tasks[t].q \/ row.status = "awaiting_approval")
      PROVE  IInv'
  <2>1. /\ tasks'[t].role = tasks[t].role /\ tasks'[t].pc = pc /\ tasks'[t].q = tasks[t].q
        /\ tasks'[t].cancelled = tasks[t].cancelled /\ tasks'[t].write = tasks[t].write
        /\ \A u \in Tasks : u # t => tasks'[u] = tasks[u]
    BY <1>4, GotoView DEF Places, Executing, Handling
  <2>asks. OneApproval /\ pc \in Past => RowPaused /\ row.asks = tasks[t].q
    BY <1>1, <1>2, <1>3, <1>4, AwaitedQuestion DEF Past, PlaceOK
  <2>alone. OneApproval /\ pc \in Past => \A u \in Tasks : u # t => ~Engaged(u)
    BY <1>1, <1>2, <1>3, <2>asks, AwaitedAlone DEF PlaceOK, Executing
  <2>2. PlaceOK(t)'
    BY <1>1, <1>2, <1>3, <1>4, <2>1 DEF PlaceOK, still, Roles, Executing, Handling, Resolving,
       Cancelling, GivingBack
  <2>3. OneApproval => TurnOK(t)'
    BY <1>1, <1>2, <1>3, <1>4, <2>1, <2>alone, <2>asks DEF TurnOK, Engaged, InPast, First,
       RowPaused, Active, Past, Kind, still, HandOK
  <2>4. OneApproval /\ ~everClosed => KeptOK(t)'
    BY <1>1, <1>2, <1>3, <1>4, <2>1 DEF KeptOK, Prepared, Awaited, Kind, still, Executing,
       HandOK, PauseOK
  <2> QED
    BY <1>1, <1>2, <1>3, <1>4, <2>1, <2>2, <2>3, <2>4, GotoMoves
       DEF Places, LimitPlaces, Holding, InPast, Past, HandOK, BarrierOK, Kind, Roles,
       Executing, Handling, Resolving, Cancelling, GivingBack
<1>5. ASSUME Done(t), Kind(tasks[t].q) = "limit" => row.status # "awaiting_input"
      PROVE  IInv'
  BY <1>1, <1>2, <1>3, <1>5, DoneMoves DEF Holding, Executing, Waits, Prepared, Awaited, KeptOK,
     TurnOK, InPast, Past, Kind, RowPaused, PauseOK, Terminal, HandOK
<1> QED
  BY <1>4, <1>5 DEF MaybeResume, GiveUp, Kind, Awaiting

\* wait_for_turn_closed: the scope of the paused execution is gone, or the wait times out.
LEMMA AwaitClosedIInv ==
    ASSUME IInv, NEW t \in Tasks, AwaitClosed(t)
    PROVE  IInv'
<1>1. tasks[t].pc = "await" /\ UNCHANGED still
  BY DEF AwaitClosed, still, memory, bounds
<1>2. /\ PlaceOK(t) /\ HandOK(t) /\ BarrierOK(t) /\ tasks[t] \in TaskType
      /\ OneApproval => PauseOK /\ TurnOK(t)
      /\ OneApproval /\ ~everClosed => KeptOK(t)
  BY TaskFacts
<1>3. tasks[t].role \in {"answer", "reconcile"}
  BY <1>1, <1>2 DEF PlaceOK, TaskType, Roles, Executing, Handling, Resolving, Cancelling,
     GivingBack
<1>4. ASSUME NEW pc \in {"rollback", "claim", "open"}, Goto(t, pc),
             pc = "claim" => Kind(tasks[t].q) = "limit" /\ scope = NoTask,
             pc = "open" => Kind(tasks[t].q) # "limit"
      PROVE  IInv'
  <2>1. /\ tasks'[t].role = tasks[t].role /\ tasks'[t].pc = pc /\ tasks'[t].q = tasks[t].q
        /\ tasks'[t].cancelled = tasks[t].cancelled /\ tasks'[t].write = tasks[t].write
        /\ \A u \in Tasks : u # t => tasks'[u] = tasks[u]
    BY <1>4, GotoView DEF Places, Executing, Handling
  <2>2. PlaceOK(t)'
    BY <1>1, <1>2, <1>3, <1>4, <2>1 DEF PlaceOK, still, Roles, Executing, Handling, Resolving,
       Cancelling, GivingBack
  <2>3. OneApproval => TurnOK(t)'
    BY <1>1, <1>2, <1>3, <1>4, <2>1  DEF TurnOK, Engaged, InPast, First, RowPaused, Active,
       Past, Kind, still, HandOK
  <2>4. OneApproval /\ ~everClosed => KeptOK(t)'
    BY <1>1, <1>2, <1>3, <1>4, <2>1 DEF KeptOK, Prepared, Awaited, Kind, still, Executing,
       HandOK, PauseOK
  <2> QED
    BY <1>1, <1>2, <1>3, <1>4, <2>1, <2>2, <2>3, <2>4, GotoMoves
       DEF Places, LimitPlaces, Holding, InPast, Past, HandOK, BarrierOK, Kind, Roles,
       Executing, Handling, Resolving, Cancelling, GivingBack
<1>5. ASSUME Done(t), Kind(tasks[t].q) # "limit"
      PROVE  IInv'
  BY <1>1, <1>2, <1>3, <1>5, DoneMoves DEF Holding, Executing, Waits, Prepared, Awaited, KeptOK,
     TurnOK, InPast, Past, Kind, RowPaused, PauseOK, Terminal, HandOK
<1> QED
  BY <1>4, <1>5 DEF AwaitClosed, GiveUp, Kind

\* A claim that failed found the turn settled.
LEMMA ClaimLostIInv ==
    ASSUME IInv, NEW t \in Tasks, ClaimLost(t)
    PROVE  IInv'
<1>1. tasks[t].pc = "unclaimed" /\ UNCHANGED still
  BY DEF ClaimLost, still, memory, bounds
<1>2. /\ PlaceOK(t) /\ HandOK(t) /\ BarrierOK(t) /\ tasks[t] \in TaskType
      /\ OneApproval => PauseOK /\ TurnOK(t)
      /\ OneApproval /\ ~everClosed => KeptOK(t)
  BY TaskFacts
<1>3. tasks[t].role \in {"answer", "reconcile"}
  BY <1>1, <1>2 DEF PlaceOK, TaskType, Roles, Executing, Handling, Resolving, Cancelling,
     GivingBack
<1>4. ASSUME NEW pc \in {"rollback"}, Goto(t, pc)
      PROVE  IInv'
  <2>1. /\ tasks'[t].role = tasks[t].role /\ tasks'[t].pc = pc /\ tasks'[t].q = tasks[t].q
        /\ tasks'[t].cancelled = tasks[t].cancelled /\ tasks'[t].write = tasks[t].write
        /\ \A u \in Tasks : u # t => tasks'[u] = tasks[u]
    BY <1>4, GotoView DEF Places, Executing, Handling
  <2>2. PlaceOK(t)'
    BY <1>1, <1>2, <1>3, <1>4, <2>1 DEF PlaceOK, still, Roles, Executing, Handling, Resolving,
       Cancelling, GivingBack
  <2>3. OneApproval => TurnOK(t)'
    BY <1>1, <1>2, <1>3, <1>4, <2>1  DEF TurnOK, Engaged, InPast, First, RowPaused, Active,
       Past, Kind, still, HandOK
  <2>4. OneApproval /\ ~everClosed => KeptOK(t)'
    BY <1>1, <1>2, <1>3, <1>4, <2>1 DEF KeptOK, Prepared, Awaited, Kind, still, Executing,
       HandOK, PauseOK
  <2> QED
    BY <1>1, <1>2, <1>3, <1>4, <2>1, <2>2, <2>3, <2>4, GotoMoves
       DEF Places, LimitPlaces, Holding, InPast, Past, HandOK, BarrierOK, Kind, Roles,
       Executing, Handling, Resolving, Cancelling, GivingBack
<1>5. ASSUME Done(t)
      PROVE  IInv'
  BY <1>1, <1>2, <1>3, <1>5, DoneMoves DEF Holding, Executing, Waits, Prepared, Awaited, KeptOK,
     TurnOK, InPast, Past, Kind, RowPaused, PauseOK, Terminal, HandOK
<1> QED
  BY <1>4, <1>5 DEF ClaimLost

\* A turn that cannot be opened is given back, unless it was opened.
LEMMA OpenRefusedIInv ==
    ASSUME IInv, NEW t \in Tasks, OpenRefused(t)
    PROVE  IInv'
<1>1. tasks[t].pc = "refused" /\ UNCHANGED still
  BY DEF OpenRefused, still, memory, bounds
<1>2. /\ PlaceOK(t) /\ HandOK(t) /\ BarrierOK(t) /\ tasks[t] \in TaskType
      /\ OneApproval => PauseOK /\ TurnOK(t)
      /\ OneApproval /\ ~everClosed => KeptOK(t)
  BY TaskFacts
<1>3. tasks[t].role \in {"answer", "reconcile"}
  BY <1>1, <1>2 DEF PlaceOK, TaskType, Roles, Executing, Handling, Resolving, Cancelling,
     GivingBack
<1>4. ASSUME NEW pc \in {"rollback"}, Goto(t, pc),
             scope = NoTask
      PROVE  IInv'
  <2>1. /\ tasks'[t].role = tasks[t].role /\ tasks'[t].pc = pc /\ tasks'[t].q = tasks[t].q
        /\ tasks'[t].cancelled = tasks[t].cancelled /\ tasks'[t].write = tasks[t].write
        /\ \A u \in Tasks : u # t => tasks'[u] = tasks[u]
    BY <1>4, GotoView DEF Places, Executing, Handling
  <2>2. PlaceOK(t)'
    BY <1>1, <1>2, <1>3, <1>4, <2>1 DEF PlaceOK, still, Roles, Executing, Handling, Resolving,
       Cancelling, GivingBack
  <2>3. OneApproval => TurnOK(t)'
    BY <1>1, <1>2, <1>3, <1>4, <2>1  DEF TurnOK, Engaged, InPast, First, RowPaused, Active,
       Past, Kind, still, HandOK
  <2>4. OneApproval /\ ~everClosed => KeptOK(t)'
    BY <1>1, <1>2, <1>3, <1>4, <2>1 DEF KeptOK, Prepared, Awaited, Kind, still, Executing,
       HandOK, PauseOK
  <2> QED
    BY <1>1, <1>2, <1>3, <1>4, <2>1, <2>2, <2>3, <2>4, GotoMoves
       DEF Places, LimitPlaces, Holding, InPast, Past, HandOK, BarrierOK, Kind, Roles,
       Executing, Handling, Resolving, Cancelling, GivingBack
<1>5. ASSUME Done(t), scope # NoTask
      PROVE  IInv'
  BY <1>1, <1>2, <1>3, <1>5, DoneMoves DEF Holding, Executing, Waits, Prepared, Awaited, KeptOK,
     TurnOK, InPast, Past, Kind, RowPaused, PauseOK, Terminal, HandOK
<1> QED
  BY <1>4, <1>5 DEF OpenRefused

\* confirm_preparing_turn_resume: a claim that is not there any more was stopped.
LEMMA ConfirmResumeIInv ==
    ASSUME IInv, NEW t \in Tasks, ConfirmResume(t)
    PROVE  IInv'
<1>1. tasks[t].pc = "confirm" /\ UNCHANGED still
  BY DEF ConfirmResume, still, memory, bounds
<1>2. /\ PlaceOK(t) /\ HandOK(t) /\ BarrierOK(t) /\ tasks[t] \in TaskType
      /\ OneApproval => PauseOK /\ TurnOK(t)
      /\ OneApproval /\ ~everClosed => KeptOK(t)
  BY TaskFacts
<1>3. tasks[t].role \in {"answer", "reconcile"}
  BY <1>1, <1>2 DEF PlaceOK, TaskType, Roles, Executing, Handling, Resolving, Cancelling,
     GivingBack
<1>4. ASSUME NEW pc \in {"spawn", "unwind"}, Goto(t, pc),
             pc = "unwind" => ~(row.status = "preparing_context" /\ row.marker = "limit" /\ StillAnswered(t))
      PROVE  IInv'
  <2>1. /\ tasks'[t].role = tasks[t].role /\ tasks'[t].pc = pc /\ tasks'[t].q = tasks[t].q
        /\ tasks'[t].cancelled = tasks[t].cancelled /\ tasks'[t].write = tasks[t].write
        /\ \A u \in Tasks : u # t => tasks'[u] = tasks[u]
    BY <1>4, GotoView DEF Places, Executing, Handling
  <2>2. PlaceOK(t)'
    BY <1>1, <1>2, <1>3, <1>4, <2>1 DEF PlaceOK, still, Roles, Executing, Handling, Resolving,
       Cancelling, GivingBack
  <2>3. OneApproval => TurnOK(t)'
    BY <1>1, <1>2, <1>3, <1>4, <2>1  DEF TurnOK, Engaged, InPast, First, RowPaused, Active,
       Past, Kind, still, HandOK
  <2>4. OneApproval /\ ~everClosed => KeptOK(t)'
    BY <1>1, <1>2, <1>3, <1>4, <2>1 DEF KeptOK, Prepared, Awaited, Kind, still, Executing,
       HandOK, PauseOK
  <2> QED
    BY <1>1, <1>2, <1>3, <1>4, <2>1, <2>2, <2>3, <2>4, GotoMoves
       DEF Places, LimitPlaces, Holding, InPast, Past, HandOK, BarrierOK, Kind, Roles,
       Executing, Handling, Resolving, Cancelling, GivingBack
<1> QED
  BY <1>4 DEF ConfirmResume

\* stop_tool_call_limit_turn waits until the turn is closed.
LEMMA StopWaitsIInv ==
    ASSUME IInv, NEW t \in Tasks, StopWaits(t)
    PROVE  IInv'
<1>1. tasks[t].pc = "stop" /\ UNCHANGED still
  BY DEF StopWaits, still, memory, bounds
<1>2. /\ PlaceOK(t) /\ HandOK(t) /\ BarrierOK(t) /\ tasks[t] \in TaskType
      /\ OneApproval => PauseOK /\ TurnOK(t)
      /\ OneApproval /\ ~everClosed => KeptOK(t)
  BY TaskFacts
<1>3. tasks[t].role \in {"cancel", "answer", "reconcile"}
  BY <1>1, <1>2 DEF PlaceOK, TaskType, Roles, Executing, Handling, Resolving, Cancelling,
     GivingBack
<1>4. ASSUME NEW pc \in {"stopping", "rollback", "unblock"}, Goto(t, pc),
             pc = "stopping" => scope = NoTask, tasks[t].role = "cancel" => pc # "rollback",
             tasks[t].role # "cancel" => pc # "unblock"
      PROVE  IInv'
  <2>1. /\ tasks'[t].role = tasks[t].role /\ tasks'[t].pc = pc /\ tasks'[t].q = tasks[t].q
        /\ tasks'[t].cancelled = tasks[t].cancelled /\ tasks'[t].write = tasks[t].write
        /\ \A u \in Tasks : u # t => tasks'[u] = tasks[u]
    BY <1>4, GotoView DEF Places, Executing, Handling
  <2>2. PlaceOK(t)'
    BY <1>1, <1>2, <1>3, <1>4, <2>1 DEF PlaceOK, still, Roles, Executing, Handling, Resolving,
       Cancelling, GivingBack
  <2>3. OneApproval => TurnOK(t)'
    BY <1>1, <1>2, <1>3, <1>4, <2>1  DEF TurnOK, Engaged, InPast, First, RowPaused, Active,
       Past, Kind, still, HandOK
  <2>4. OneApproval /\ ~everClosed => KeptOK(t)'
    BY <1>1, <1>2, <1>3, <1>4, <2>1 DEF KeptOK, Prepared, Awaited, Kind, still, Executing,
       HandOK, PauseOK
  <2> QED
    BY <1>1, <1>2, <1>3, <1>4, <2>1, <2>2, <2>3, <2>4, GotoMoves
       DEF Places, LimitPlaces, Holding, InPast, Past, HandOK, BarrierOK, Kind, Roles,
       Executing, Handling, Resolving, Cancelling, GivingBack
<1> QED
  BY <1>4 DEF StopWaits, StopFailed

\* A stop that came too late is over, or given back.
LEMMA StopLostIInv ==
    ASSUME IInv, NEW t \in Tasks, StopLost(t)
    PROVE  IInv'
<1>1. tasks[t].pc = "unstopped" /\ UNCHANGED still
  BY DEF StopLost, still, memory, bounds
<1>2. /\ PlaceOK(t) /\ HandOK(t) /\ BarrierOK(t) /\ tasks[t] \in TaskType
      /\ OneApproval => PauseOK /\ TurnOK(t)
      /\ OneApproval /\ ~everClosed => KeptOK(t)
  BY TaskFacts
<1>3. tasks[t].role \in {"cancel", "answer", "reconcile"}
  BY <1>1, <1>2 DEF PlaceOK, TaskType, Roles, Executing, Handling, Resolving, Cancelling,
     GivingBack
<1>4. ASSUME NEW pc \in {"rollback", "unblock"}, Goto(t, pc),
             tasks[t].role = "cancel" => pc # "rollback", tasks[t].role # "cancel" => pc # "unblock"
      PROVE  IInv'
  <2>1. /\ tasks'[t].role = tasks[t].role /\ tasks'[t].pc = pc /\ tasks'[t].q = tasks[t].q
        /\ tasks'[t].cancelled = tasks[t].cancelled /\ tasks'[t].write = tasks[t].write
        /\ \A u \in Tasks : u # t => tasks'[u] = tasks[u]
    BY <1>4, GotoView DEF Places, Executing, Handling
  <2>2. PlaceOK(t)'
    BY <1>1, <1>2, <1>3, <1>4, <2>1 DEF PlaceOK, still, Roles, Executing, Handling, Resolving,
       Cancelling, GivingBack
  <2>3. OneApproval => TurnOK(t)'
    BY <1>1, <1>2, <1>3, <1>4, <2>1  DEF TurnOK, Engaged, InPast, First, RowPaused, Active,
       Past, Kind, still, HandOK
  <2>4. OneApproval /\ ~everClosed => KeptOK(t)'
    BY <1>1, <1>2, <1>3, <1>4, <2>1 DEF KeptOK, Prepared, Awaited, Kind, still, Executing,
       HandOK, PauseOK
  <2> QED
    BY <1>1, <1>2, <1>3, <1>4, <2>1, <2>2, <2>3, <2>4, GotoMoves
       DEF Places, LimitPlaces, Holding, InPast, Past, HandOK, BarrierOK, Kind, Roles,
       Executing, Handling, Resolving, Cancelling, GivingBack
<1>5. ASSUME Done(t), tasks[t].role # "cancel", row.status \in Terminal
      PROVE  IInv'
  BY <1>1, <1>2, <1>3, <1>5, DoneMoves DEF Holding, Executing, Waits, Prepared, Awaited, KeptOK,
     TurnOK, InPast, Past, Kind, RowPaused, PauseOK, Terminal, HandOK
<1> QED
  BY <1>4, <1>5 DEF StopLost, StopFailed, Stopped

\* rollback_question_decision: the row is read.
LEMMA RollbackIInv ==
    ASSUME IInv, NEW t \in Tasks, Rollback(t)
    PROVE  IInv'
<1>1. tasks[t].pc = "rollback" /\ UNCHANGED still
  BY DEF Rollback, still, memory, bounds
<1>2. /\ PlaceOK(t) /\ HandOK(t) /\ BarrierOK(t) /\ tasks[t] \in TaskType
      /\ OneApproval => PauseOK /\ TurnOK(t)
      /\ OneApproval /\ ~everClosed => KeptOK(t)
  BY TaskFacts
<1>3. tasks[t].role \in {"run", "answer", "reconcile"}
  BY <1>1, <1>2 DEF PlaceOK, TaskType, Roles, Executing, Handling, Resolving, Cancelling,
     GivingBack
<1>known. row.marker = "limit" => Kind(row.asks) = "limit"
  BY <1>1, <1>2, <1>3 DEF IInv, RowOK
<1>4. ASSUME NEW pc \in {"token", "reopen"}, Goto(t, pc),
             row.asks = tasks[t].q,
             pc = "token" => row.status = "preparing_context" /\ row.marker = "limit",
             pc = "reopen" => row.status = "awaiting_input"
      PROVE  IInv'
  <2>1. /\ tasks'[t].role = tasks[t].role /\ tasks'[t].pc = pc /\ tasks'[t].q = tasks[t].q
        /\ tasks'[t].cancelled = tasks[t].cancelled /\ tasks'[t].write = tasks[t].write
        /\ \A u \in Tasks : u # t => tasks'[u] = tasks[u]
    BY <1>4, GotoView DEF Places, Executing, Handling
  <2>asks. OneApproval /\ pc \in Past => RowPaused /\ row.asks = tasks[t].q
    BY <1>4 DEF Past, RowPaused
  <2>alone. OneApproval /\ pc \in Past => \A u \in Tasks : u # t => ~Engaged(u)
    BY <1>1, <1>2, <1>3, <2>asks, AwaitedAlone DEF PlaceOK, Executing
  <2>2. PlaceOK(t)'
    BY <1>1, <1>2, <1>3, <1>known, <1>4, <2>1 DEF PlaceOK, still, Roles, Executing, Handling,
       Resolving, Cancelling, GivingBack
  <2>3. OneApproval => TurnOK(t)'
    BY <1>1, <1>2, <1>3, <1>known, <1>4, <2>1, <2>alone, <2>asks DEF TurnOK, Engaged, InPast,
       First, RowPaused, Active, Past, Kind, still, HandOK
  <2>4. OneApproval /\ ~everClosed => KeptOK(t)'
    BY <1>1, <1>2, <1>3, <1>known, <1>4, <2>1 DEF KeptOK, Prepared, Awaited, Kind, still,
       Executing, HandOK, PauseOK
  <2> QED
    BY <1>1, <1>2, <1>3, <1>known, <1>4, <2>1, <2>2, <2>3, <2>4, GotoMoves
       DEF Places, LimitPlaces, Holding, InPast, Past, HandOK, BarrierOK, Kind, Roles,
       Executing, Handling, Resolving, Cancelling, GivingBack
<1>5. ASSUME Done(t), ~Awaited(tasks[t].q), Prepared(tasks[t].q) => row.marker # "limit"
      PROVE  IInv'
  BY <1>1, <1>2, <1>3, <1>5, DoneMoves DEF Holding, Executing, Waits, Prepared, Awaited, KeptOK,
     TurnOK, InPast, Past, Kind, RowPaused, PauseOK, Terminal, HandOK
<1> QED
  BY <1>4, <1>5 DEF Rollback, Awaited, Prepared

\* A claim is given back only while nobody has opened the turn.
LEMMA RollbackTokenIInv ==
    ASSUME IInv, NEW t \in Tasks, RollbackToken(t)
    PROVE  IInv'
<1>1. tasks[t].pc = "token" /\ UNCHANGED still
  BY DEF RollbackToken, still, memory, bounds
<1>2. /\ PlaceOK(t) /\ HandOK(t) /\ BarrierOK(t) /\ tasks[t] \in TaskType
      /\ OneApproval => PauseOK /\ TurnOK(t)
      /\ OneApproval /\ ~everClosed => KeptOK(t)
  BY TaskFacts
<1>3. tasks[t].role \in {"run", "answer", "reconcile"}
  BY <1>1, <1>2 DEF PlaceOK, TaskType, Roles, Executing, Handling, Resolving, Cancelling,
     GivingBack
<1>4. ASSUME NEW pc \in {"restore"}, Goto(t, pc)
      PROVE  IInv'
  <2>1. /\ tasks'[t].role = tasks[t].role /\ tasks'[t].pc = pc /\ tasks'[t].q = tasks[t].q
        /\ tasks'[t].cancelled = tasks[t].cancelled /\ tasks'[t].write = tasks[t].write
        /\ \A u \in Tasks : u # t => tasks'[u] = tasks[u]
    BY <1>4, GotoView DEF Places, Executing, Handling
  <2>2. PlaceOK(t)'
    BY <1>1, <1>2, <1>3, <1>4, <2>1 DEF PlaceOK, still, Roles, Executing, Handling, Resolving,
       Cancelling, GivingBack
  <2>3. OneApproval => TurnOK(t)'
    BY <1>1, <1>2, <1>3, <1>4, <2>1  DEF TurnOK, Engaged, InPast, First, RowPaused, Active,
       Past, Kind, still, HandOK
  <2>4. OneApproval /\ ~everClosed => KeptOK(t)'
    BY <1>1, <1>2, <1>3, <1>4, <2>1 DEF KeptOK, Prepared, Awaited, Kind, still, Executing,
       HandOK, PauseOK
  <2> QED
    BY <1>1, <1>2, <1>3, <1>4, <2>1, <2>2, <2>3, <2>4, GotoMoves
       DEF Places, LimitPlaces, Holding, InPast, Past, HandOK, BarrierOK, Kind, Roles,
       Executing, Handling, Resolving, Cancelling, GivingBack
<1>5. ASSUME Done(t), scope # NoTask
      PROVE  IInv'
  BY <1>1, <1>2, <1>3, <1>5, DoneMoves DEF Holding, Executing, Waits, Prepared, Awaited, KeptOK,
     TurnOK, InPast, Past, Kind, RowPaused, PauseOK, Terminal, HandOK
<1> QED
  BY <1>4, <1>5 DEF RollbackToken

\* cancel_turn reads the row.
LEMMA CancelReadsIInv ==
    ASSUME IInv, NEW t \in Tasks, CancelReads(t)
    PROVE  IInv'
<1>1. tasks[t].pc = "cancel" /\ UNCHANGED still
  BY DEF CancelReads, still, memory, bounds
<1>2. /\ PlaceOK(t) /\ HandOK(t) /\ BarrierOK(t) /\ tasks[t] \in TaskType
      /\ OneApproval => PauseOK /\ TurnOK(t)
      /\ OneApproval /\ ~everClosed => KeptOK(t)
  BY TaskFacts
<1>3. tasks[t].role \in {"cancel"}
  BY <1>1, <1>2 DEF PlaceOK, TaskType, Roles, Executing, Handling, Resolving, Cancelling,
     GivingBack
<1>4. ASSUME NEW pc \in {"barrier", "signal"}, Goto(t, pc)
      PROVE  IInv'
  <2>1. /\ tasks'[t].role = tasks[t].role /\ tasks'[t].pc = pc /\ tasks'[t].q = tasks[t].q
        /\ tasks'[t].cancelled = tasks[t].cancelled /\ tasks'[t].write = tasks[t].write
        /\ \A u \in Tasks : u # t => tasks'[u] = tasks[u]
    BY <1>4, GotoView DEF Places, Executing, Handling
  <2>2. PlaceOK(t)'
    BY <1>1, <1>2, <1>3, <1>4, <2>1 DEF PlaceOK, still, Roles, Executing, Handling, Resolving,
       Cancelling, GivingBack
  <2>3. OneApproval => TurnOK(t)'
    BY <1>1, <1>2, <1>3, <1>4, <2>1  DEF TurnOK, Engaged, InPast, First, RowPaused, Active,
       Past, Kind, still, HandOK
  <2>4. OneApproval /\ ~everClosed => KeptOK(t)'
    BY <1>1, <1>2, <1>3, <1>4, <2>1 DEF KeptOK, Prepared, Awaited, Kind, still, Executing,
       HandOK, PauseOK
  <2> QED
    BY <1>1, <1>2, <1>3, <1>4, <2>1, <2>2, <2>3, <2>4, GotoMoves
       DEF Places, LimitPlaces, Holding, InPast, Past, HandOK, BarrierOK, Kind, Roles,
       Executing, Handling, Resolving, Cancelling, GivingBack
<1> QED
  BY <1>4 DEF CancelReads

\* The barrier is up; the cancellation waits until the turn is closed.
LEMMA CancelDrainsIInv ==
    ASSUME IInv, NEW t \in Tasks, CancelDrains(t)
    PROVE  IInv'
<1>1. tasks[t].pc = "drain" /\ UNCHANGED still
  BY DEF CancelDrains, still, memory, bounds
<1>2. /\ PlaceOK(t) /\ HandOK(t) /\ BarrierOK(t) /\ tasks[t] \in TaskType
      /\ OneApproval => PauseOK /\ TurnOK(t)
      /\ OneApproval /\ ~everClosed => KeptOK(t)
  BY TaskFacts
<1>3. tasks[t].role \in {"cancel"}
  BY <1>1, <1>2 DEF PlaceOK, TaskType, Roles, Executing, Handling, Resolving, Cancelling,
     GivingBack
<1>4. ASSUME NEW pc \in {"latest", "unblock"}, Goto(t, pc),
             pc = "latest" => scope = NoTask
      PROVE  IInv'
  <2>1. /\ tasks'[t].role = tasks[t].role /\ tasks'[t].pc = pc /\ tasks'[t].q = tasks[t].q
        /\ tasks'[t].cancelled = tasks[t].cancelled /\ tasks'[t].write = tasks[t].write
        /\ \A u \in Tasks : u # t => tasks'[u] = tasks[u]
    BY <1>4, GotoView DEF Places, Executing, Handling
  <2>2. PlaceOK(t)'
    BY <1>1, <1>2, <1>3, <1>4, <2>1 DEF PlaceOK, still, Roles, Executing, Handling, Resolving,
       Cancelling, GivingBack
  <2>3. OneApproval => TurnOK(t)'
    BY <1>1, <1>2, <1>3, <1>4, <2>1  DEF TurnOK, Engaged, InPast, First, RowPaused, Active,
       Past, Kind, still, HandOK
  <2>4. OneApproval /\ ~everClosed => KeptOK(t)'
    BY <1>1, <1>2, <1>3, <1>4, <2>1 DEF KeptOK, Prepared, Awaited, Kind, still, Executing,
       HandOK, PauseOK
  <2> QED
    BY <1>1, <1>2, <1>3, <1>4, <2>1, <2>2, <2>3, <2>4, GotoMoves
       DEF Places, LimitPlaces, Holding, InPast, Past, HandOK, BarrierOK, Kind, Roles,
       Executing, Handling, Resolving, Cancelling, GivingBack
<1> QED
  BY <1>4 DEF CancelDrains

\* cancel_turn reads the row again.
LEMMA CancelLatestIInv ==
    ASSUME IInv, NEW t \in Tasks, CancelLatest(t)
    PROVE  IInv'
<1>1. tasks[t].pc = "latest" /\ UNCHANGED still
  BY DEF CancelLatest, still, memory, bounds
<1>2. /\ PlaceOK(t) /\ HandOK(t) /\ BarrierOK(t) /\ tasks[t] \in TaskType
      /\ OneApproval => PauseOK /\ TurnOK(t)
      /\ OneApproval /\ ~everClosed => KeptOK(t)
  BY TaskFacts
<1>3. tasks[t].role \in {"cancel"}
  BY <1>1, <1>2 DEF PlaceOK, TaskType, Roles, Executing, Handling, Resolving, Cancelling,
     GivingBack
<1>known. tasks[t].q = 0 /\ scope = NoTask
  BY <1>1, <1>2, <1>3 DEF PlaceOK, BarrierOK
<1>4. ASSUME NEW pc \in {"stop", "unblock"}, Goto(t, pc)
      PROVE  IInv'
  <2>1. /\ tasks'[t].role = tasks[t].role /\ tasks'[t].pc = pc /\ tasks'[t].q = tasks[t].q
        /\ tasks'[t].cancelled = tasks[t].cancelled /\ tasks'[t].write = tasks[t].write
        /\ \A u \in Tasks : u # t => tasks'[u] = tasks[u]
    BY <1>4, GotoView DEF Places, Executing, Handling
  <2>2. PlaceOK(t)'
    BY <1>1, <1>2, <1>3, <1>known, <1>4, <2>1 DEF PlaceOK, still, Roles, Executing, Handling,
       Resolving, Cancelling, GivingBack
  <2>3. OneApproval => TurnOK(t)'
    BY <1>1, <1>2, <1>3, <1>known, <1>4, <2>1  DEF TurnOK, Engaged, InPast, First, RowPaused,
       Active, Past, Kind, still, HandOK
  <2>4. OneApproval /\ ~everClosed => KeptOK(t)'
    BY <1>1, <1>2, <1>3, <1>known, <1>4, <2>1 DEF KeptOK, Prepared, Awaited, Kind, still,
       Executing, HandOK, PauseOK
  <2> QED
    BY <1>1, <1>2, <1>3, <1>known, <1>4, <2>1, <2>2, <2>3, <2>4, GotoMoves
       DEF Places, LimitPlaces, Holding, InPast, Past, HandOK, BarrierOK, Kind, Roles,
       Executing, Handling, Resolving, Cancelling, GivingBack
<1> QED
  BY <1>4 DEF CancelLatest

\* A run ends without a result to write.
LEMMA RunLeaves ==
    ASSUME IInv, NEW t \in Tasks, tasks[t].pc \in {"running", "asked"}, UNCHANGED still,
           NEW pc \in {"pause", "error"}, Goto(t, pc),
           pc = "pause" => "limit" \in Kinds
    PROVE  IInv'
<1>1. /\ PlaceOK(t) /\ HandOK(t) /\ BarrierOK(t) /\ tasks[t] \in TaskType
      /\ OneApproval => PauseOK /\ TurnOK(t)
      /\ OneApproval /\ ~everClosed => KeptOK(t)
  BY TaskFacts
<1>2. tasks[t].role \in {"run"}
  BY <1>1 DEF PlaceOK, TaskType, Roles, Executing, Handling, Resolving, Cancelling, GivingBack
<1>3. /\ tasks'[t].role = tasks[t].role /\ tasks'[t].pc = pc /\ tasks'[t].q = tasks[t].q
      /\ tasks'[t].cancelled = tasks[t].cancelled /\ tasks'[t].write = tasks[t].write
      /\ \A u \in Tasks : u # t => tasks'[u] = tasks[u]
  BY GotoView DEF Places, Executing, Handling
<1>4. PlaceOK(t)'
  BY <1>1, <1>2, <1>3 DEF PlaceOK, still, Roles, Executing, Handling, Resolving, Cancelling,
     GivingBack
<1>5. OneApproval => TurnOK(t)'
  BY <1>1, <1>2, <1>3 DEF TurnOK, Engaged, InPast, First, RowPaused, Active, Past, Kind, still,
     HandOK
<1>6. OneApproval /\ ~everClosed => KeptOK(t)'
  BY <1>1, <1>2, <1>3 DEF KeptOK, Prepared, Awaited, Kind, still, Executing, HandOK, PauseOK,
     PlaceOK
<1> QED
  BY <1>1, <1>2, <1>3, <1>4, <1>5, <1>6, GotoMoves
     DEF Places, LimitPlaces, Holding, HandOK, BarrierOK, Kind, Roles, Executing, Handling,
     Resolving, Cancelling, GivingBack

\* A tool-limit pause finds the turn settled.
LEMMA PauseRefused ==
    ASSUME IInv, NEW t \in Tasks, tasks[t].pc = "pause", UNCHANGED still,
           NEW pc \in {"error"}, Goto(t, pc)
    PROVE  IInv'
<1>1. /\ PlaceOK(t) /\ HandOK(t) /\ BarrierOK(t) /\ tasks[t] \in TaskType
      /\ OneApproval => PauseOK /\ TurnOK(t)
      /\ OneApproval /\ ~everClosed => KeptOK(t)
  BY TaskFacts
<1>2. tasks[t].role \in {"run"}
  BY <1>1 DEF PlaceOK, TaskType, Roles, Executing, Handling, Resolving, Cancelling, GivingBack
<1>3. /\ tasks'[t].role = tasks[t].role /\ tasks'[t].pc = pc /\ tasks'[t].q = tasks[t].q
      /\ tasks'[t].cancelled = tasks[t].cancelled /\ tasks'[t].write = tasks[t].write
      /\ \A u \in Tasks : u # t => tasks'[u] = tasks[u]
  BY GotoView DEF Places, Executing, Handling
<1>4. PlaceOK(t)'
  BY <1>1, <1>2, <1>3 DEF PlaceOK, still, Roles, Executing, Handling, Resolving, Cancelling,
     GivingBack
<1>5. OneApproval => TurnOK(t)'
  BY <1>1, <1>2, <1>3 DEF TurnOK, Engaged, InPast, First, RowPaused, Active, Past, Kind, still,
     HandOK
<1>6. OneApproval /\ ~everClosed => KeptOK(t)'
  BY <1>1, <1>2, <1>3 DEF KeptOK, Prepared, Awaited, Kind, still, Executing, HandOK, PauseOK,
     PlaceOK
<1> QED
  BY <1>1, <1>2, <1>3, <1>4, <1>5, <1>6, GotoMoves
     DEF Places, LimitPlaces, Holding, HandOK, BarrierOK, Kind, Roles, Executing, Handling,
     Resolving, Cancelling, GivingBack

\* A failure finds nothing to settle.
LEMMA FailureSettled ==
    ASSUME IInv, NEW t \in Tasks, tasks[t].pc = "fail", UNCHANGED still,
           NEW pc \in {"finish"}, Goto(t, pc)
    PROVE  IInv'
<1>1. /\ PlaceOK(t) /\ HandOK(t) /\ BarrierOK(t) /\ tasks[t] \in TaskType
      /\ OneApproval => PauseOK /\ TurnOK(t)
      /\ OneApproval /\ ~everClosed => KeptOK(t)
  BY TaskFacts
<1>2. tasks[t].role \in {"run"}
  BY <1>1 DEF PlaceOK, TaskType, Roles, Executing, Handling, Resolving, Cancelling, GivingBack
<1>3. /\ tasks'[t].role = tasks[t].role /\ tasks'[t].pc = pc /\ tasks'[t].q = tasks[t].q
      /\ tasks'[t].cancelled = tasks[t].cancelled /\ tasks'[t].write = tasks[t].write
      /\ \A u \in Tasks : u # t => tasks'[u] = tasks[u]
  BY GotoView DEF Places, Executing, Handling
<1>4. PlaceOK(t)'
  BY <1>1, <1>2, <1>3 DEF PlaceOK, still, Roles, Executing, Handling, Resolving, Cancelling,
     GivingBack
<1>5. OneApproval => TurnOK(t)'
  BY <1>1, <1>2, <1>3 DEF TurnOK, Engaged, InPast, First, RowPaused, Active, Past, Kind, still,
     HandOK
<1>6. OneApproval /\ ~everClosed => KeptOK(t)'
  BY <1>1, <1>2, <1>3 DEF KeptOK, Prepared, Awaited, Kind, still, Executing, HandOK, PauseOK,
     PlaceOK
<1> QED
  BY <1>1, <1>2, <1>3, <1>4, <1>5, <1>6, GotoMoves
     DEF Places, LimitPlaces, Holding, HandOK, BarrierOK, Kind, Roles, Executing, Handling,
     Resolving, Cancelling, GivingBack

\* The claim of the row fails.
LEMMA ClaimRefused ==
    ASSUME IInv, NEW t \in Tasks, tasks[t].pc = "claim", UNCHANGED still,
           NEW pc \in {"unclaimed"}, Goto(t, pc),
           ~(row.status = "awaiting_input" /\ row.marker = "limit" /\ StillAnswered(t))
    PROVE  IInv'
<1>1. /\ PlaceOK(t) /\ HandOK(t) /\ BarrierOK(t) /\ tasks[t] \in TaskType
      /\ OneApproval => PauseOK /\ TurnOK(t)
      /\ OneApproval /\ ~everClosed => KeptOK(t)
  BY TaskFacts
<1>2. tasks[t].role \in {"answer", "reconcile"}
  BY <1>1 DEF PlaceOK, TaskType, Roles, Executing, Handling, Resolving, Cancelling, GivingBack
<1>3. /\ tasks'[t].role = tasks[t].role /\ tasks'[t].pc = pc /\ tasks'[t].q = tasks[t].q
      /\ tasks'[t].cancelled = tasks[t].cancelled /\ tasks'[t].write = tasks[t].write
      /\ \A u \in Tasks : u # t => tasks'[u] = tasks[u]
  BY GotoView DEF Places, Executing, Handling
<1>4. PlaceOK(t)'
  BY <1>1, <1>2, <1>3 DEF PlaceOK, still, Roles, Executing, Handling, Resolving, Cancelling,
     GivingBack
<1>5. OneApproval => TurnOK(t)'
  BY <1>1, <1>2, <1>3 DEF TurnOK, Engaged, InPast, First, RowPaused, Active, Past, Kind, still,
     HandOK
<1>6. OneApproval /\ ~everClosed => KeptOK(t)'
  BY <1>1, <1>2, <1>3 DEF KeptOK, Prepared, Awaited, Kind, still, Executing, HandOK, PauseOK,
     PlaceOK
<1> QED
  BY <1>1, <1>2, <1>3, <1>4, <1>5, <1>6, GotoMoves
     DEF Places, LimitPlaces, Holding, HandOK, BarrierOK, Kind, Roles, Executing, Handling,
     Resolving, Cancelling, GivingBack

\* The registry refuses to open the turn.
LEMMA TurnNotOpened ==
    ASSUME IInv, NEW t \in Tasks, tasks[t].pc = "open", UNCHANGED still,
           NEW pc \in {"refused", "rollback"}, Goto(t, pc),
           pc = "refused" <=> Kind(tasks[t].q) = "limit"
    PROVE  IInv'
<1>1. /\ PlaceOK(t) /\ HandOK(t) /\ BarrierOK(t) /\ tasks[t] \in TaskType
      /\ OneApproval => PauseOK /\ TurnOK(t)
      /\ OneApproval /\ ~everClosed => KeptOK(t)
  BY TaskFacts
<1>2. tasks[t].role \in {"answer", "reconcile"}
  BY <1>1 DEF PlaceOK, TaskType, Roles, Executing, Handling, Resolving, Cancelling, GivingBack
<1>3. /\ tasks'[t].role = tasks[t].role /\ tasks'[t].pc = pc /\ tasks'[t].q = tasks[t].q
      /\ tasks'[t].cancelled = tasks[t].cancelled /\ tasks'[t].write = tasks[t].write
      /\ \A u \in Tasks : u # t => tasks'[u] = tasks[u]
  BY GotoView DEF Places, Executing, Handling
<1>4. PlaceOK(t)'
  BY <1>1, <1>2, <1>3 DEF PlaceOK, still, Roles, Executing, Handling, Resolving, Cancelling,
     GivingBack
<1>5. OneApproval => TurnOK(t)'
  BY <1>1, <1>2, <1>3 DEF TurnOK, Engaged, InPast, First, RowPaused, Active, Past, Kind, still,
     HandOK
<1>6. OneApproval /\ ~everClosed => KeptOK(t)'
  BY <1>1, <1>2, <1>3 DEF KeptOK, Prepared, Awaited, Kind, still, Executing, HandOK, PauseOK,
     PlaceOK
<1> QED
  BY <1>1, <1>2, <1>3, <1>4, <1>5, <1>6, GotoMoves
     DEF Places, LimitPlaces, Holding, HandOK, BarrierOK, Kind, Roles, Executing, Handling,
     Resolving, Cancelling, GivingBack

\* The turn to be stopped is executing or settled.
LEMMA StopRefused ==
    ASSUME IInv, NEW t \in Tasks, tasks[t].pc = "stopping", UNCHANGED still,
           NEW pc \in {"unstopped"}, Goto(t, pc)
    PROVE  IInv'
<1>1. /\ PlaceOK(t) /\ HandOK(t) /\ BarrierOK(t) /\ tasks[t] \in TaskType
      /\ OneApproval => PauseOK /\ TurnOK(t)
      /\ OneApproval /\ ~everClosed => KeptOK(t)
  BY TaskFacts
<1>2. tasks[t].role \in {"answer", "reconcile", "cancel"}
  BY <1>1 DEF PlaceOK, TaskType, Roles, Executing, Handling, Resolving, Cancelling, GivingBack
<1>3. /\ tasks'[t].role = tasks[t].role /\ tasks'[t].pc = pc /\ tasks'[t].q = tasks[t].q
      /\ tasks'[t].cancelled = tasks[t].cancelled /\ tasks'[t].write = tasks[t].write
      /\ \A u \in Tasks : u # t => tasks'[u] = tasks[u]
  BY GotoView DEF Places, Executing, Handling
<1>4. PlaceOK(t)'
  BY <1>1, <1>2, <1>3 DEF PlaceOK, still, Roles, Executing, Handling, Resolving, Cancelling,
     GivingBack
<1>5. OneApproval => TurnOK(t)'
  BY <1>1, <1>2, <1>3 DEF TurnOK, Engaged, InPast, First, RowPaused, Active, Past, Kind, still,
     HandOK
<1>6. OneApproval /\ ~everClosed => KeptOK(t)'
  BY <1>1, <1>2, <1>3 DEF KeptOK, Prepared, Awaited, Kind, still, Executing, HandOK, PauseOK,
     PlaceOK
<1> QED
  BY <1>1, <1>2, <1>3, <1>4, <1>5, <1>6, GotoMoves
     DEF Places, LimitPlaces, Holding, HandOK, BarrierOK, Kind, Roles, Executing, Handling,
     Resolving, Cancelling, GivingBack

\* A cancelled token ends the resume before it executes.
LEMMA ResumeDropped ==
    ASSUME IInv, NEW t \in Tasks, tasks[t].pc = "spawn", UNCHANGED still,
           NEW pc \in {"unwind"}, Goto(t, pc),
           tasks[t].cancelled
    PROVE  IInv'
<1>1. /\ PlaceOK(t) /\ HandOK(t) /\ BarrierOK(t) /\ tasks[t] \in TaskType
      /\ OneApproval => PauseOK /\ TurnOK(t)
      /\ OneApproval /\ ~everClosed => KeptOK(t)
  BY TaskFacts
<1>2. tasks[t].role \in {"answer", "reconcile"}
  BY <1>1 DEF PlaceOK, TaskType, Roles, Executing, Handling, Resolving, Cancelling, GivingBack
<1>3. /\ tasks'[t].role = tasks[t].role /\ tasks'[t].pc = pc /\ tasks'[t].q = tasks[t].q
      /\ tasks'[t].cancelled = tasks[t].cancelled /\ tasks'[t].write = tasks[t].write
      /\ \A u \in Tasks : u # t => tasks'[u] = tasks[u]
  BY GotoView DEF Places, Executing, Handling
<1>4. PlaceOK(t)'
  BY <1>1, <1>2, <1>3 DEF PlaceOK, still, Roles, Executing, Handling, Resolving, Cancelling,
     GivingBack
<1>5. OneApproval => TurnOK(t)'
  BY <1>1, <1>2, <1>3 DEF TurnOK, Engaged, InPast, First, RowPaused, Active, Past, Kind, still,
     HandOK
<1>6. OneApproval /\ ~everClosed => KeptOK(t)'
  BY <1>1, <1>2, <1>3 DEF KeptOK, Prepared, Awaited, Kind, still, Executing, HandOK, PauseOK,
     PlaceOK
<1> QED
  BY <1>1, <1>2, <1>3, <1>4, <1>5, <1>6, GotoMoves
     DEF Places, LimitPlaces, Holding, HandOK, BarrierOK, Kind, Roles, Executing, Handling,
     Resolving, Cancelling, GivingBack

-----------------------------------------------------------------------------
(* Steps that give a task more than a new place.                           *)

\* One task is replaced: its own and the others' records.
LEMMA ReplaceView ==
    ASSUME IInv, NEW t \in Tasks, NEW n \in TaskType, tasks' = [tasks EXCEPT ![t] = n]
    PROVE  /\ tasks' \in [Tasks -> TaskType] /\ tasks'[t] = n
           /\ \A u \in Tasks : u # t => tasks'[u] = tasks[u]
<1>1. tasks \in [Tasks -> TaskType]
  BY TaskFacts
<1> QED
  BY <1>1, ReplaceFacts DEF Replaced

\* A run ends with a row to write.
LEMMA UpdateMoves ==
    ASSUME IInv, NEW t \in Tasks, tasks[t].pc \in {"running", "asked"}, UNCHANGED still,
           NEW w \in RowType, Update(t, w), w.asks <= Len(questions), w.marker = "none",
           w.status # "preparing_context",
           w.status = "awaiting_approval" => w.asks # 0 /\ Kind(w.asks) = "approval",
           OneApproval /\ w.status = "awaiting_input" => w.asks # 0 /\ Kind(w.asks) # "limit"
    PROVE  IInv'
<1>1. /\ PlaceOK(t) /\ HandOK(t) /\ ScopeOK(t) /\ BarrierOK(t) /\ ReconcileOK(t)
      /\ tasks[t] \in TaskType /\ tasks \in [Tasks -> TaskType]
      /\ OneApproval => PauseOK /\ TurnOK(t)
      /\ OneApproval /\ ~everClosed => KeptOK(t)
  BY TaskFacts
<1>2. tasks[t].role = "run"
  BY <1>1 DEF PlaceOK, TaskType, Roles, Resolving, Cancelling, GivingBack
<1> DEFINE n == AtWrite(tasks[t], "check", w)
<1>3. /\ n \in TaskType /\ n.role = "run" /\ n.pc = "check" /\ n.q = tasks[t].q
      /\ n.revision = tasks[t].revision /\ n.cancelled = tasks[t].cancelled /\ n.write = w
  <2>1. "check" \in Places
    BY DEF Places, Executing
  <2> QED
    BY <1>1, <1>2, <2>1, AtWriteFacts
<1>4. tasks' = [tasks EXCEPT ![t] = n]
  BY <1>1, UpdateFacts
<1> HIDE DEF n
<1>5. tasks'[t] = n /\ \A u \in Tasks : u # t => tasks'[u] = tasks[u]
  BY <1>3, <1>4, ReplaceView
<1>6. PlaceOK(t)' /\ WriteOK(t)' /\ ScopeOK(t)' /\ BarrierOK(t)' /\ ReconcileOK(t)'
  BY <1>1, <1>2, <1>3, <1>5 DEF PlaceOK, WriteOK, ScopeOK, BarrierOK, ReconcileOK, Kind, still,
     Executing, Holding
<1>7. HandOK(t)'
  BY <1>1, <1>3, <1>5 DEF HandOK, StillAnswered, Kind, still
<1>8. OneApproval => TurnOK(t)'
  BY <1>1, <1>3, <1>5 DEF TurnOK, Engaged, InPast, First, RowPaused, Active, Past, Kind, still
<1>9. OneApproval /\ ~everClosed => KeptOK(t)'
  BY <1>1, <1>3, <1>5 DEF KeptOK, Prepared, Awaited, Kind, still, Executing
<1>10. t \in Blocking <=> t \in Blocking'
  BY <1>2, <1>3, <1>5 DEF Blocking
<1> QED
  BY <1>2, <1>3, <1>4, <1>6, <1>7, <1>8, <1>9, <1>10, TaskMoves DEF TaskOK

\* The agent run ends.
LEMMA RunEndsIInv ==
    ASSUME IInv, NEW t \in Tasks, RunEnds(t)
    PROVE  IInv'
<1>1. tasks[t].pc \in {"running", "asked"} /\ UNCHANGED still
  BY DEF RunEnds, still, memory, bounds
<1>2. Types /\ WriteOK(t) /\ (OneApproval => TurnOK(t)) /\ Len(questions) \in Nat
  BY TaskFacts
<1>3. ASSUME NEW st \in {"failed", "completed", "cancelled"}, Update(t, Row(st, "none", 0))
      PROVE  IInv'
  <2>1. /\ Row(st, "none", 0) \in RowType /\ Row(st, "none", 0).status = st
        /\ Row(st, "none", 0).marker = "none" /\ Row(st, "none", 0).asks = 0
    BY RowFacts DEF Statuses, Terminal
  <2> QED
    BY <1>1, <1>2, <1>3, <2>1, UpdateMoves
<1>4. ASSUME tasks[t].pc = "asked", Update(t, Row(Awaiting(Len(questions)), "none", Len(questions)))
      PROVE  IInv'
  <2> DEFINE a == Len(questions)
             w == Row(Awaiting(a), "none", a)
  <2>1. a \in Nat /\ a # 0
    BY <1>2, <1>4 DEF WriteOK
  <2>2. Awaiting(a) = (IF Kind(a) = "approval" THEN "awaiting_approval" ELSE "awaiting_input")
    BY DEF Awaiting, Kind
  <2>3. w \in RowType /\ w.status = Awaiting(a) /\ w.marker = "none" /\ w.asks = a
    BY <2>1, <2>2, RowFacts DEF Statuses
  <2>4. OneApproval => Kind(a) # "limit"
    BY <1>2, <1>4 DEF TurnOK
  <2>5. Update(t, w) /\ a <= Len(questions)
    BY <1>4, <2>1
  <2> HIDE DEF w, a
  <2>6. /\ w.status = "awaiting_approval" => w.asks # 0 /\ Kind(w.asks) = "approval"
        /\ OneApproval /\ w.status = "awaiting_input" => w.asks # 0 /\ Kind(w.asks) # "limit"
        /\ w.status # "preparing_context" /\ w.asks <= Len(questions)
    BY <2>1, <2>2, <2>3, <2>4, <2>5
  <2> QED
    BY <1>1, <2>3, <2>5, <2>6, UpdateMoves
<1>5. ASSUME NEW pc \in {"pause", "error"}, Goto(t, pc), pc = "pause" => "limit" \in Kinds PROVE IInv'
  BY <1>1, <1>5, RunLeaves
<1> QED
  BY <1>3, <1>4, <1>5 DEF RunEnds

\* A handler becomes the task that executes the turn.
LEMMA ExecuteOK ==
    ASSUME IInv, NEW t \in Tasks, InPast(t), tasks[t].role \in {"answer", "reconcile"},
           Execute(t), UNCHANGED <<row, questions, cancelAsked, everClosed>>
    PROVE  /\ tasks' = [tasks EXCEPT ![t] = AsRun(tasks[t], Resumed(t))]
           /\ AsRun(tasks[t], Resumed(t)) \in TaskType
           /\ tasks'[t].role = "run" /\ tasks'[t].pc = "check" /\ tasks'[t].q = tasks[t].q
           /\ tasks'[t].write.asks <= Len(questions)
           /\ PlaceOK(t)' /\ HandOK(t)' /\ WriteOK(t)' /\ BarrierOK(t)' /\ ReconcileOK(t)'
           /\ OneApproval => TurnOK(t)'
           /\ OneApproval /\ (Kind(tasks[t].q) = "limit" => ~Awaited(tasks[t].q)) => KeptOK(t)'
<1>1. /\ PlaceOK(t) /\ HandOK(t) /\ tasks[t] \in TaskType /\ tasks \in [Tasks -> TaskType]
      /\ (OneApproval => TurnOK(t)) /\ tasks[t].q \in Nat /\ tasks[t].q <= Len(questions)
      /\ Len(questions) \in Nat
  BY TaskFacts DEF Types, TaskType
<1> DEFINE w == Resumed(t)
           n == AsRun(tasks[t], w)
<1>2. /\ w \in RowType /\ w.status = "calling_model" /\ w.marker \in {"none", "limit"}
      /\ w.asks <= Len(questions)
      /\ w.marker = "limit" => w.asks = tasks[t].q /\ Kind(tasks[t].q) = "limit"
  <2>1. CASE Kind(tasks[t].q) = "limit"
    BY <1>1, <2>1, RowFacts DEF Resumed, Kind, Statuses
  <2>2. CASE Kind(tasks[t].q) # "limit"
    BY <1>1, <2>2, RowFacts DEF Resumed, Kind, Statuses
  <2> QED
    BY <2>1, <2>2
<1> HIDE DEF w
<1>3. /\ n \in TaskType /\ n.role = "run" /\ n.pc = "check" /\ n.q = tasks[t].q
      /\ n.revision = tasks[t].revision /\ n.cancelled = tasks[t].cancelled /\ n.write = w
  BY <1>1, <1>2, AsRunFacts
<1>4. tasks' = [tasks EXCEPT ![t] = n]
  BY <1>1, ExecuteFacts DEF w
<1> HIDE DEF n
<1>5. tasks'[t] = n /\ \A u \in Tasks : u # t => tasks'[u] = tasks[u]
  BY <1>3, <1>4, ReplaceView
<1>6. PlaceOK(t)' /\ BarrierOK(t)' /\ ReconcileOK(t)'
  BY <1>1, <1>3, <1>5 DEF PlaceOK, BarrierOK, ReconcileOK, Executing
<1>7. WriteOK(t)'
  BY <1>1, <1>2, <1>3, <1>5 DEF WriteOK, Kind, InPast
<1>8. HandOK(t)'
  BY <1>1, <1>3, <1>5 DEF HandOK, StillAnswered, Kind
<1>9. OneApproval => TurnOK(t)'
  <2>1. Engaged(t) /\ tasks[t].q # 0
    BY DEF Engaged, InPast
  <2>2. Kind(Len(questions))' = Kind(Len(questions)) /\ row' = row
    BY DEF Kind
  <2>3. OneApproval => \A u \in Tasks : u # t => ~Engaged(u)'
    BY <1>1, <1>5, <2>1 DEF TurnOK, Engaged, InPast
  <2>4. OneApproval /\ RowPaused' => row.asks = tasks[t].q
    BY <1>1 DEF TurnOK, RowPaused, Terminal
  <2> QED
    BY <1>2, <1>3, <1>5, <2>1, <2>2, <2>3, <2>4 DEF TurnOK, First, InPast, Past
<1>10. OneApproval /\ (Kind(tasks[t].q) = "limit" => ~Awaited(tasks[t].q)) => KeptOK(t)'
  BY <1>3, <1>5 DEF KeptOK, Awaited, Kind
<1> QED
  BY <1>2, <1>3, <1>4, <1>5, <1>6, <1>7, <1>8, <1>9, <1>10 DEF n, w

\* A confirmed resume is spawned, unless its token was cancelled.
LEMMA SpawnResumedIInv ==
    ASSUME IInv, NEW t \in Tasks, SpawnResumed(t)
    PROVE  IInv'
<1>1. tasks[t].pc = "spawn" /\ UNCHANGED still
  BY DEF SpawnResumed, still, memory, bounds
<1>2. /\ PlaceOK(t) /\ ScopeOK(t) /\ HandOK(t) /\ tasks[t] \in TaskType /\ tasks[t].q \in Nat
      /\ (OneApproval /\ ~everClosed => KeptOK(t))
  BY TaskFacts DEF TaskType
<1>3. tasks[t].role \in {"answer", "reconcile"} /\ tasks[t].q # 0
  BY <1>1, <1>2 DEF PlaceOK, TaskType, Roles, Resolving, Cancelling, GivingBack, Executing
<1>4. CASE tasks[t].cancelled
  BY <1>1, <1>4, ResumeDropped DEF SpawnResumed
<1>5. CASE ~tasks[t].cancelled
  <2>1. Execute(t) /\ InPast(t) /\ UNCHANGED <<row, questions, cancelAsked, everClosed>>
    BY <1>1, <1>3, <1>5 DEF SpawnResumed, InPast, Past, still
  <2> DEFINE n == AsRun(tasks[t], Resumed(t))
  <2>2. /\ tasks' = [tasks EXCEPT ![t] = n] /\ n \in TaskType
        /\ tasks'[t].role = "run" /\ tasks'[t].pc = "check" /\ tasks'[t].q = tasks[t].q
        /\ tasks'[t].write.asks <= Len(questions)
        /\ PlaceOK(t)' /\ HandOK(t)' /\ WriteOK(t)' /\ BarrierOK(t)' /\ ReconcileOK(t)'
        /\ OneApproval => TurnOK(t)'
        /\ OneApproval /\ (Kind(tasks[t].q) = "limit" => ~Awaited(tasks[t].q)) => KeptOK(t)'
    BY <1>3, <2>1, ExecuteOK
  <2> HIDE DEF n
  <2>3. tasks'[t] = n
    BY <2>2, ReplaceView
  <2>4. ScopeOK(t)'
    BY <1>1, <1>2, <2>2 DEF ScopeOK, Holding, Executing, still
  <2>5. OneApproval /\ ~everClosed => KeptOK(t)'
    BY <1>1, <1>2, <1>3, <2>2 DEF KeptOK
  <2>6. t \in Blocking <=> t \in Blocking'
    BY <1>3, <2>2 DEF Blocking
  <2> QED
    BY <1>1, <1>3, <2>2, <2>3, <2>4, <2>5, <2>6, TaskMoves DEF TaskOK
<1> QED
  BY <1>4, <1>5


-----------------------------------------------------------------------------
(* Opening and closing the scope of the turn.                              *)

\* The barrier: without one, no cancellation is past raising it.
LEMMA NoBarrier ==
    ASSUME IInv, blocks = 0, NEW t \in Tasks, tasks[t].role = "cancel"
    PROVE  tasks[t].pc \in {"cancel", "barrier", "signal"}
<1>1. IsFiniteSet(Blocking)
  BY PauseAssumption, FS_Subset DEF Blocking
<1>2. Cardinality(Blocking) = 0
  BY DEF IInv
<1>3. Blocking = {}
  BY <1>1, <1>2, FS_EmptySet
<1> QED
  BY <1>3 DEF Blocking

\* The task that holds the scope closes it.
LEMMA ScopeCloses ==
    ASSUME IInv, NEW t \in Tasks, tasks[t].pc \in Holding, tasks[t].role \notin {"none", "cancel"},
           NEW n \in TaskType, tasks' = [tasks EXCEPT ![t] = n], n.role # "cancel", scope' = NoTask,
           UNCHANGED <<session, blocks, closed, cancelAsked, everClosed>>
    PROVE  Others(t) /\ Steady
<1>1. tasks'[t] = n /\ \A u \in Tasks : u # t => tasks'[u] = tasks[u]
  BY ReplaceView
<1>2. Blocking' = Blocking
  BY <1>1 DEF Blocking
<1>3. Steady
  BY <1>2, PauseAssumption DEF IInv, Types, Steady
<1>4. ASSUME NEW u \in Tasks, u # t
      PROVE  Same(u) /\ tasks[u].role # "reconcile" /\ ScopeOK(u)' /\ BarrierOK(u)'
  <2>1. ScopeOK(t) /\ ScopeOK(u) /\ tasks'[u] = tasks[u] /\ tasks[u].role # "reconcile" /\ NoTask \notin Tasks
    BY <1>1, <1>4, TaskFacts, NobodyReconciles, PauseAssumption
  <2> QED
    BY <1>4, <2>1 DEF ScopeOK, BarrierOK, Same
<1> QED
  BY <1>3, <1>4 DEF Others

\* A task that gives the scope back and is done.
LEMMA ScopeDone ==
    ASSUME IInv, NEW t \in Tasks, tasks[t].pc \in Holding, tasks[t].role \notin {"none", "cancel"},
           Done(t), scope' = NoTask,
           UNCHANGED <<row, questions, session, blocks, closed, cancelAsked, everClosed>>,
           OneApproval /\ ~everClosed /\ tasks[t].q # 0 /\ Kind(tasks[t].q) = "limit"
             /\ Waits(tasks[t].q) => cancelAsked /\ row.status = "preparing_context"
    PROVE  IInv'
<1>1. tasks \in [Tasks -> TaskType] /\ Len(questions) \in Nat
  BY TaskFacts
<1>2. tasks' = [tasks EXCEPT ![t] = Idle] /\ tasks' \in [Tasks -> TaskType] /\ tasks'[t] = Idle
  BY <1>1, DoneFacts, ReplaceView, IdleType
<1>3. Others(t) /\ Steady
  BY <1>2, ScopeCloses, IdleType
<1>4. TaskOK(t)'
  BY <1>2, IdleType, PauseAssumption DEF TaskOK, PlaceOK, HandOK, WriteOK, ScopeOK, BarrierOK,
     ReconcileOK, Holding, Executing
<1>5. TurnOK(t)' /\ KeptOK(t)'
  BY <1>2, IdleType DEF TurnOK, KeptOK, Engaged, InPast, Active, Past
<1>6. tasks'[t].q = 0 /\ tasks'[t].write.asks <= Len(questions) /\ tasks'[t].role # "reconcile"
  BY <1>1, <1>2, IdleType
<1> QED
  BY <1>2, <1>3, <1>4, <1>5, <1>6, RowsStay

\* The execution is over.
LEMMA FinishIInv ==
    ASSUME IInv, NEW t \in Tasks, Finish(t)
    PROVE  IInv'
<1>1. PlaceOK(t) /\ tasks[t] \in TaskType /\ (OneApproval /\ ~everClosed => KeptOK(t))
  BY TaskFacts
<1>2. tasks[t].pc = "finish" /\ tasks[t].role = "run" /\ tasks[t].pc \in Holding
  BY <1>1 DEF Finish, PlaceOK, TaskType, Roles, Resolving, Cancelling, GivingBack, Executing,
     Holding
<1>3. OneApproval /\ ~everClosed /\ tasks[t].q # 0 /\ Kind(tasks[t].q) = "limit" => ~Waits(tasks[t].q)
  BY <1>1, <1>2 DEF KeptOK, Waits, Executing
<1> QED
  BY <1>2, <1>3, ScopeDone DEF Finish, CloseTurn, bounds

\* A resume that was not confirmed is taken back.
LEMMA UnwindIInv ==
    ASSUME IInv, NEW t \in Tasks, Unwind(t)
    PROVE  IInv'
<1>1. PlaceOK(t) /\ tasks[t] \in TaskType /\ (OneApproval /\ ~everClosed => KeptOK(t))
  BY TaskFacts
<1>2. tasks[t].pc = "unwind" /\ tasks[t].role \in {"answer", "reconcile"} /\ tasks[t].pc \in Holding
  BY <1>1 DEF Unwind, PlaceOK, TaskType, Roles, Resolving, Cancelling, GivingBack, Executing,
     Holding
<1>3. OneApproval /\ ~everClosed /\ tasks[t].q # 0 /\ Kind(tasks[t].q) = "limit" /\ Waits(tasks[t].q)
      => cancelAsked /\ row.status = "preparing_context"
  BY <1>1, <1>2 DEF KeptOK, Waits, Prepared
<1> QED
  BY <1>2, <1>3, ScopeDone DEF Unwind, CloseTurn, bounds

\* An execution that failed before it began gives its decision back.
LEMMA FailsEarlyIInv ==
    ASSUME IInv, NEW t \in Tasks, FailsEarly(t)
    PROVE  IInv'
<1>1. /\ PlaceOK(t) /\ HandOK(t) /\ WriteOK(t) /\ ReconcileOK(t) /\ tasks[t] \in TaskType
      /\ tasks \in [Tasks -> TaskType] /\ tasks[t].write.asks <= Len(questions)
      /\ OneApproval => TurnOK(t)
      /\ OneApproval /\ ~everClosed => KeptOK(t)
  BY TaskFacts
<1>2. /\ tasks[t].pc = "early" /\ tasks[t].role = "run" /\ tasks[t].pc \in Holding /\ tasks[t].q # 0
      /\ scope' = NoTask
      /\ UNCHANGED <<row, questions, session, blocks, closed, cancelAsked, everClosed>>
  BY <1>1 DEF FailsEarly, CloseTurn, bounds, PlaceOK, TaskType, Roles, Resolving, Cancelling,
     GivingBack, Executing, Holding
<1> DEFINE n == At(tasks[t], "rollback")
<1>3. /\ n \in TaskType /\ n.role = "run" /\ n.pc = "rollback" /\ n.q = tasks[t].q
      /\ n.revision = tasks[t].revision /\ n.cancelled = tasks[t].cancelled
      /\ n.write = tasks[t].write /\ tasks' = [tasks EXCEPT ![t] = n]
  <2>1. "rollback" \in Places /\ Goto(t, "rollback")
    BY DEF Places, Handling, FailsEarly
  <2> QED
    BY <1>1, <1>2, <2>1, AtFacts, GotoFacts
<1> HIDE DEF n
<1>4. tasks' \in [Tasks -> TaskType] /\ tasks'[t] = n /\ \A u \in Tasks : u # t => tasks'[u] = tasks[u]
  BY <1>3, ReplaceView
<1>5. Others(t) /\ Steady
  BY <1>2, <1>3, ScopeCloses
<1>6. PlaceOK(t)' /\ WriteOK(t)' /\ ScopeOK(t)' /\ BarrierOK(t)' /\ ReconcileOK(t)'
  BY <1>1, <1>2, <1>3, <1>4, PauseAssumption DEF PlaceOK, WriteOK, ScopeOK, BarrierOK,
     ReconcileOK,
     GivingBack, Holding, Executing
<1>7. HandOK(t)'
  BY <1>1, <1>2, <1>3, <1>4 DEF HandOK, StillAnswered, Kind
<1>8. OneApproval => TurnOK(t)'
  BY <1>3, <1>4 DEF TurnOK, Engaged, InPast, Active, Past
<1>9. OneApproval /\ ~everClosed => KeptOK(t)'
  BY <1>2, <1>3, <1>4 DEF KeptOK, Executing
<1> QED
  BY <1>1, <1>2, <1>3, <1>4, <1>5, <1>6, <1>7, <1>8, <1>9, RowsStay DEF TaskOK

\* open_turn gives a task the scope of the turn: nobody else is to resume it.
LEMMA ScopeOpens ==
    ASSUME IInv, NEW t \in Tasks, InPast(t), tasks[t].role \in {"answer", "reconcile"}, MayOpen,
           NEW n \in TaskType, tasks' = [tasks EXCEPT ![t] = n], n.role # "cancel", scope' = t,
           UNCHANGED <<row, questions, session, blocks, closed, cancelAsked, everClosed>>
    PROVE  /\ Others(t) /\ Steady
           /\ OneApproval => \A u \in Tasks : u # t /\ tasks[u].q # 0 => ~Waits(tasks[u].q)
<1>1. tasks'[t] = n /\ \A u \in Tasks : u # t => tasks'[u] = tasks[u]
  BY ReplaceView
<1>2. Blocking' = Blocking
  BY <1>1 DEF Blocking
<1>3. Steady
  BY <1>2 DEF IInv, Types, Steady
<1>4. ASSUME NEW u \in Tasks, u # t
      PROVE  Same(u) /\ tasks[u].role # "reconcile" /\ ScopeOK(u)' /\ BarrierOK(u)'
  <2>1. ScopeOK(u) /\ tasks'[u] = tasks[u] /\ tasks[u].role # "reconcile" /\ NoTask \notin Tasks
    BY <1>1, <1>4, TaskFacts, NobodyReconciles, PauseAssumption
  <2>2. tasks[u].role = "cancel" => tasks[u].pc \in {"cancel", "barrier", "signal"}
    BY NoBarrier DEF MayOpen
  <2> QED
    BY <1>4, <2>1, <2>2 DEF ScopeOK, BarrierOK, Same, MayOpen
<1>5. ASSUME OneApproval, NEW u \in Tasks, u # t, tasks[u].q # 0 PROVE ~Waits(tasks[u].q)
  <2>1. HandOK(u) /\ TurnOK(t)
    BY <1>5, TaskFacts
  <2> QED
    BY <1>5, <2>1 DEF HandOK, TurnOK, Waits, Prepared, Awaited, Terminal
<1> QED
  BY <1>3, <1>4, <1>5 DEF Others

\* The record of a task that goes to another place.
LEMMA GotoRecord ==
    ASSUME IInv, NEW t \in Tasks, NEW pc \in Places, Goto(t, pc)
    PROVE  \E n \in TaskType :
             /\ tasks' = [tasks EXCEPT ![t] = n] /\ tasks' \in [Tasks -> TaskType] /\ tasks'[t] = n
             /\ n.role = tasks[t].role /\ n.pc = pc /\ n.q = tasks[t].q
             /\ n.revision = tasks[t].revision /\ n.cancelled = tasks[t].cancelled
             /\ n.write = tasks[t].write
             /\ \A u \in Tasks : u # t => tasks'[u] = tasks[u]
<1>1. tasks[t] \in TaskType /\ tasks \in [Tasks -> TaskType]
  BY TaskFacts
<1>2. At(tasks[t], pc) \in TaskType /\ tasks' = [tasks EXCEPT ![t] = At(tasks[t], pc)]
  BY <1>1, AtFacts, GotoFacts
<1>3. tasks' \in [Tasks -> TaskType] /\ tasks'[t] = At(tasks[t], pc)
      /\ \A u \in Tasks : u # t => tasks'[u] = tasks[u]
  BY <1>2, ReplaceView
<1> QED
  BY <1>1, <1>2, <1>3, AtFacts

\* open_turn
LEMMA OpenTurnIInv ==
    ASSUME IInv, NEW t \in Tasks, OpenTurn(t)
    PROVE  IInv'
<1>1. /\ PlaceOK(t) /\ HandOK(t) /\ WriteOK(t) /\ ScopeOK(t) /\ tasks[t] \in TaskType
      /\ tasks[t].write.asks <= Len(questions) /\ tasks[t].q \in Nat
      /\ OneApproval => TurnOK(t)
      /\ OneApproval /\ ~everClosed => KeptOK(t)
  BY TaskFacts DEF TaskType
<1>2. tasks[t].pc = "open" /\ tasks[t].role \in {"answer", "reconcile"} /\ tasks[t].q # 0
      /\ UNCHANGED <<row, questions, session, blocks, closed, cancelAsked, everClosed>>
  BY <1>1 DEF OpenTurn, PlaceOK, TaskType, Roles, Resolving, Cancelling, GivingBack, Executing,
     bounds,
     memory
<1>3. InPast(t)
  BY <1>2 DEF InPast, Past
<1>4. CASE MayOpen /\ Kind(tasks[t].q) = "limit"
  <2>1. scope' = t /\ Goto(t, "confirm") /\ "confirm" \in Places
    BY <1>4 DEF OpenTurn, Kind, Places, Handling
  <2>2. PICK n \in TaskType :
             /\ tasks' = [tasks EXCEPT ![t] = n] /\ tasks' \in [Tasks -> TaskType] /\ tasks'[t] = n
             /\ n.role = tasks[t].role /\ n.pc = "confirm" /\ n.q = tasks[t].q
             /\ n.revision = tasks[t].revision /\ n.cancelled = tasks[t].cancelled
             /\ n.write = tasks[t].write
             /\ \A u \in Tasks : u # t => tasks'[u] = tasks[u]
    BY <2>1, GotoRecord
  <2>3. /\ Others(t) /\ Steady
        /\ OneApproval => \A u \in Tasks : u # t /\ tasks[u].q # 0 => ~Waits(tasks[u].q)
    BY <1>2, <1>3, <1>4, <2>1, <2>2, ScopeOpens
  <2>4. PlaceOK(t)' /\ WriteOK(t)' /\ ScopeOK(t)' /\ BarrierOK(t)' /\ ReconcileOK(t)'
    <3>1. ReconcileOK(t)
      BY TaskFacts
    <3> QED
      BY <1>1, <1>2, <2>1, <2>2, <3>1 DEF PlaceOK, WriteOK, ScopeOK, BarrierOK, ReconcileOK,
         Resolving, Holding, Executing
  <2>5. HandOK(t)'
    BY <1>1, <1>2, <1>4, <2>2 DEF HandOK, StillAnswered, Kind
  <2>6. OneApproval => TurnOK(t)'
    BY <1>1, <1>2, <1>3, <2>2 DEF TurnOK, Engaged, InPast, Active, Past, RowPaused
  <2>7. OneApproval /\ ~everClosed => KeptOK(t)'
    BY <1>1, <1>2, <1>4, <2>2 DEF KeptOK, Prepared, Awaited, Kind, Executing
  <2> QED
    BY <1>1, <1>2, <2>2, <2>3, <2>4, <2>5, <2>6, <2>7, RowsStay DEF TaskOK
<1>5. CASE MayOpen /\ Kind(tasks[t].q) # "limit"
  <2>1. scope' = t /\ Execute(t)
    BY <1>5 DEF OpenTurn, Kind
  <2> DEFINE n == AsRun(tasks[t], Resumed(t))
  <2>2. /\ tasks' = [tasks EXCEPT ![t] = n] /\ n \in TaskType
        /\ tasks'[t].role = "run" /\ tasks'[t].pc = "check" /\ tasks'[t].q = tasks[t].q
        /\ tasks'[t].write.asks <= Len(questions)
        /\ PlaceOK(t)' /\ HandOK(t)' /\ WriteOK(t)' /\ BarrierOK(t)' /\ ReconcileOK(t)'
        /\ OneApproval => TurnOK(t)'
        /\ OneApproval => KeptOK(t)'
    BY <1>2, <1>3, <1>5, <2>1, ExecuteOK
  <2> HIDE DEF n
  <2>3. tasks' \in [Tasks -> TaskType] /\ tasks'[t] = n
    BY <2>2, ReplaceView
  <2>4. /\ Others(t) /\ Steady
        /\ OneApproval => \A u \in Tasks : u # t /\ tasks[u].q # 0 => ~Waits(tasks[u].q)
    BY <1>2, <1>3, <1>5, <2>1, <2>2, <2>3, ScopeOpens
  <2>5. ScopeOK(t)'
    BY <2>1, <2>2 DEF ScopeOK, Holding, Executing
  <2> QED
    BY <1>2, <2>2, <2>3, <2>4, <2>5, RowsStay DEF TaskOK
<1>6. CASE ~MayOpen
  <2>1. UNCHANGED still
    BY <1>2, <1>6 DEF OpenTurn, still, memory
  <2>2. CASE Kind(tasks[t].q) = "limit"
    BY <1>2, <1>6, <2>1, <2>2, TurnNotOpened DEF OpenTurn, Kind
  <2>3. CASE Kind(tasks[t].q) = "approval"
    <3>1. Done(t)
      BY <1>6, <2>3 DEF OpenTurn, Kind, GiveUp
    <3>2. tasks[t].pc \notin Holding
      BY <1>2 DEF Holding, Executing
    <3> QED
      BY <1>2, <2>1, <2>3, <3>1, <3>2, DoneMoves
  <2>4. CASE Kind(tasks[t].q) \notin {"limit", "approval"}
    BY <1>2, <1>6, <2>1, <2>4, TurnNotOpened DEF OpenTurn, Kind, GiveUp
  <2> QED
    BY <2>2, <2>3, <2>4
<1> QED
  BY <1>4, <1>5, <1>6

-----------------------------------------------------------------------------
(* Steps on the rows.                                                      *)

\* A step of one task on the rows: what others keep.
LEMMA RowsChange ==
    ASSUME IInv, NEW t \in Tasks, tasks[t].role # "none", NEW n \in TaskType,
           tasks' = [tasks EXCEPT ![t] = n], n.q = tasks[t].q \/ n.q = 0,
           n.role = "reconcile" => tasks[t].role = "reconcile", n.write.asks <= Len(questions'),
           UNCHANGED <<session, scope, blocks, closed, cancelAsked, everClosed>>,
           t \in Blocking <=> t \in Blocking',
           QuestionsGrow(t), row' \in RowType, row'.asks <= Len(questions'), RowOK',
           TaskOK(t)',
           OneApproval' => PauseOK' /\ \A u \in Tasks : TurnOK(u)',
           OneApproval' /\ ~everClosed => DecisionKept' /\ \A u \in Tasks : KeptOK(u)'
    PROVE  IInv'
<1>1. /\ tasks' \in [Tasks -> TaskType] /\ tasks'[t] = n
      /\ \A u \in Tasks : u # t => tasks'[u] = tasks[u]
  BY ReplaceView
<1>2. Types /\ HandOK(t) /\ Len(questions) \in Nat /\ tasks[t].q \in Nat /\ tasks[t].q <= Len(questions)
      /\ Len(questions') \in Nat
  BY TaskFacts DEF Types, TaskType, QuestionsGrow
<1>3. Blocking' = Blocking
  BY <1>1 DEF Blocking
<1>4. Steady
  BY <1>2, <1>3 DEF IInv, Types, Steady
<1>5. Others(t)
  <2> SUFFICES ASSUME NEW u \in Tasks, u # t
               PROVE  Same(u) /\ tasks[u].role # "reconcile" /\ ScopeOK(u)' /\ BarrierOK(u)'
    BY DEF Others
  <2>1. tasks'[u] = tasks[u] /\ tasks[u].role # "reconcile" /\ ScopeOK(u) /\ BarrierOK(u)
    BY <1>1, TaskFacts, NobodyReconciles
  <2> QED
    BY <2>1 DEF Same, ScopeOK, BarrierOK
<1>6. tasks'[t].q <= Len(questions') /\ (tasks'[t].q # 0 => \A u \in Tasks : u # t => tasks[u].q # tasks'[t].q)
  BY <1>1, <1>2 DEF QuestionsGrow, HandOK
<1> QED
  BY <1>1, <1>4, <1>5, <1>6, StepMoves

\* The questions stay as they are.
LEMMA QuestionsStay ==
    ASSUME IInv, NEW t \in Tasks, questions' = questions
    PROVE  QuestionsGrow(t) /\ (OneApproval' <=> OneApproval)
BY DEF IInv, Types, QuestionsGrow, OneApproval, Kind

\* As questions are added there are not fewer approvals.
LEMMA ApprovalsStay ==
    ASSUME IInv, NEW t \in Tasks, QuestionsGrow(t), OneApproval'
    PROVE  OneApproval
<1>1. /\ DOMAIN questions = 1..Len(questions) /\ DOMAIN questions' = 1..Len(questions')
      /\ Len(questions) \in Nat /\ Len(questions') \in Nat /\ Len(questions) <= Len(questions')
  BY DEF IInv, Types, QuestionsGrow
<1>2. \A q \in DOMAIN questions : q \in DOMAIN questions' /\ Kind(q)' = Kind(q)
  BY <1>1 DEF QuestionsGrow, Kind
<1> QED
  BY <1>2 DEF OneApproval

\* A step that ends the turn, while nobody is about to write it.
LEMMA TurnEnds ==
    ASSUME IInv, NEW t \in Tasks, tasks[t].role # "none", NEW n \in TaskType,
           tasks' = [tasks EXCEPT ![t] = n], n.q = tasks[t].q \/ n.q = 0,
           n.role = "reconcile" => tasks[t].role = "reconcile", n.write.asks <= Len(questions'),
           UNCHANGED <<session, scope, blocks, closed, cancelAsked, everClosed>>,
           t \in Blocking <=> t \in Blocking',
           QuestionsGrow(t), Len(questions') = Len(questions),
           row' \in RowType, row'.asks <= Len(questions'), row'.status \in Terminal, row'.marker = "none",
           TaskOK(t)', n.pc \notin Active, n.q = 0 \/ n.pc \notin Past,
           OneApproval /\ ~everClosed => \A u \in Tasks : u # t => tasks[u].pc # "write"
    PROVE  IInv'
<1>1. /\ tasks' \in [Tasks -> TaskType] /\ tasks'[t] = n
      /\ \A u \in Tasks : u # t => tasks'[u] = tasks[u]
  BY ReplaceView
<1>2. RowOK'
  BY DEF RowOK, Terminal
<1>3. ~RowPaused' /\ \A q \in Nat : ~Prepared(q)' /\ ~Awaited(q)'
  BY DEF RowPaused, Prepared, Awaited, Terminal
<1>4. \A q \in 1..Len(questions) : Kind(q)' = Kind(q)
  BY DEF QuestionsGrow, Kind
<1>5. ASSUME OneApproval' PROVE OneApproval /\ PauseOK' /\ \A u \in Tasks : TurnOK(u)'
  <2>1. OneApproval
    BY <1>5, ApprovalsStay
  <2>2. PauseOK'
    BY DEF PauseOK, Terminal
  <2>3. ~Engaged(t)' /\ TurnOK(t)'
    BY <1>1, <1>3 DEF TurnOK, Engaged, InPast, Active
  <2>4. ASSUME NEW u \in Tasks, u # t PROVE TurnOK(u)'
    <3>1. TurnOK(u) /\ WriteOK(u) /\ tasks'[u] = tasks[u] /\ tasks[u] \in TaskType
          /\ tasks[u].write.asks <= Len(questions) /\ tasks[u].write.asks \in Nat /\ Len(questions) \in Nat
      BY <1>1, <2>1, <2>4, TaskFacts DEF TaskType, RowType
    <3>2. Engaged(u)' => \A v \in Tasks : v # u => ~Engaged(v)'
      BY <1>1, <2>3, <2>4, <3>1 DEF TurnOK, Engaged, InPast
    <3>3. tasks[u].pc = "asked" => Kind(Len(questions))' # "limit"
      BY <1>4, <3>1 DEF TurnOK, WriteOK
    <3>4. tasks[u].pc \in {"check", "write"} /\ tasks[u].write.status = "awaiting_input"
          => tasks[u].write.asks # 0 /\ Kind(tasks[u].write.asks)' # "limit"
      BY <1>4, <3>1 DEF TurnOK
    <3> QED
      BY <1>3, <3>1, <3>2, <3>3, <3>4 DEF TurnOK, Kind
  <2> QED
    BY <2>1, <2>2, <2>3, <2>4
<1>6. ASSUME OneApproval', ~everClosed PROVE DecisionKept' /\ \A u \in Tasks : KeptOK(u)'
  <2>1. DecisionKept'
    BY DEF DecisionKept, Stranded, Terminal
  <2>2. ASSUME NEW u \in Tasks PROVE KeptOK(u)'
    <3>1. tasks'[u].pc # "write" /\ tasks'[u].q \in Nat
      BY <1>1, <1>5, <1>6 DEF Active, TaskType
    <3> QED
      BY <1>3, <3>1 DEF KeptOK
  <2> QED
    BY <2>1, <2>2
<1> QED
  BY <1>2, <1>5, <1>6, RowsChange

\* A task at work: its record and where it may be.
LEMMA RunRole ==
    ASSUME IInv, NEW t \in Tasks, tasks[t].pc \in Executing
    PROVE  tasks[t].role = "run"
<1>1. PlaceOK(t) /\ tasks[t] \in TaskType
  BY TaskFacts
<1> QED
  BY <1>1 DEF PlaceOK, TaskType, Roles, Resolving, Cancelling, GivingBack, Executing

\* A failure of the execution is settled in the row.
LEMMA FailTurnIfActiveIInv ==
    ASSUME IInv, NEW t \in Tasks, FailTurnIfActive(t)
    PROVE  IInv'
<1>1. /\ PlaceOK(t) /\ HandOK(t) /\ WriteOK(t) /\ ScopeOK(t) /\ ReconcileOK(t) /\ tasks[t] \in TaskType
      /\ tasks[t].write.asks <= Len(questions) /\ Types /\ Len(questions) \in Nat
  BY TaskFacts
<1>2. tasks[t].pc = "fail" /\ tasks[t].role = "run"
  BY RunRole DEF FailTurnIfActive, Executing
<1>3. /\ Goto(t, "finish") /\ "finish" \in Places
      /\ UNCHANGED <<questions, session, scope, blocks, closed, cancelAsked, everClosed>>
  BY DEF FailTurnIfActive, memory, bounds, Places, Executing
<1>4. CASE row.status \notin {"idle", "preparing_context", "calling_model"}
  <2>1. UNCHANGED still
    BY <1>3, <1>4 DEF FailTurnIfActive, still
  <2> QED
    BY <1>2, <1>3, <2>1, FailureSettled
<1>5. CASE row.status \in {"idle", "preparing_context", "calling_model"}
  <2>1. /\ row' \in RowType /\ row'.asks = 0 /\ row'.status \in Terminal /\ row'.marker = "none"
    BY <1>5, RowFacts DEF FailTurnIfActive, Statuses, Terminal
  <2>2. PICK n \in TaskType :
             /\ tasks' = [tasks EXCEPT ![t] = n] /\ tasks' \in [Tasks -> TaskType] /\ tasks'[t] = n
             /\ n.role = tasks[t].role /\ n.pc = "finish" /\ n.q = tasks[t].q
             /\ n.revision = tasks[t].revision /\ n.cancelled = tasks[t].cancelled
             /\ n.write = tasks[t].write
             /\ \A u \in Tasks : u # t => tasks'[u] = tasks[u]
    BY <1>3, GotoRecord
  <2>3. PlaceOK(t)' /\ WriteOK(t)' /\ ScopeOK(t)' /\ BarrierOK(t)' /\ ReconcileOK(t)'
    BY <1>1, <1>2, <1>3, <2>2 DEF PlaceOK, WriteOK, ScopeOK, BarrierOK, ReconcileOK, Holding,
       Executing
  <2>4. HandOK(t)'
    BY <1>1, <1>3, <2>2 DEF HandOK, StillAnswered, Kind
  <2>5. QuestionsGrow(t) /\ Len(questions') = Len(questions) /\ row'.asks <= Len(questions')
    BY <1>1, <1>3, <2>1, QuestionsStay
  <2>6. ASSUME ~everClosed, NEW u \in Tasks, u # t PROVE tasks[u].pc # "write"
    <3>1. ScopeOK(u)
      BY TaskFacts
    <3> QED
      BY <1>1, <1>2, <2>6, <3>1 DEF ScopeOK, Holding, Executing
  <2>7. t \in Blocking <=> t \in Blocking'
    BY <1>2, <2>2 DEF Blocking
  <2>8. n.pc \notin Active /\ n.pc \notin Past /\ n.write.asks <= Len(questions')
    BY <1>1, <1>3, <2>2 DEF Active, Past
  <2> QED
    BY <1>2, <1>3, <2>1, <2>2, <2>3, <2>4, <2>5, <2>6, <2>7, <2>8, TurnEnds DEF TaskOK
<1> QED
  BY <1>4, <1>5

\* A question with another status and its next revision.
Moved(r, status) == [r EXCEPT !.status = status, !.revision = @ + 1]

\* Its fields.
LEMMA MovedFacts ==
    ASSUME NEW r \in QuestionType, NEW status \in {"pending", "answered", "cancelled"}
    PROVE  /\ Moved(r, status) \in QuestionType /\ Moved(r, status).kind = r.kind
           /\ Moved(r, status).status = status /\ Moved(r, status).revision = r.revision + 1
<1>1. r.revision + 1 \in Nat
  BY DEF QuestionType
<1>2. Moved(r, status) \in QuestionType
  BY <1>1 DEF Moved, QuestionType
<1>3. /\ Moved(r, status).kind = r.kind
      /\ Moved(r, status).status = status /\ Moved(r, status).revision = r.revision + 1
  BY DEF Moved, QuestionType
<1> QED
  BY <1>2, <1>3

\* What a withdrawal leaves of the questions.
LEMMA WithdrawnFacts ==
    ASSUME IInv, questions' = Withdrawn
    PROVE  /\ Len(questions') = Len(questions)
           /\ \A t \in Tasks : QuestionsGrow(t)
           /\ \A t \in Tasks : tasks[t].q # 0 => questions'[tasks[t].q] = questions[tasks[t].q]
<1>1. questions \in Seq(QuestionType) /\ Len(questions) \in Nat /\ DOMAIN questions = 1..Len(questions)
  BY TaskFacts DEF IInv, Types
<1> DEFINE new(q) == IF questions[q].status = "pending" /\ questions[q].kind # "approval"
                     THEN Moved(questions[q], "cancelled") ELSE questions[q]
<1>2. \A q \in 1..Len(questions) : questions[q] \in QuestionType
  BY <1>1
<1>3. ASSUME NEW q \in 1..Len(questions)
      PROVE  new(q) \in QuestionType /\ new(q).kind = questions[q].kind
             /\ (questions[q].status # "pending" => new(q) = questions[q])
  BY <1>2, MovedFacts
<1> HIDE DEF new
<1>4. questions' = [q \in 1..Len(questions) |-> new(q)]
  BY <1>1 DEF Withdrawn, new, Moved
<1>5. questions' \in Seq(QuestionType) /\ Len(questions') = Len(questions)
  BY <1>1, <1>3, <1>4
<1>6. ASSUME NEW t \in Tasks, tasks[t].q # 0
      PROVE  questions'[tasks[t].q] = questions[tasks[t].q]
  <2>1. HandOK(t) /\ tasks[t].q \in 1..Len(questions)
    BY <1>1, <1>6, TaskFacts DEF Types, TaskType
  <2> QED
    BY <1>3, <1>4, <1>6, <2>1 DEF HandOK, StillAnswered
<1>7. \A q \in 1..Len(questions) : questions'[q].kind = questions[q].kind
  BY <1>3, <1>4
<1> QED
  BY <1>1, <1>5, <1>6, <1>7 DEF QuestionsGrow

\* cancel_paused_turn_and_pending_questions
LEMMA StopPausedIInv ==
    ASSUME IInv, NEW t \in Tasks, StopPaused(t)
    PROVE  IInv'
<1>1. /\ PlaceOK(t) /\ HandOK(t) /\ WriteOK(t) /\ ScopeOK(t) /\ BarrierOK(t) /\ ReconcileOK(t)
      /\ tasks[t] \in TaskType /\ tasks \in [Tasks -> TaskType]
      /\ tasks[t].write.asks <= Len(questions) /\ Types /\ Len(questions) \in Nat
      /\ OneApproval => TurnOK(t)
  BY TaskFacts
<1>2. /\ tasks[t].pc = "stopping" /\ tasks[t].role \in {"cancel", "answer", "reconcile"}
      /\ tasks[t].role # "cancel" => InPast(t)
      /\ tasks[t].role = "cancel" => tasks[t].q = 0
  BY <1>1 DEF StopPaused, PlaceOK, TaskType, Roles, Resolving, Cancelling, GivingBack,
     Executing, InPast, Past
<1>3. UNCHANGED <<session, scope, blocks, closed, cancelAsked, everClosed>>
  BY DEF StopPaused, memory, bounds
<1>4. CASE ~PreExecution
  <2>1. UNCHANGED still /\ Goto(t, "unstopped")
    BY <1>3, <1>4 DEF StopPaused, still
  <2> QED
    BY <1>2, <2>1, StopRefused
<1>5. CASE PreExecution
  <2>1. /\ row' \in RowType /\ row'.asks = row.asks /\ row'.status \in Terminal /\ row'.marker = "none"
    BY <1>1, <1>5 DEF StopPaused, Types, RowType, Statuses, Terminal
  <2>2. Len(questions') = Len(questions) /\ QuestionsGrow(t)
        /\ (tasks[t].q # 0 => questions'[tasks[t].q] = questions[tasks[t].q])
    BY <1>5, WithdrawnFacts DEF StopPaused
  <2>3. row'.asks <= Len(questions')
    BY <1>1, <2>1, <2>2 DEF Types
  <2>4. ASSUME OneApproval, ~everClosed, NEW u \in Tasks, u # t PROVE tasks[u].pc # "write"
    <3>1. ScopeOK(u) /\ TurnOK(t) /\ NoTask \notin Tasks
      BY <1>1, <2>4, TaskFacts, PauseAssumption
    <3>2. CASE tasks[t].role = "cancel"
      BY <1>1, <1>2, <2>4, <3>1, <3>2 DEF BarrierOK, ScopeOK, Holding, Executing
    <3>3. CASE tasks[t].role # "cancel"
      BY <1>2, <2>4, <3>1, <3>3 DEF TurnOK, Engaged, Active
    <3> QED
      BY <3>2, <3>3
  <2>5. CASE tasks[t].role = "cancel"
    <3>1. Goto(t, "unblock") /\ "unblock" \in Places
      BY <1>5, <2>5 DEF StopPaused, Stopped, Places, Handling
    <3>2. PICK n \in TaskType :
             /\ tasks' = [tasks EXCEPT ![t] = n] /\ tasks' \in [Tasks -> TaskType] /\ tasks'[t] = n
             /\ n.role = tasks[t].role /\ n.pc = "unblock" /\ n.q = tasks[t].q
             /\ n.revision = tasks[t].revision /\ n.cancelled = tasks[t].cancelled
             /\ n.write = tasks[t].write
             /\ \A u \in Tasks : u # t => tasks'[u] = tasks[u]
      BY <3>1, GotoRecord
    <3>3. TaskOK(t)'
      BY <1>1, <1>2, <1>3, <2>5, <3>2 DEF TaskOK, PlaceOK, HandOK, WriteOK, ScopeOK, BarrierOK,
         ReconcileOK, Holding, Executing, Cancelling
    <3>4. t \in Blocking <=> t \in Blocking'
      BY <1>2, <3>2 DEF Blocking
    <3>5. n.pc \notin Active /\ n.q = 0 /\ n.write.asks <= Len(questions')
      BY <1>1, <1>2, <2>2, <2>5, <3>2 DEF Active
    <3> QED
      BY <1>2, <1>3, <2>1, <2>2, <2>3, <2>4, <2>5, <3>2, <3>3, <3>4, <3>5, TurnEnds
  <2>6. CASE tasks[t].role # "cancel"
    <3>1. Done(t)
      BY <1>5, <2>6 DEF StopPaused, Stopped
    <3>2. tasks' = [tasks EXCEPT ![t] = Idle] /\ Idle \in TaskType /\ tasks'[t] = Idle
      BY <1>1, <3>1, DoneFacts, ReplaceView, IdleType
    <3>3. TaskOK(t)'
      BY <1>1, <1>2, <1>3, <3>2, IdleType, PauseAssumption DEF TaskOK, PlaceOK, HandOK, WriteOK,
         ScopeOK,
         BarrierOK, ReconcileOK, Holding, Executing
    <3>4. t \in Blocking <=> t \in Blocking'
      BY <1>2, <2>6, <3>2, IdleType DEF Blocking
    <3>5. Idle.pc \notin Active /\ Idle.q = 0 /\ Idle.write.asks <= Len(questions') /\ Idle.role # "reconcile"
      BY <1>1, <2>2, IdleType DEF Active
    <3> QED
      BY <1>2, <1>3, <2>1, <2>2, <2>3, <2>4, <2>6, <3>2, <3>3, <3>4, <3>5, TurnEnds
  <2> QED
    BY <2>5, <2>6
<1> QED
  BY <1>4, <1>5


\* A task past its look at the row is alone while the turn is not over.
LEMMA PastAlone ==
    ASSUME IInv, OneApproval, NEW t \in Tasks, InPast(t), row.status \notin Terminal
    PROVE  /\ row.asks = tasks[t].q /\ RowPaused
           /\ \A u \in Tasks : u # t => ~Engaged(u) /\ tasks[u].q # row.asks
<1>1. TurnOK(t) /\ HandOK(t)
  BY TaskFacts
<1>2. row.asks = tasks[t].q /\ RowPaused /\ tasks[t].q # 0
  BY <1>1 DEF TurnOK, InPast
<1> QED
  BY <1>1, <1>2 DEF TurnOK, HandOK, Engaged

\* A task moves a tool-limit pause between awaiting and claimed, and keeps it in hand.
LEMMA PauseMoves ==
    ASSUME IInv, NEW t \in Tasks, tasks[t].role \in {"run", "answer", "reconcile"},
           NEW st \in {"awaiting_input", "preparing_context"},
           row' = [row EXCEPT !.status = st], row.marker = "limit",
           row.status \in {"awaiting_input", "preparing_context"},
           NEW pc \in Places, Goto(t, pc), pc # "idle",
           UNCHANGED <<questions, session, scope, blocks, closed, cancelAsked, everClosed>>,
           PlaceOK(t)', tasks[t].pc \notin Holding, pc \notin Holding, pc # "reconcile",
           pc \in {"rollback", "resume", "stop", "open", "reopen"},
           pc = "stop" => Kind(tasks[t].q) = "limit", tasks[t].q # 0,
           OneApproval => /\ row.asks = tasks[t].q
                          /\ \A u \in Tasks : u # t => ~Engaged(u) /\ tasks[u].q # row.asks,
           st = "preparing_context" => pc = "open",
           pc = "open" => st = "preparing_context" /\ (OneApproval /\ ~everClosed => scope = NoTask)
    PROVE  IInv'
<1>1. /\ PlaceOK(t) /\ HandOK(t) /\ WriteOK(t) /\ ScopeOK(t) /\ BarrierOK(t) /\ ReconcileOK(t)
      /\ tasks[t] \in TaskType /\ tasks \in [Tasks -> TaskType]
      /\ tasks[t].write.asks <= Len(questions) /\ Types /\ Len(questions) \in Nat
  BY TaskFacts
<1>2. PICK n \in TaskType :
             /\ tasks' = [tasks EXCEPT ![t] = n] /\ tasks' \in [Tasks -> TaskType] /\ tasks'[t] = n
             /\ n.role = tasks[t].role /\ n.pc = pc /\ n.q = tasks[t].q
             /\ n.revision = tasks[t].revision /\ n.cancelled = tasks[t].cancelled
             /\ n.write = tasks[t].write
             /\ \A u \in Tasks : u # t => tasks'[u] = tasks[u]
  BY GotoRecord
<1>3. /\ row' \in RowType /\ row'.status = st /\ row'.marker = "limit" /\ row'.asks = row.asks
      /\ row'.asks <= Len(questions')
  BY <1>1 DEF Types, RowType, Statuses
<1>4. RowOK' /\ row.asks # 0 /\ Kind(row.asks) = "limit"
  BY <1>3 DEF IInv, RowOK, Kind
<1>5. QuestionsGrow(t) /\ (OneApproval' <=> OneApproval)
  BY QuestionsStay
<1>6. WriteOK(t)' /\ ScopeOK(t)' /\ BarrierOK(t)' /\ ReconcileOK(t)'
  BY <1>1, <1>2 DEF WriteOK, ScopeOK, BarrierOK, ReconcileOK, Holding, Executing
<1>7. HandOK(t)'
  BY <1>1, <1>2 DEF HandOK, StillAnswered, Kind
<1>8. t \in Blocking <=> t \in Blocking'
  BY <1>2 DEF Blocking
<1>9. ASSUME OneApproval PROVE PauseOK' /\ \A u \in Tasks : TurnOK(u)'
  <2>1. row.asks = tasks[t].q /\ \A u \in Tasks : u # t => ~Engaged(u) /\ tasks[u].q # row.asks
    BY <1>9
  <2>2. PauseOK'
    BY <1>1, <1>3, <2>1 DEF PauseOK, HandOK, StillAnswered
  <2>3. RowPaused' /\ \A u \in Tasks : u # t => ~Engaged(u)'
    BY <1>2, <1>3, <2>1 DEF RowPaused, Engaged, InPast
  <2>4. TurnOK(t)'
    BY <1>2, <1>3, <2>1, <2>3 DEF TurnOK, Active
  <2>5. ASSUME NEW u \in Tasks, u # t PROVE TurnOK(u)'
    BY <1>2, <2>3, <2>5 DEF TurnOK, Engaged, Active
  <2> QED
    BY <2>2, <2>4, <2>5
<1>10. ASSUME OneApproval, ~everClosed PROVE DecisionKept' /\ \A u \in Tasks : KeptOK(u)'
  <2>1. row.asks = tasks[t].q /\ \A u \in Tasks : u # t => ~Engaged(u) /\ tasks[u].q # row.asks
    BY <1>10
  <2>2. DecisionKept'
    BY <1>2, <1>3, <2>1 DEF DecisionKept, Stranded, InHand
  <2>3. KeptOK(t)'
    BY <1>2, <1>3, <1>10, <2>1 DEF KeptOK, Prepared, Awaited, Executing, Terminal
  <2>4. ASSUME NEW u \in Tasks, u # t PROVE KeptOK(u)'
    BY <1>2, <1>3, <2>1, <2>4 DEF KeptOK, Prepared, Awaited, Terminal
  <2> QED
    BY <2>2, <2>3, <2>4
<1> QED
  BY <1>1, <1>2, <1>3, <1>4, <1>5, <1>6, <1>7, <1>8, <1>9, <1>10, RowsChange DEF TaskOK

\* claim_awaiting_turn_resume
LEMMA ClaimResumeIInv ==
    ASSUME IInv, NEW t \in Tasks, ClaimResume(t)
    PROVE  IInv'
<1>1. /\ PlaceOK(t) /\ HandOK(t) /\ tasks[t] \in TaskType
      /\ OneApproval /\ ~everClosed => KeptOK(t)
  BY TaskFacts
<1>2. tasks[t].pc = "claim" /\ tasks[t].role \in {"answer", "reconcile"} /\ tasks[t].q # 0
  BY <1>1 DEF ClaimResume, PlaceOK, TaskType, Roles, Resolving, Cancelling, GivingBack, Executing
<1>3. InPast(t) /\ Kind(tasks[t].q) = "limit" /\ tasks[t].pc \notin Holding
      /\ UNCHANGED <<questions, session, scope, blocks, closed, cancelAsked, everClosed>>
  BY <1>1, <1>2 DEF InPast, Past, HandOK, Holding, Executing, ClaimResume, memory, bounds
<1>4. CASE row.status = "awaiting_input" /\ row.marker = "limit" /\ StillAnswered(t)
  <2>1. row' = [row EXCEPT !.status = "preparing_context"] /\ Goto(t, "open") /\ "open" \in Places
    BY <1>4 DEF ClaimResume, Places, Handling
  <2>2. OneApproval => /\ row.asks = tasks[t].q
                       /\ \A u \in Tasks : u # t => ~Engaged(u) /\ tasks[u].q # row.asks
    BY <1>3, <1>4, PastAlone DEF Terminal
  <2>3. OneApproval /\ ~everClosed => scope = NoTask
    BY <1>1, <1>2, <1>3, <1>4, <2>2 DEF KeptOK, Awaited
  <2>4. PlaceOK(t)' /\ "open" \notin Holding
    BY <1>1, <1>2, <1>3, <2>1, GotoView DEF PlaceOK, Resolving, Holding, Executing
  <2> QED
    BY <1>2, <1>3, <1>4, <2>1, <2>2, <2>3, <2>4, PauseMoves
<1>5. CASE ~(row.status = "awaiting_input" /\ row.marker = "limit" /\ StillAnswered(t))
  <2>1. UNCHANGED still /\ Goto(t, "unclaimed")
    BY <1>3, <1>5 DEF ClaimResume, still
  <2> QED
    BY <1>2, <1>5, <2>1, ClaimRefused
<1> QED
  BY <1>4, <1>5

\* restore_preparing_turn_resume
LEMMA RestorePreparingIInv ==
    ASSUME IInv, NEW t \in Tasks, RestorePreparing(t)
    PROVE  IInv'
<1>1. /\ PlaceOK(t) /\ HandOK(t) /\ tasks[t] \in TaskType
      /\ OneApproval => PauseOK
      /\ OneApproval /\ ~everClosed => KeptOK(t)
  BY TaskFacts
<1>2. tasks[t].pc = "restore" /\ tasks[t].role \in {"run", "answer", "reconcile"} /\ tasks[t].q # 0
  BY <1>1 DEF RestorePreparing, PlaceOK, TaskType, Roles, Resolving, Cancelling, GivingBack,
     Executing
<1>3. InPast(t) /\ Kind(tasks[t].q) = "limit" /\ tasks[t].pc \notin Holding
      /\ UNCHANGED <<questions, session, scope, blocks, closed, cancelAsked, everClosed>>
  BY <1>1, <1>2 DEF InPast, Past, HandOK, Holding, Executing, RestorePreparing, memory, bounds
<1>4. CASE row.status = "preparing_context" /\ row.marker = "limit"
  <2>1. row' = [row EXCEPT !.status = "awaiting_input"] /\ Goto(t, "reopen") /\ "reopen" \in Places
    BY <1>4 DEF RestorePreparing, Places, Handling
  <2>2. OneApproval => /\ row.asks = tasks[t].q
                       /\ \A u \in Tasks : u # t => ~Engaged(u) /\ tasks[u].q # row.asks
    BY <1>3, <1>4, PastAlone DEF Terminal
  <2>3. PlaceOK(t)' /\ "reopen" \notin Holding
    BY <1>1, <1>2, <1>3, <2>1, GotoView DEF PlaceOK, Resolving, GivingBack, Holding, Executing
  <2> QED
    BY <1>2, <1>3, <1>4, <2>1, <2>2, <2>3, PauseMoves
<1>5. CASE ~(row.status = "preparing_context" /\ row.marker = "limit")
  <2>1. UNCHANGED still /\ Done(t)
    BY <1>3, <1>5 DEF RestorePreparing, still
  <2>2. OneApproval /\ ~everClosed => ~Waits(tasks[t].q)
    BY <1>1, <1>2, <1>3, <1>5 DEF KeptOK, PauseOK, Waits, Prepared, Awaited, Kind
  <2> QED
    BY <1>2, <1>3, <2>1, <2>2, DoneMoves
<1> QED
  BY <1>4, <1>5

\* The reconciliation after a restart takes the persisted choice up.
LEMMA ReconcileIInv ==
    ASSUME IInv, NEW t \in Tasks, Reconcile(t)
    PROVE  IInv'
<1>1. PlaceOK(t) /\ HandOK(t) /\ ReconcileOK(t) /\ tasks[t] \in TaskType
  BY TaskFacts
<1>2. tasks[t].pc = "reconcile" /\ tasks[t].role = "reconcile" /\ tasks[t].q # 0
  BY <1>1 DEF Reconcile, PlaceOK, TaskType, Roles, Resolving, Cancelling, GivingBack, Executing
<1>3. /\ row.asks = tasks[t].q /\ row.marker = "limit" /\ Kind(tasks[t].q) = "limit"
      /\ row.status \in {"awaiting_input", "preparing_context"} /\ tasks[t].pc \notin Holding
      /\ UNCHANGED <<questions, session, scope, blocks, closed, cancelAsked, everClosed>>
  BY <1>1, <1>2 DEF ReconcileOK, PreExecution, HandOK, Holding, Executing, Reconcile, memory,
     bounds
<1>4. \A u \in Tasks : u # t => ~Engaged(u) /\ tasks[u].q # row.asks
  <2> SUFFICES ASSUME NEW u \in Tasks, u # t PROVE ~Engaged(u) /\ tasks[u].q # row.asks
    OBVIOUS
  <2>1. PlaceOK(u) /\ tasks[u].role = "none"
    BY <1>1, <1>2, TaskFacts DEF ReconcileOK
  <2>2. tasks[u].pc = "idle" /\ tasks[u].q = 0
    BY <2>1 DEF PlaceOK
  <2> QED
    BY <1>2, <1>3, <2>2 DEF Engaged, InPast, Active
<1>5. PICK pc \in {"stop", "resume", "rollback"} : Goto(t, pc)
  BY DEF Reconcile
<1>6. row' = [row EXCEPT !.status = "awaiting_input"] /\ pc \in Places
  BY DEF Reconcile, Places, Handling
<1>7. PlaceOK(t)' /\ pc \notin Holding
  BY <1>1, <1>2, <1>3, <1>5, <1>6, GotoView DEF PlaceOK, Resolving, Holding, Executing
<1> QED
  BY <1>2, <1>3, <1>4, <1>5, <1>6, <1>7, PauseMoves

\* The executing task writes the row.
LEMMA WriteMoves ==
    ASSUME IInv, NEW t \in Tasks, tasks[t].pc = "write", row' = tasks[t].write, NEW n \in TaskType,
           tasks' = [tasks EXCEPT ![t] = n], n.role = tasks[t].role, n.q = tasks[t].q,
           n.revision = tasks[t].revision, n.cancelled = tasks[t].cancelled,
           n.pc \in {"check", "running", "finish", "error"}, n.write.asks <= Len(questions),
           n.pc = "check" => /\ row'.status = "preparing_context" /\ n.write.status = "calling_model"
                             /\ n.write.marker = "none",
           n.pc = "running" => row'.status = "calling_model",
           n.pc \in {"finish", "error"} => row'.status \notin {"preparing_context", "calling_model"},
           UNCHANGED <<questions, session, scope, blocks, closed, cancelAsked, everClosed>>
    PROVE  IInv'
<1>1. /\ PlaceOK(t) /\ HandOK(t) /\ WriteOK(t) /\ ScopeOK(t) /\ BarrierOK(t) /\ ReconcileOK(t)
      /\ tasks[t] \in TaskType /\ tasks[t].write.asks <= Len(questions) /\ Types
      /\ OneApproval => TurnOK(t)
      /\ OneApproval /\ ~everClosed => KeptOK(t)
  BY TaskFacts
<1>2. tasks[t].role = "run"
  BY RunRole DEF Executing
<1>3. /\ tasks' \in [Tasks -> TaskType] /\ tasks'[t] = n
      /\ \A u \in Tasks : u # t => tasks'[u] = tasks[u]
  BY ReplaceView
<1>4. row' \in RowType /\ row'.asks <= Len(questions') /\ row'.asks \in Nat
  BY <1>1 DEF TaskType, RowType
<1>5. RowOK'
  BY <1>1 DEF WriteOK, RowOK, Kind
<1>6. QuestionsGrow(t) /\ (OneApproval' <=> OneApproval)
  BY QuestionsStay
<1>7. PlaceOK(t)' /\ WriteOK(t)' /\ ScopeOK(t)' /\ BarrierOK(t)' /\ ReconcileOK(t)'
  BY <1>1, <1>2, <1>3 DEF PlaceOK, WriteOK, ScopeOK, BarrierOK, ReconcileOK, Holding, Executing
<1>8. HandOK(t)'
  BY <1>1, <1>3 DEF HandOK, StillAnswered, Kind
<1>9. t \in Blocking <=> t \in Blocking'
  BY <1>2, <1>3 DEF Blocking
<1>10. ASSUME OneApproval
       PROVE  /\ PauseOK' /\ \A u \in Tasks : u # t => ~Engaged(u)
              /\ row'.status \in {"awaiting_input", "preparing_context"} =>
                   row'.asks = 0 \/ Kind(row'.asks) # "limit"
  <2>1. TurnOK(t) /\ Engaged(t)
    BY <1>1, <1>10 DEF Engaged, Active
  <2>2. row'.status \in {"awaiting_input", "preparing_context"} =>
           (row'.asks = 0 \/ Kind(row'.asks) # "limit") /\ row'.marker # "limit"
    BY <1>1, <2>1 DEF TurnOK, WriteOK
  <2> QED
    BY <2>1, <2>2 DEF TurnOK, PauseOK, Kind
<1>11. ASSUME OneApproval PROVE \A u \in Tasks : TurnOK(u)'
  <2>1. \A u \in Tasks : u # t => ~Engaged(u)'
    BY <1>3, <1>10, <1>11 DEF Engaged, InPast
  <2>2. n.pc \in Active => ~RowPaused'
    BY <1>1 DEF RowPaused, Active, WriteOK
  <2>3. TurnOK(t)'
    BY <1>3, <2>1, <2>2 DEF TurnOK, InPast, Past
  <2>4. ASSUME NEW u \in Tasks, u # t PROVE TurnOK(u)'
    BY <2>1, <2>4 DEF TurnOK, Engaged, Active
  <2> QED
    BY <2>3, <2>4
<1>12. ASSUME OneApproval, ~everClosed PROVE DecisionKept' /\ \A u \in Tasks : KeptOK(u)'
  <2>1. \A q \in Nat : q # 0 /\ Kind(q) = "limit" => ~Prepared(q)' /\ ~Awaited(q)'
    BY <1>10, <1>12 DEF Prepared, Awaited
  <2>2. DecisionKept'
    BY <1>10, <1>12 DEF DecisionKept, Stranded, Kind
  <2>3. ASSUME NEW u \in Tasks PROVE KeptOK(u)'
    <3>1. tasks'[u].pc # "write" /\ tasks'[u].q \in Nat
      BY <1>3, <1>10, <1>12 DEF Engaged, Active, TaskType
    <3>2. \A q \in Nat : q # 0 /\ Kind(q)' = "limit" => ~Prepared(q)' /\ ~Awaited(q)'
      BY <2>1 DEF Kind
    <3> QED
      BY <3>1, <3>2 DEF KeptOK
  <2> QED
    BY <2>2, <2>3
<1> QED
  BY <1>2, <1>3, <1>4, <1>5, <1>6, <1>7, <1>8, <1>9, <1>10, <1>11, <1>12, RowsChange DEF TaskOK

\* update_turn writes the row.
LEMMA UpdateTurnWriteIInv ==
    ASSUME IInv, NEW t \in Tasks, UpdateTurnWrite(t)
    PROVE  IInv'
<1>1. tasks[t] \in TaskType /\ tasks \in [Tasks -> TaskType] /\ tasks[t].write.asks <= Len(questions)
      /\ Len(questions) \in Nat
  BY TaskFacts
<1>2. /\ tasks[t].pc = "write" /\ row' = tasks[t].write
      /\ UNCHANGED <<questions, session, scope, blocks, closed, cancelAsked, everClosed>>
  BY DEF UpdateTurnWrite, memory, bounds
<1>3. CASE row'.status = "preparing_context"
  <2> DEFINE w == Row("calling_model", "none", 0)
             n == AtWrite(tasks[t], "check", w)
  <2>1. Update(t, w)
    BY <1>3 DEF UpdateTurnWrite
  <2>2. w \in RowType /\ w.status = "calling_model" /\ w.marker = "none" /\ w.asks = 0
    BY RowFacts DEF Statuses
  <2> HIDE DEF w
  <2>3. "check" \in Places
    BY DEF Places, Executing
  <2>4. /\ n \in TaskType /\ n.role = tasks[t].role /\ n.pc = "check" /\ n.q = tasks[t].q
        /\ n.revision = tasks[t].revision /\ n.cancelled = tasks[t].cancelled /\ n.write = w
        /\ tasks' = [tasks EXCEPT ![t] = n]
    BY <1>1, <2>1, <2>2, <2>3, AtWriteFacts, UpdateFacts
  <2> HIDE DEF n
  <2>5. n.write.asks <= Len(questions)
    BY <1>1, <2>2, <2>4
  <2> QED
    BY <1>2, <1>3, <2>2, <2>4, <2>5, WriteMoves
<1>4. ASSUME NEW pc \in {"running", "finish", "error"}, Goto(t, pc),
             pc = "running" => row'.status = "calling_model",
             pc \in {"finish", "error"} => row'.status \notin {"preparing_context", "calling_model"}
      PROVE  IInv'
  <2>1. pc \in Places
    BY DEF Places, Executing
  <2>2. PICK n \in TaskType :
             /\ tasks' = [tasks EXCEPT ![t] = n] /\ tasks' \in [Tasks -> TaskType] /\ tasks'[t] = n
             /\ n.role = tasks[t].role /\ n.pc = pc /\ n.q = tasks[t].q
             /\ n.revision = tasks[t].revision /\ n.cancelled = tasks[t].cancelled
             /\ n.write = tasks[t].write
             /\ \A u \in Tasks : u # t => tasks'[u] = tasks[u]
    BY <1>4, <2>1, GotoRecord
  <2> QED
    BY <1>1, <1>2, <1>4, <2>2, WriteMoves
<1>5. CASE row'.status = "calling_model"
  BY <1>4, <1>5 DEF UpdateTurnWrite
<1>6. CASE row'.status \notin {"preparing_context", "calling_model"}
  BY <1>4, <1>6 DEF UpdateTurnWrite
<1> QED
  BY <1>3, <1>5, <1>6

-----------------------------------------------------------------------------
(* Steps on the questions.                                                 *)

\* A new question comes after the others.
LEMMA NewQuestionFacts ==
    ASSUME IInv, NEW kind \in Kinds, questions' = NewQuestion(kind)
    PROVE  /\ Len(questions') = Len(questions) + 1 /\ Len(questions) \in Nat
           /\ \A q \in 1..Len(questions) : questions'[q] = questions[q]
           /\ questions'[Len(questions) + 1].kind = kind
           /\ questions'[Len(questions) + 1].status = "pending"
           /\ \A t \in Tasks : QuestionsGrow(t)
<1>1. questions \in Seq(QuestionType) /\ Len(questions) \in Nat
  BY DEF IInv, Types
<1> DEFINE r == [kind |-> kind, status |-> "pending", revision |-> 1, action |-> "none"]
<1>2. r \in QuestionType /\ r.kind = kind /\ r.status = "pending"
  BY DEF QuestionType
<1> HIDE DEF r
<1>3. questions' = Append(questions, r)
  BY DEF NewQuestion, r
<1>4. /\ questions' \in Seq(QuestionType) /\ Len(questions') = Len(questions) + 1
      /\ \A q \in 1..Len(questions) : questions'[q] = questions[q]
      /\ questions'[Len(questions) + 1] = r
  BY <1>1, <1>2, <1>3, AppendProperties
<1>5. ASSUME NEW u \in Tasks, tasks[u].q # 0 PROVE tasks[u].q \in 1..Len(questions)
  BY <1>1, <1>5, TaskFacts DEF Types, TaskType
<1> QED
  BY <1>1, <1>2, <1>4, <1>5 DEF QuestionsGrow

\* The ask_user tool, or a tool call that needs consent, asks while the run goes on.
LEMMA AskUserIInv ==
    ASSUME IInv, NEW t \in Tasks, AskUser(t)
    PROVE  IInv'
<1>1. /\ PlaceOK(t) /\ HandOK(t) /\ WriteOK(t) /\ ScopeOK(t) /\ BarrierOK(t) /\ ReconcileOK(t)
      /\ tasks[t] \in TaskType /\ tasks[t].write.asks <= Len(questions) /\ Types
      /\ tasks[t].write.asks \in Nat /\ Len(questions) \in Nat
      /\ tasks[t].q \in Nat /\ tasks[t].q <= Len(questions)
  BY TaskFacts DEF Types, TaskType, RowType
<1>2. tasks[t].pc = "running" /\ tasks[t].role = "run"
  BY RunRole DEF AskUser, Executing
<1>3. PICK kind \in Kinds \ {"limit"} : questions' = NewQuestion(kind)
  BY DEF AskUser
<1>4. PICK pc \in {"asked", "running"} : Goto(t, pc)
  BY DEF AskUser
<1>5. UNCHANGED <<row, session, scope, blocks, closed, cancelAsked, everClosed>> /\ pc \in Places
  BY DEF AskUser, memory, bounds, Places, Executing
<1>6. /\ Len(questions') = Len(questions) + 1
      /\ \A q \in 1..Len(questions) : questions'[q] = questions[q]
      /\ questions'[Len(questions) + 1].kind = kind /\ \A u \in Tasks : QuestionsGrow(u)
  BY <1>3, NewQuestionFacts
<1>7. \A q \in 1..Len(questions) : Kind(q)' = Kind(q)
  BY <1>6 DEF Kind
<1>8. PICK n \in TaskType :
             /\ tasks' = [tasks EXCEPT ![t] = n] /\ tasks' \in [Tasks -> TaskType] /\ tasks'[t] = n
             /\ n.role = tasks[t].role /\ n.pc = pc /\ n.q = tasks[t].q
             /\ n.revision = tasks[t].revision /\ n.cancelled = tasks[t].cancelled
             /\ n.write = tasks[t].write
             /\ \A u \in Tasks : u # t => tasks'[u] = tasks[u]
  BY <1>4, <1>5, GotoRecord
<1>9. row' = row /\ row.asks \in 0..Len(questions) /\ row' \in RowType /\ row'.asks <= Len(questions')
  BY <1>1, <1>5, <1>6 DEF Types, RowType
<1>10. RowOK'
  BY <1>7, <1>9 DEF IInv, RowOK
<1>11. PlaceOK(t)' /\ WriteOK(t)' /\ ScopeOK(t)' /\ BarrierOK(t)' /\ ReconcileOK(t)'
  BY <1>1, <1>2, <1>4, <1>5, <1>6, <1>8 DEF PlaceOK, WriteOK, ScopeOK, BarrierOK, ReconcileOK,
     Holding, Executing
<1>12. HandOK(t)'
  <2>1. tasks[t].q # 0 => tasks[t].q \in 1..Len(questions)
    BY <1>1
  <2> QED
    BY <1>1, <1>2, <1>4, <1>6, <1>8, <2>1 DEF HandOK, StillAnswered, Kind
<1>13. t \in Blocking <=> t \in Blocking'
  BY <1>2, <1>8 DEF Blocking
<1>14. ASSUME OneApproval' PROVE PauseOK' /\ \A u \in Tasks : TurnOK(u)'
  <2>1. OneApproval
    BY <1>6, <1>14, ApprovalsStay
  <2>2. PauseOK /\ TurnOK(t) /\ Engaged(t)
    BY <1>2, <2>1, TaskFacts DEF Engaged, Active
  <2>3. PauseOK'
    BY <1>6, <1>7, <1>9, <2>2 DEF PauseOK, IInv, RowOK
  <2>4. ~RowPaused /\ \A u \in Tasks : u # t => ~Engaged(u)
    BY <1>2, <2>2 DEF TurnOK, First, Active
  <2>5. ~RowPaused' /\ \A u \in Tasks : u # t => ~Engaged(u)'
    BY <1>8, <1>9, <2>4 DEF RowPaused, Engaged, InPast
  <2>6. Kind(Len(questions))' = kind
    BY <1>6 DEF Kind
  <2>7. TurnOK(t)'
    BY <1>4, <1>8, <2>5, <2>6 DEF TurnOK, InPast, Past
  <2>8. ASSUME NEW u \in Tasks, u # t PROVE TurnOK(u)'
    BY <2>5, <2>8 DEF TurnOK, Engaged, Active
  <2> QED
    BY <2>3, <2>7, <2>8
<1>15. ASSUME OneApproval', ~everClosed PROVE DecisionKept' /\ \A u \in Tasks : KeptOK(u)'
  <2>1. OneApproval
    BY <1>6, <1>15, ApprovalsStay
  <2>2. DecisionKept'
    <3>1. DecisionKept
      BY <1>15, <2>1 DEF IInv
    <3>2. \A q : InHand(q) => InHand(q)'
      BY <1>2, <1>4, <1>8 DEF InHand
    <3> QED
      BY <1>5, <1>6, <1>9, <3>1, <3>2 DEF DecisionKept, Stranded
  <2>3. ASSUME NEW u \in Tasks PROVE KeptOK(u)'
    <3>1. KeptOK(u) /\ tasks[u].q \in Nat /\ tasks[u].q <= Len(questions) /\ tasks'[u].q = tasks[u].q
      BY <1>8, <1>15, <2>1, TaskFacts DEF Types, TaskType
    <3>2. tasks[u].q # 0 => Kind(tasks[u].q)' = Kind(tasks[u].q)
      BY <1>1, <1>7, <3>1
    <3>3. CASE u = t
      BY <1>2, <1>4, <1>5, <1>8, <3>1, <3>2, <3>3 DEF KeptOK, Prepared, Awaited, Executing
    <3>4. CASE u # t
      BY <1>5, <1>8, <3>1, <3>2, <3>4 DEF KeptOK, Prepared, Awaited
    <3> QED
      BY <3>3, <3>4
  <2> QED
    BY <2>2, <2>3
<1>16. n.write.asks <= Len(questions')
  BY <1>1, <1>6, <1>8
<1> QED
  BY <1>2, <1>5, <1>6, <1>8, <1>9, <1>10, <1>11, <1>12, <1>13, <1>14, <1>15, <1>16,
     RowsChange DEF TaskOK


\* create_question_and_pause_turn
LEMMA PauseForLimitIInv ==
    ASSUME IInv, NEW t \in Tasks, PauseForLimit(t)
    PROVE  IInv'
<1>1. /\ PlaceOK(t) /\ HandOK(t) /\ WriteOK(t) /\ ScopeOK(t) /\ BarrierOK(t) /\ ReconcileOK(t)
      /\ tasks[t] \in TaskType /\ tasks[t].write.asks <= Len(questions) /\ Types
      /\ tasks[t].write.asks \in Nat /\ Len(questions) \in Nat
      /\ tasks[t].q \in Nat /\ tasks[t].q <= Len(questions)
  BY TaskFacts DEF Types, TaskType, RowType
<1>2. tasks[t].pc = "pause" /\ tasks[t].role = "run"
  BY RunRole DEF PauseForLimit, Executing
<1>3. UNCHANGED <<session, scope, blocks, closed, cancelAsked, everClosed>>
  BY DEF PauseForLimit, memory, bounds
<1>4. CASE row.status # "calling_model"
  <2>1. UNCHANGED still /\ Goto(t, "error")
    BY <1>3, <1>4 DEF PauseForLimit, still
  <2> QED
    BY <1>2, <2>1, PauseRefused
<1>5. CASE row.status = "calling_model"
  <2>1. questions' = NewQuestion("limit") /\ row' = Row("awaiting_input", "limit", Len(questions) + 1)
    BY <1>5 DEF PauseForLimit
  <2>2. PICK pc \in {"finish", "error"} : Goto(t, pc)
    BY <1>5 DEF PauseForLimit
  <2>3. pc \in Places
    BY DEF Places, Executing
  <2>4. /\ Len(questions') = Len(questions) + 1
        /\ \A q \in 1..Len(questions) : questions'[q] = questions[q]
        /\ questions'[Len(questions) + 1].kind = "limit"
        /\ questions'[Len(questions) + 1].status = "pending"
        /\ \A u \in Tasks : QuestionsGrow(u)
    <3>1. "limit" \in Kinds
      BY <1>1, <1>2 DEF WriteOK
    <3> QED
      BY <2>1, <3>1, NewQuestionFacts
  <2>5. PICK n \in TaskType :
             /\ tasks' = [tasks EXCEPT ![t] = n] /\ tasks' \in [Tasks -> TaskType] /\ tasks'[t] = n
             /\ n.role = tasks[t].role /\ n.pc = pc /\ n.q = tasks[t].q
             /\ n.revision = tasks[t].revision /\ n.cancelled = tasks[t].cancelled
             /\ n.write = tasks[t].write
             /\ \A u \in Tasks : u # t => tasks'[u] = tasks[u]
    BY <2>2, <2>3, GotoRecord
  <2>6. /\ row' \in RowType /\ row'.asks = Len(questions) + 1 /\ row'.asks <= Len(questions')
        /\ row'.status = "awaiting_input" /\ row'.marker = "limit"
    BY <1>1, <2>1, <2>4, RowFacts DEF Statuses
  <2>7. RowOK'
    BY <1>1, <2>4, <2>6 DEF RowOK, Kind
  <2>8. PlaceOK(t)' /\ WriteOK(t)' /\ ScopeOK(t)' /\ BarrierOK(t)' /\ ReconcileOK(t)'
    BY <1>1, <1>2, <1>3, <2>2, <2>5 DEF PlaceOK, WriteOK, ScopeOK, BarrierOK, ReconcileOK,
       Holding, Executing
  <2>9. HandOK(t)'
    <3>1. tasks[t].q # 0 => tasks[t].q \in 1..Len(questions)
      BY <1>1
    <3> QED
      BY <1>1, <1>2, <2>2, <2>4, <2>5, <3>1 DEF HandOK, StillAnswered, Kind
  <2>10. t \in Blocking <=> t \in Blocking'
    BY <1>2, <2>5 DEF Blocking
  <2>11. ASSUME OneApproval' PROVE /\ OneApproval /\ PauseOK' /\ \A u \in Tasks : TurnOK(u)'
                                   /\ \A u \in Tasks : u # t => ~Engaged(u)
    <3>1. OneApproval
      BY <2>4, <2>11, ApprovalsStay
    <3>2. TurnOK(t) /\ Engaged(t)
      BY <1>2, <3>1, TaskFacts DEF Engaged, Active
    <3>3. PauseOK'
      BY <2>6 DEF PauseOK
    <3>4. \A u \in Tasks : u # t => ~Engaged(u)
      BY <3>2 DEF TurnOK
    <3>5. ASSUME NEW u \in Tasks PROVE ~Engaged(u)'
      BY <2>2, <2>5, <3>4 DEF Engaged, InPast, Active, Past
    <3>6. ASSUME NEW u \in Tasks PROVE TurnOK(u)'
      BY <3>5 DEF TurnOK, Engaged, Active
    <3> QED
      BY <3>1, <3>3, <3>4, <3>6
  <2>12. ASSUME OneApproval', ~everClosed PROVE DecisionKept' /\ \A u \in Tasks : KeptOK(u)'
    <3>1. DecisionKept'
      BY <2>4, <2>6 DEF DecisionKept, Stranded
    <3>2. ASSUME NEW u \in Tasks PROVE KeptOK(u)'
      <4>1. tasks[u].q \in Nat /\ tasks[u].q <= Len(questions) /\ tasks'[u].q = tasks[u].q
        BY <2>5, TaskFacts DEF Types, TaskType
      <4>2. ~Prepared(tasks[u].q)' /\ ~Awaited(tasks[u].q)'
        BY <1>1, <2>6, <4>1 DEF Prepared, Awaited
      <4>3. tasks'[u].pc # "write"
        BY <2>2, <2>5, <2>11, <2>12 DEF Engaged, Active
      <4> QED
        BY <4>1, <4>2, <4>3 DEF KeptOK
    <3> QED
      BY <3>1, <3>2
  <2>13. n.write.asks <= Len(questions')
    BY <1>1, <2>4, <2>5
  <2> QED
    BY <1>2, <1>3, <2>4, <2>5, <2>6, <2>7, <2>8, <2>9, <2>10, <2>11, <2>12, <2>13,
       RowsChange DEF TaskOK
<1> QED
  BY <1>4, <1>5

\* One question changes, and no other task has it in hand.
LEMMA QuestionChanges ==
    ASSUME IInv, NEW t \in Tasks, NEW q \in 1..Len(questions), NEW r \in QuestionType,
           r.kind = questions[q].kind, questions' = [questions EXCEPT ![q] = r],
           \A u \in Tasks : u # t => tasks[u].q # q
    PROVE  /\ QuestionsGrow(t) /\ Len(questions') = Len(questions) /\ questions'[q] = r
           /\ \A p \in 1..Len(questions) : p # q => questions'[p] = questions[p]
           /\ \A p \in 1..Len(questions) : Kind(p)' = Kind(p)
           /\ OneApproval' <=> OneApproval
<1>1. questions \in Seq(QuestionType) /\ Len(questions) \in Nat /\ DOMAIN questions = 1..Len(questions)
  BY TaskFacts DEF IInv, Types
<1>2. /\ questions' \in Seq(QuestionType) /\ Len(questions') = Len(questions)
      /\ DOMAIN questions' = DOMAIN questions
  BY <1>1, ExceptSeq
<1>3. questions'[q] = r /\ \A p \in 1..Len(questions) : p # q => questions'[p] = questions[p]
  BY <1>1
<1>4. \A p \in 1..Len(questions) : Kind(p)' = Kind(p)
  BY <1>3 DEF Kind
<1>5. OneApproval' <=> OneApproval
  BY <1>1, <1>2, <1>4 DEF OneApproval
<1>6. ASSUME NEW u \in Tasks, u # t, tasks[u].q # 0
      PROVE  tasks[u].q \in 1..Len(questions) /\ tasks[u].q # q
  BY <1>1, <1>6, TaskFacts DEF Types, TaskType
<1>7. QuestionsGrow(t)
  BY <1>1, <1>2, <1>3, <1>4, <1>6 DEF QuestionsGrow, Kind
<1> QED
  BY <1>2, <1>3, <1>4, <1>5, <1>7

\* A question that is answered, and one that is asked again.
Settled(r, status, action) ==
    [r EXCEPT !.status = status, !.action = action, !.revision = @ + 1]

\* Its fields.
LEMMA SettledFacts ==
    ASSUME NEW r \in QuestionType, NEW status \in {"pending", "answered", "cancelled"},
           NEW action \in {"none", "resume", "stop"}
    PROVE  /\ Settled(r, status, action) \in QuestionType /\ Settled(r, status, action).kind = r.kind
           /\ Settled(r, status, action).status = status
           /\ Settled(r, status, action).revision = r.revision + 1
<1>1. r.revision + 1 \in Nat
  BY DEF QuestionType
<1>2. Settled(r, status, action) \in QuestionType
  BY <1>1 DEF Settled, QuestionType
<1>3. /\ Settled(r, status, action).kind = r.kind
      /\ Settled(r, status, action).status = status
      /\ Settled(r, status, action).revision = r.revision + 1
  BY DEF Settled, QuestionType
<1> QED
  BY <1>2, <1>3

\* reopen_answered_question_request
LEMMA ReopenQuestionIInv ==
    ASSUME IInv, NEW t \in Tasks, ReopenQuestion(t)
    PROVE  IInv'
<1>1. /\ PlaceOK(t) /\ HandOK(t) /\ ScopeOK(t) /\ tasks[t] \in TaskType /\ tasks \in [Tasks -> TaskType]
      /\ tasks[t].q \in Nat /\ tasks[t].q <= Len(questions) /\ Len(questions) \in Nat /\ Types
      /\ OneApproval => PauseOK
      /\ OneApproval /\ ~everClosed => KeptOK(t)
  BY TaskFacts DEF Types, TaskType
<1>2. tasks[t].pc = "reopen" /\ tasks[t].role \in {"run", "answer", "reconcile"} /\ tasks[t].q # 0
  BY <1>1 DEF ReopenQuestion, PlaceOK, TaskType, Roles, Resolving, Cancelling, GivingBack,
     Executing
<1>3. /\ Done(t) /\ tasks[t].pc \notin Holding
      /\ UNCHANGED <<row, session, scope, blocks, closed, cancelAsked, everClosed>>
  BY <1>2 DEF ReopenQuestion, memory, bounds, Holding, Executing
<1> DEFINE q == tasks[t].q
           again == /\ StillAnswered(t) /\ row.status = "awaiting_input"
                    /\ row.marker = (IF questions[q].kind = "limit" THEN "limit" ELSE "none")
<1>4. CASE ~again
  <2>1. UNCHANGED still
    BY <1>3, <1>4 DEF ReopenQuestion, still
  <2>2. OneApproval /\ ~everClosed /\ Kind(q) = "limit" => ~Waits(q)
    BY <1>1, <1>2, <1>4 DEF HandOK, KeptOK, PauseOK, Waits, Prepared, Awaited, Kind
  <2> QED
    BY <1>2, <1>3, <2>1, <2>2, DoneMoves
<1>5. CASE again
  <2>1. q \in 1..Len(questions) /\ questions[q] \in QuestionType
    BY <1>1, <1>2 DEF Types
  <2> DEFINE r == Settled(questions[q], "pending", "none")
  <2>2. r \in QuestionType /\ r.kind = questions[q].kind /\ r.status = "pending"
    BY <2>1, SettledFacts
  <2>3. questions' = [questions EXCEPT ![q] = r]
    <3>1. questions' = [questions EXCEPT ![q].status = "pending", ![q].action = "none",
                                         ![q].revision = @ + 1]
      BY <1>5 DEF ReopenQuestion
    <3> QED
      BY <3>1 DEF Settled
  <2> HIDE DEF r
  <2>4. \A u \in Tasks : u # t => tasks[u].q # q
    BY <1>1, <1>2 DEF HandOK
  <2>5. /\ QuestionsGrow(t) /\ Len(questions') = Len(questions) /\ questions'[q] = r
        /\ \A p \in 1..Len(questions) : p # q => questions'[p] = questions[p]
        /\ \A p \in 1..Len(questions) : Kind(p)' = Kind(p)
        /\ OneApproval' <=> OneApproval
    BY <2>1, <2>2, <2>3, <2>4, QuestionChanges
  <2>6. /\ tasks' = [tasks EXCEPT ![t] = Idle] /\ Idle \in TaskType /\ tasks' \in [Tasks -> TaskType]
        /\ tasks'[t] = Idle /\ \A u \in Tasks : u # t => tasks'[u] = tasks[u]
    BY <1>1, <1>3, DoneFacts, ReplaceView, IdleType
  <2>7. row' = row /\ row.asks \in 0..Len(questions) /\ row' \in RowType /\ row'.asks <= Len(questions')
    BY <1>1, <1>3, <2>5 DEF Types, RowType
  <2>8. RowOK'
    BY <2>5, <2>7 DEF IInv, RowOK
  <2>9. TaskOK(t)'
    BY <1>1, <1>2, <1>3, <2>6, IdleType, PauseAssumption DEF TaskOK, PlaceOK, HandOK, WriteOK,
       ScopeOK,
       BarrierOK, ReconcileOK, Holding, Executing
  <2>10. t \in Blocking <=> t \in Blocking'
    BY <1>2, <2>6, IdleType DEF Blocking
  <2>11. ASSUME OneApproval PROVE PauseOK' /\ \A u \in Tasks : TurnOK(u)'
    <3>1. PauseOK'
      BY <1>1, <1>5, <2>5, <2>7, <2>11 DEF PauseOK
    <3>2. ~Engaged(t)' /\ TurnOK(t)'
      BY <2>6, IdleType DEF TurnOK, Engaged, InPast, Active, Past
    <3>3. ASSUME NEW u \in Tasks, u # t PROVE TurnOK(u)'
      <4>1. TurnOK(u) /\ WriteOK(u) /\ tasks'[u] = tasks[u] /\ tasks[u].write.asks \in Nat
            /\ tasks[u].write.asks <= Len(questions)
        BY <2>6, <2>11, <3>3, TaskFacts DEF TaskType, RowType
      <4>2. Engaged(u)' => \A v \in Tasks : v # u => ~Engaged(v)'
        BY <2>6, <3>2, <3>3, <4>1 DEF TurnOK, Engaged, InPast
      <4>3. tasks[u].pc = "asked" => Kind(Len(questions))' # "limit"
        BY <1>1, <2>5, <4>1 DEF TurnOK, WriteOK
      <4>4. tasks[u].pc \in {"check", "write"} /\ tasks[u].write.status = "awaiting_input"
            => tasks[u].write.asks # 0 /\ Kind(tasks[u].write.asks)' # "limit"
        BY <1>1, <2>5, <4>1 DEF TurnOK
      <4> QED
        BY <2>5, <2>7, <4>1, <4>2, <4>3, <4>4 DEF TurnOK, InPast, First, RowPaused, Kind
    <3> QED
      BY <3>1, <3>2, <3>3
  <2>12. ASSUME OneApproval, ~everClosed PROVE DecisionKept' /\ \A u \in Tasks : KeptOK(u)'
    <3>1. DecisionKept'
      <4> SUFFICES ASSUME Stranded("limit")' PROVE cancelAsked' /\ row'.status = "preparing_context"
        BY DEF DecisionKept
      <4>1. row.asks \in 1..Len(questions) /\ row.asks # q
        BY <1>1, <2>2, <2>5, <2>7 DEF Stranded
      <4>2. InHand(row.asks) => InHand(row.asks)'
        BY <2>6, <2>7, <4>1 DEF InHand
      <4>3. Stranded("limit")
        BY <2>5, <2>7, <4>1, <4>2 DEF Stranded
      <4> QED
        BY <1>3, <2>7, <2>12, <4>3 DEF IInv, DecisionKept
    <3>2. ASSUME NEW u \in Tasks PROVE KeptOK(u)'
      <4>1. CASE u = t
        BY <2>6, <4>1, IdleType DEF KeptOK
      <4>2. CASE u # t
        <5>1. KeptOK(u) /\ tasks[u].q \in Nat /\ tasks[u].q <= Len(questions) /\ tasks'[u] = tasks[u]
          BY <2>6, <2>12, <4>2, TaskFacts DEF Types, TaskType
        <5>2. tasks[u].q # 0 => Kind(tasks[u].q)' = Kind(tasks[u].q)
          BY <1>1, <2>5, <5>1
        <5> QED
          BY <1>3, <5>1, <5>2 DEF KeptOK, Prepared, Awaited
      <4> QED
        BY <4>1, <4>2
    <3> QED
      BY <3>1, <3>2
  <2>13. Idle.q = 0 /\ Idle.role # "reconcile" /\ Idle.write.asks <= Len(questions')
    BY <1>1, <2>5, IdleType
  <2> QED
    BY <1>2, <1>3, <2>5, <2>6, <2>7, <2>8, <2>9, <2>10, <2>11, <2>12, <2>13, RowsChange
<1> QED
  BY <1>4, <1>5

-----------------------------------------------------------------------------
(* Cancelling, closing and restoring.                                      *)

\* Cancelling the token of the scope changes no task but in its token.
LEMMA TokenFacts ==
    ASSUME IInv, NEW t \in Tasks, tasks[t].pc \notin Holding
    PROVE  /\ CancelToken \in [Tasks -> TaskType] /\ CancelToken[t] = tasks[t]
           /\ \A u \in Tasks :
                /\ CancelToken[u].role = tasks[u].role /\ CancelToken[u].pc = tasks[u].pc
                /\ CancelToken[u].q = tasks[u].q /\ CancelToken[u].revision = tasks[u].revision
                /\ CancelToken[u].write = tasks[u].write
                /\ CancelToken[u].cancelled => tasks[u].cancelled \/ tasks[u].role # "none"
<1>1. tasks \in [Tasks -> TaskType] /\ scope \in Tasks \cup {NoTask} /\ scope # t
  BY TaskFacts DEF Types, ScopeOK
<1>2. CASE scope = NoTask
  BY <1>1, <1>2 DEF CancelToken
<1>3. CASE scope # NoTask
  <2>1. scope \in Tasks /\ tasks[scope] \in TaskType
    BY <1>1, <1>3
  <2>2. ScopeOK(scope) /\ PlaceOK(scope)
    BY <2>1, TaskFacts
  <2>3. tasks[scope].role # "none"
    BY <2>2 DEF ScopeOK, PlaceOK, Holding, Executing
  <2>4. CancelToken = [tasks EXCEPT ![scope] = Cancelled(tasks[scope])]
    BY <1>3 DEF CancelToken, Cancelled
  <2>5. /\ Cancelled(tasks[scope]) \in TaskType /\ Cancelled(tasks[scope]).role = tasks[scope].role
        /\ Cancelled(tasks[scope]).pc = tasks[scope].pc /\ Cancelled(tasks[scope]).q = tasks[scope].q
        /\ Cancelled(tasks[scope]).revision = tasks[scope].revision
        /\ Cancelled(tasks[scope]).write = tasks[scope].write
    BY <2>1, CancelledFacts
  <2> QED
    BY <1>1, <2>1, <2>3, <2>4, <2>5
<1> QED
  BY <1>2, <1>3

\* A step of one task that also cancels the token.
LEMMA TokenMoves ==
    ASSUME IInv, NEW t \in Tasks, tasks[t].pc \notin Holding, NEW n \in TaskType,
           tasks' = [CancelToken EXCEPT ![t] = n], cancelAsked' \/ everClosed'
    PROVE  /\ tasks' \in [Tasks -> TaskType] /\ tasks'[t] = n
           /\ \A u \in Tasks : u # t => Same(u)
<1>1. /\ CancelToken \in [Tasks -> TaskType]
      /\ \A u \in Tasks :
                /\ CancelToken[u].role = tasks[u].role /\ CancelToken[u].pc = tasks[u].pc
                /\ CancelToken[u].q = tasks[u].q /\ CancelToken[u].revision = tasks[u].revision
                /\ CancelToken[u].write = tasks[u].write
                /\ CancelToken[u].cancelled => tasks[u].cancelled \/ tasks[u].role # "none"
  BY TokenFacts
<1>2. tasks' \in [Tasks -> TaskType] /\ tasks'[t] = n /\ \A u \in Tasks : u # t => tasks'[u] = CancelToken[u]
  BY <1>1
<1> QED
  BY <1>1, <1>2 DEF Same

\* A task that is done.
LEMMA IdleOK ==
    ASSUME NEW t \in Tasks, tasks'[t] = Idle, scope' # t
    PROVE  TaskOK(t)' /\ TurnOK(t)' /\ KeptOK(t)' /\ ~Engaged(t)' /\ t \notin Blocking'
<1>1. TaskOK(t)'
  BY IdleType DEF TaskOK, PlaceOK, HandOK, WriteOK, ScopeOK, BarrierOK, ReconcileOK, Holding,
     Executing
<1>2. TurnOK(t)' /\ KeptOK(t)' /\ ~Engaged(t)' /\ t \notin Blocking'
  BY IdleType DEF TurnOK, KeptOK, Engaged, InPast, Active, Past, Blocking
<1> QED
  BY <1>1, <1>2

\* What others keep when no scope is opened.
LEMMA SameOthers ==
    ASSUME IInv, NEW t \in Tasks, \A u \in Tasks : u # t => Same(u) /\ tasks[u].role # "reconcile",
           everClosed \in BOOLEAN, everClosed => everClosed',
           scope' = scope \/ (scope' = NoTask /\ everClosed')
    PROVE  Others(t)
<1> SUFFICES ASSUME NEW u \in Tasks, u # t
             PROVE  Same(u) /\ tasks[u].role # "reconcile" /\ ScopeOK(u)' /\ BarrierOK(u)'
  BY DEF Others
<1>1. ScopeOK(u) /\ BarrierOK(u) /\ Same(u) /\ tasks[u].role # "reconcile" /\ NoTask \notin Tasks
  BY TaskFacts, PauseAssumption
<1> QED
  BY <1>1 DEF ScopeOK, BarrierOK, Same

\* What the invariant says about the registry and the history.
LEMMA HistoryFacts ==
    ASSUME IInv
    PROVE  /\ scope \in Tasks \cup {NoTask} /\ blocks \in Nat /\ closed \in BOOLEAN
           /\ cancelAsked \in BOOLEAN /\ everClosed \in BOOLEAN /\ (closed => everClosed)
           /\ session \in {"active", "archived"} /\ blocks = Cardinality(Blocking)
           /\ IsFiniteSet(Blocking) /\ Len(questions) \in Nat
<1>1. IsFiniteSet(Blocking)
  BY PauseAssumption, FS_Subset DEF Blocking
<1> QED
  BY <1>1 DEF IInv, Types

\* The running turn is told to stop.
LEMMA CancelSignalsIInv ==
    ASSUME IInv, NEW t \in Tasks, CancelSignals(t)
    PROVE  IInv'
<1>1. PlaceOK(t) /\ ScopeOK(t) /\ tasks[t] \in TaskType
  BY TaskFacts
<1>2. /\ tasks[t].pc = "signal" /\ tasks[t].role = "cancel" /\ tasks[t].q = 0 /\ cancelAsked
      /\ tasks[t].pc \notin Holding /\ tasks' = [CancelToken EXCEPT ![t] = Idle]
      /\ UNCHANGED <<row, questions, session, scope, blocks, closed, cancelAsked, everClosed>>
  BY <1>1 DEF CancelSignals, PlaceOK, TaskType, Roles, Resolving, Cancelling, GivingBack,
     Executing,
     Holding, memory, bounds
<1>3. tasks' \in [Tasks -> TaskType] /\ tasks'[t] = Idle /\ \A u \in Tasks : u # t => Same(u)
  BY <1>2, TokenMoves, IdleType
<1>4. Others(t)
  BY <1>2, <1>3, NobodyReconciles, HistoryFacts, SameOthers
<1>5. Blocking' = Blocking
  BY <1>2, <1>3, IdleType DEF Blocking, Same
<1>6. Steady
  BY <1>2, <1>5, HistoryFacts DEF Steady
<1>7. TaskOK(t)' /\ TurnOK(t)' /\ KeptOK(t)'
  BY <1>1, <1>2, <1>3, IdleOK DEF ScopeOK
<1>8. tasks'[t].q = 0 /\ tasks'[t].role # "reconcile" /\ tasks'[t].write.asks <= Len(questions)
  BY <1>3, IdleType, HistoryFacts
<1> QED
  BY <1>2, <1>3, <1>4, <1>6, <1>7, <1>8, RowsStay

\* begin_turn_cancellation raises the barrier.
LEMMA BeginCancellationIInv ==
    ASSUME IInv, NEW t \in Tasks, BeginCancellation(t)
    PROVE  IInv'
<1>1. /\ PlaceOK(t) /\ ScopeOK(t) /\ WriteOK(t) /\ tasks[t] \in TaskType /\ ReconcileOK(t)
      /\ tasks[t].write.asks <= Len(questions)
  BY TaskFacts
<1>2. /\ tasks[t].pc = "barrier" /\ tasks[t].role = "cancel" /\ tasks[t].q = 0 /\ cancelAsked
      /\ tasks[t].pc \notin Holding /\ blocks' = blocks + 1
      /\ UNCHANGED <<row, questions, session, scope, closed, cancelAsked, everClosed>>
  BY <1>1 DEF BeginCancellation, PlaceOK, TaskType, Roles, Resolving, Cancelling, GivingBack,
     Executing,
     Holding, bounds
<1> DEFINE n == At(tasks[t], "drain")
<1>3. /\ n \in TaskType /\ n.role = "cancel" /\ n.pc = "drain" /\ n.q = 0
      /\ n.cancelled = tasks[t].cancelled /\ n.write = tasks[t].write
  <2>1. "drain" \in Places
    BY DEF Places, Handling
  <2> QED
    BY <1>1, <1>2, <2>1, AtFacts
<1>4. tasks' = [CancelToken EXCEPT ![t] = n]
  <2>1. CancelToken \in [Tasks -> TaskType] /\ CancelToken[t] = tasks[t]
    BY <1>2, TokenFacts
  <2>2. tasks' = [CancelToken EXCEPT ![t].pc = "drain"]
    BY DEF BeginCancellation
  <2> QED
    BY <2>1, <2>2 DEF At
<1> HIDE DEF n
<1>5. tasks' \in [Tasks -> TaskType] /\ tasks'[t] = n /\ \A u \in Tasks : u # t => Same(u)
  BY <1>2, <1>3, <1>4, TokenMoves
<1>6. Others(t)
  BY <1>2, <1>5, NobodyReconciles, HistoryFacts, SameOthers
<1>7. Blocking' = Blocking \cup {t} /\ t \notin Blocking
  BY <1>2, <1>3, <1>5 DEF Blocking, Same
<1>8. Cardinality(Blocking)' = Cardinality(Blocking) + 1
  BY <1>7, HistoryFacts, FS_AddElement
<1>9. Steady
  BY <1>2, <1>8, HistoryFacts DEF Steady
<1>10. TaskOK(t)'
  BY <1>1, <1>2, <1>3, <1>5 DEF TaskOK, PlaceOK, HandOK, WriteOK, ScopeOK, BarrierOK, ReconcileOK,
     Holding, Executing, Cancelling
<1>11. TurnOK(t)' /\ KeptOK(t)'
  BY <1>3, <1>5 DEF TurnOK, KeptOK, Engaged, InPast, Active
<1> QED
  BY <1>1, <1>2, <1>3, <1>5, <1>6, <1>9, <1>10, <1>11, RowsStay

\* finish_turn_cancellation lifts it.
LEMMA FinishCancellationIInv ==
    ASSUME IInv, NEW t \in Tasks, FinishCancellation(t)
    PROVE  IInv'
<1>1. PlaceOK(t) /\ ScopeOK(t) /\ tasks[t] \in TaskType /\ tasks \in [Tasks -> TaskType]
  BY TaskFacts
<1>2. /\ tasks[t].pc = "unblock" /\ tasks[t].role = "cancel" /\ tasks[t].q = 0
      /\ tasks[t].pc \notin Holding /\ blocks' = blocks - 1 /\ Done(t)
      /\ UNCHANGED <<row, questions, session, scope, closed, cancelAsked, everClosed>>
  BY <1>1 DEF FinishCancellation, PlaceOK, TaskType, Roles, Resolving, Cancelling, GivingBack,
     Executing,
     Holding, bounds
<1>3. /\ tasks' = [tasks EXCEPT ![t] = Idle] /\ tasks' \in [Tasks -> TaskType]
      /\ tasks'[t] = Idle /\ \A u \in Tasks : u # t => tasks'[u] = tasks[u]
  BY <1>1, <1>2, DoneFacts, ReplaceView, IdleType
<1>4. \A u \in Tasks : u # t => Same(u)
  BY <1>3 DEF Same
<1>5. Others(t)
  BY <1>2, <1>4, NobodyReconciles, HistoryFacts, SameOthers
<1>6. Blocking' = Blocking \ {t} /\ t \in Blocking
  BY <1>2, <1>3, IdleType DEF Blocking
<1>7. Cardinality(Blocking)' = Cardinality(Blocking) - 1 /\ Cardinality(Blocking)' \in Nat
  BY <1>6, HistoryFacts, FS_RemoveElement, FS_CardinalityType
<1>8. Steady
  BY <1>2, <1>7, HistoryFacts DEF Steady
<1>9. TaskOK(t)' /\ TurnOK(t)' /\ KeptOK(t)'
  BY <1>1, <1>2, <1>3, IdleOK DEF ScopeOK
<1>10. tasks'[t].q = 0 /\ tasks'[t].role # "reconcile" /\ tasks'[t].write.asks <= Len(questions)
  BY <1>3, IdleType, HistoryFacts
<1> QED
  BY <1>2, <1>3, <1>5, <1>8, <1>9, <1>10, RowsStay

\* close_session closes the scopes of the session.
LEMMA CloseScopeIInv ==
    ASSUME IInv, NEW t \in Tasks, CloseScope(t)
    PROVE  IInv'
<1>1. PlaceOK(t) /\ ScopeOK(t) /\ tasks[t] \in TaskType
  BY TaskFacts
<1>2. /\ tasks[t].pc = "close_scope" /\ tasks[t].role = "close" /\ tasks[t].q = 0 /\ everClosed
      /\ tasks[t].pc \notin Holding /\ tasks' = [CancelToken EXCEPT ![t] = Idle]
      /\ scope' = NoTask /\ closed' = TRUE
      /\ UNCHANGED <<row, questions, session, blocks, cancelAsked, everClosed>>
  BY <1>1 DEF CloseScope, PlaceOK, TaskType, Roles, Resolving, Cancelling, GivingBack, Executing,
     Holding, bounds
<1>3. tasks' \in [Tasks -> TaskType] /\ tasks'[t] = Idle /\ \A u \in Tasks : u # t => Same(u)
  BY <1>2, TokenMoves, IdleType
<1>4. Others(t)
  BY <1>2, <1>3, NobodyReconciles, HistoryFacts, SameOthers
<1>5. Blocking' = Blocking
  BY <1>2, <1>3, IdleType DEF Blocking, Same
<1>6. Steady
  BY <1>2, <1>5, HistoryFacts DEF Steady
<1>7. TaskOK(t)' /\ TurnOK(t)' /\ KeptOK(t)'
  BY <1>2, <1>3, IdleOK, PauseAssumption
<1>8. tasks'[t].q = 0 /\ tasks'[t].role # "reconcile" /\ tasks'[t].write.asks <= Len(questions)
  BY <1>3, IdleType, HistoryFacts
<1> QED
  BY <1>2, <1>3, <1>4, <1>6, <1>7, <1>8, RowsStay

\* restore_session lets turns be opened again.
LEMMA ReopenScopeIInv ==
    ASSUME IInv, NEW t \in Tasks, ReopenScope(t)
    PROVE  IInv'
<1>1. PlaceOK(t) /\ ScopeOK(t) /\ tasks[t] \in TaskType /\ tasks \in [Tasks -> TaskType]
  BY TaskFacts
<1>2. /\ tasks[t].pc = "reopen_scope" /\ tasks[t].role = "restore" /\ tasks[t].q = 0
      /\ tasks[t].pc \notin Holding /\ closed' = FALSE /\ Done(t)
      /\ UNCHANGED <<row, questions, session, scope, blocks, cancelAsked, everClosed>>
  BY <1>1 DEF ReopenScope, PlaceOK, TaskType, Roles, Resolving, Cancelling, GivingBack, Executing,
     Holding, bounds
<1>3. /\ tasks' = [tasks EXCEPT ![t] = Idle] /\ tasks' \in [Tasks -> TaskType]
      /\ tasks'[t] = Idle /\ \A u \in Tasks : u # t => tasks'[u] = tasks[u]
  BY <1>1, <1>2, DoneFacts, ReplaceView, IdleType
<1>4. \A u \in Tasks : u # t => Same(u)
  BY <1>3 DEF Same
<1>5. Others(t)
  BY <1>2, <1>4, NobodyReconciles, HistoryFacts, SameOthers
<1>6. Blocking' = Blocking
  BY <1>2, <1>3, IdleType DEF Blocking
<1>7. Steady
  BY <1>2, <1>6, HistoryFacts DEF Steady
<1>8. TaskOK(t)' /\ TurnOK(t)' /\ KeptOK(t)'
  BY <1>1, <1>2, <1>3, IdleOK DEF ScopeOK
<1>9. tasks'[t].q = 0 /\ tasks'[t].role # "reconcile" /\ tasks'[t].write.asks <= Len(questions)
  BY <1>3, IdleType, HistoryFacts
<1> QED
  BY <1>2, <1>3, <1>5, <1>7, <1>8, <1>9, RowsStay

-----------------------------------------------------------------------------
(* Requests and restarts.                                                  *)

\* The record of a task that starts.
Started(role, pc, q, revision, action) ==
    [Idle EXCEPT !.role = role, !.pc = pc, !.q = q, !.revision = revision, !.action = action]

\* Its fields.
LEMMA StartedFacts ==
    ASSUME NEW role \in Roles, NEW pc \in Places, NEW q \in Nat, NEW revision \in Nat,
           NEW action \in {"none", "resume", "stop"}
    PROVE  /\ Started(role, pc, q, revision, action) \in TaskType
           /\ Started(role, pc, q, revision, action).role = role
           /\ Started(role, pc, q, revision, action).pc = pc
           /\ Started(role, pc, q, revision, action).q = q
           /\ Started(role, pc, q, revision, action).revision = revision
           /\ Started(role, pc, q, revision, action).cancelled = Idle.cancelled
           /\ Started(role, pc, q, revision, action).write = Idle.write
BY DEF Started, Idle, TaskType, RowType, Row, Statuses, Places

\* A task without a question.
Plain(role, pc) == [Idle EXCEPT !.role = role, !.pc = pc]

\* Its fields.
LEMMA PlainFacts ==
    ASSUME NEW role \in Roles, NEW pc \in Places
    PROVE  /\ Plain(role, pc) \in TaskType /\ Plain(role, pc).role = role
           /\ Plain(role, pc).pc = pc /\ Plain(role, pc).q = 0
           /\ Plain(role, pc).cancelled = Idle.cancelled /\ Plain(role, pc).write = Idle.write
BY DEF Plain, Idle, TaskType, RowType, Row, Statuses, Places

\* A request takes an idle task.
LEMMA SpawnFacts ==
    ASSUME IInv, NEW n \in TaskType, Spawn(n), scope' = scope, everClosed => everClosed'
    PROVE  \E t \in Tasks :
             /\ tasks[t].role = "none" /\ tasks[t].pc = "idle" /\ tasks[t].q = 0
             /\ tasks' \in [Tasks -> TaskType] /\ tasks'[t] = n
             /\ \A u \in Tasks : u # t => tasks'[u] = tasks[u]
             /\ Others(t) /\ scope # t
             /\ n.role # "cancel" \/ n.pc = "cancel" => Blocking' = Blocking
<1>1. PICK t \in Tasks : tasks[t].pc = "idle" /\ tasks' = [tasks EXCEPT ![t] = n]
  BY DEF Spawn
<1>2. PlaceOK(t) /\ ScopeOK(t)
  BY TaskFacts
<1>3. tasks[t].role = "none" /\ tasks[t].q = 0 /\ scope # t
  BY <1>1, <1>2 DEF PlaceOK, ScopeOK, Holding, Executing
<1>4. /\ tasks' \in [Tasks -> TaskType] /\ tasks'[t] = n
      /\ \A u \in Tasks : u # t => tasks'[u] = tasks[u]
  BY <1>1, ReplaceView
<1>5. \A u \in Tasks : u # t => Same(u) /\ tasks[u].role # "reconcile"
  BY <1>4 DEF Same, Spawn, Serving
<1>6. Others(t)
  BY <1>5, HistoryFacts, SameOthers
<1>7. n.role # "cancel" \/ n.pc = "cancel" => Blocking' = Blocking
  BY <1>3, <1>4 DEF Blocking
<1> QED
  BY <1>1, <1>3, <1>4, <1>6, <1>7

\* A request without a question starts.
LEMMA PlainSpawn ==
    ASSUME IInv, NEW role \in {"cancel", "close", "restore"}, NEW pc \in Places,
           pc = (CASE role = "cancel" -> "cancel" [] role = "close" -> "close_scope"
                   [] role = "restore" -> "reopen_scope"),
           Spawn([Idle EXCEPT !.role = role, !.pc = pc]),
           UNCHANGED <<scope, blocks, closed>>, session' \in {"active", "archived"},
           cancelAsked' \in BOOLEAN, everClosed' \in BOOLEAN,
           cancelAsked => cancelAsked', everClosed => everClosed',
           role = "cancel" => cancelAsked', role = "close" => everClosed'
    PROVE  \E t \in Tasks :
             /\ tasks[t].q = 0 /\ tasks' \in [Tasks -> TaskType] /\ Others(t) /\ Steady
             /\ \A u \in Tasks : u # t => tasks'[u] = tasks[u]
             /\ TaskOK(t)' /\ TurnOK(t)' /\ KeptOK(t)' /\ ~Engaged(t)'
             /\ tasks'[t].q = 0 /\ tasks'[t].write.asks = 0 /\ tasks'[t].role # "reconcile"
<1> DEFINE n == Plain(role, pc)
<1>1. role \in Roles
  BY DEF Roles
<1>2. /\ n \in TaskType /\ n.role = role /\ n.pc = pc /\ n.q = 0 /\ n.cancelled = FALSE /\ n.write.asks = 0
  BY <1>1, PlainFacts, IdleType
<1>3. Spawn(n)
  BY DEF Plain
<1> HIDE DEF n
<1>4. pc \in {"cancel", "close_scope", "reopen_scope"} /\ (role = "cancel" => pc = "cancel")
      /\ (role = "close" => pc = "close_scope") /\ (role = "restore" => pc = "reopen_scope")
  OBVIOUS
<1>5. PICK t \in Tasks :
             /\ tasks[t].role = "none" /\ tasks[t].pc = "idle" /\ tasks[t].q = 0
             /\ tasks' \in [Tasks -> TaskType] /\ tasks'[t] = n
             /\ \A u \in Tasks : u # t => tasks'[u] = tasks[u]
             /\ Others(t) /\ scope # t
             /\ n.role # "cancel" \/ n.pc = "cancel" => Blocking' = Blocking
  BY <1>2, <1>3, SpawnFacts
<1>6. Blocking' = Blocking
  BY <1>2, <1>4, <1>5
<1>7. Steady
  BY <1>6, HistoryFacts DEF Steady
<1>8. TaskOK(t)'
  BY <1>2, <1>4, <1>5 DEF TaskOK, PlaceOK, HandOK, WriteOK, ScopeOK, BarrierOK, ReconcileOK,
     Holding, Executing, Cancelling
<1>9. TurnOK(t)' /\ KeptOK(t)' /\ ~Engaged(t)'
  BY <1>2, <1>4, <1>5 DEF TurnOK, KeptOK, Engaged, InPast, Active
<1> QED
  BY <1>2, <1>5, <1>7, <1>8, <1>9

\* Somebody asks to cancel the turn.
LEMMA RequestCancelIInv ==
    ASSUME IInv, RequestCancel
    PROVE  IInv'
<1>1. /\ Spawn([Idle EXCEPT !.role = "cancel", !.pc = "cancel"]) /\ cancelAsked' = TRUE
      /\ UNCHANGED <<row, questions, session, scope, blocks, closed, everClosed>>
  BY DEF RequestCancel, memory
<1>2. "cancel" \in Places
  BY SMTT(60) DEF Places, Handling
<1>3. PICK t \in Tasks :
             /\ tasks[t].q = 0 /\ tasks' \in [Tasks -> TaskType] /\ Others(t) /\ Steady
             /\ TaskOK(t)' /\ TurnOK(t)' /\ KeptOK(t)'
             /\ tasks'[t].q = 0 /\ tasks'[t].write.asks = 0 /\ tasks'[t].role # "reconcile"
  <2>1. session \in {"active", "archived"} /\ everClosed \in BOOLEAN
    BY HistoryFacts
  <2> QED
    BY <1>1, <1>2, <2>1, PlainSpawn
<1>4. tasks'[t].write.asks <= Len(questions)
  BY <1>3, HistoryFacts
<1> QED
  BY <1>1, <1>3, <1>4, RowsStay


\* restore_session
LEMMA RestoreSessionIInv ==
    ASSUME IInv, RestoreSession
    PROVE  IInv'
<1>1. /\ Spawn([Idle EXCEPT !.role = "restore", !.pc = "reopen_scope"]) /\ session' = "active"
      /\ UNCHANGED <<row, questions, scope, blocks, closed, cancelAsked, everClosed>>
  BY DEF RestoreSession, memory
<1>2. "reopen_scope" \in Places
  BY SMTT(60) DEF Places, Handling
<1>3. PICK t \in Tasks :
             /\ tasks[t].q = 0 /\ tasks' \in [Tasks -> TaskType] /\ Others(t) /\ Steady
             /\ TaskOK(t)' /\ TurnOK(t)' /\ KeptOK(t)'
             /\ tasks'[t].q = 0 /\ tasks'[t].write.asks = 0 /\ tasks'[t].role # "reconcile"
  <2>1. cancelAsked \in BOOLEAN /\ everClosed \in BOOLEAN
    BY HistoryFacts
  <2> QED
    BY <1>1, <1>2, <2>1, PlainSpawn
<1>4. tasks'[t].write.asks <= Len(questions)
  BY <1>3, HistoryFacts
<1> QED
  BY <1>1, <1>3, <1>4, RowsStay

\* close_session ends the turn in one transaction.
LEMMA CloseSessionIInv ==
    ASSUME IInv, CloseSession
    PROVE  IInv'
<1>1. /\ Spawn([Idle EXCEPT !.role = "close", !.pc = "close_scope"]) /\ session' = "archived"
      /\ everClosed' = TRUE /\ questions' = Withdrawn
      /\ UNCHANGED <<scope, blocks, closed, cancelAsked>>
  BY DEF CloseSession, memory
<1>2. "close_scope" \in Places
  BY SMTT(60) DEF Places, Handling
<1>3. PICK t \in Tasks :
             /\ tasks[t].q = 0 /\ tasks' \in [Tasks -> TaskType] /\ Others(t) /\ Steady
             /\ \A u \in Tasks : u # t => tasks'[u] = tasks[u]
             /\ TaskOK(t)' /\ TurnOK(t)' /\ KeptOK(t)' /\ ~Engaged(t)'
             /\ tasks'[t].q = 0 /\ tasks'[t].write.asks = 0 /\ tasks'[t].role # "reconcile"
  <2>1. cancelAsked \in BOOLEAN /\ everClosed \in BOOLEAN
    BY HistoryFacts
  <2> QED
    BY <1>1, <1>2, <2>1, PlainSpawn
<1>4. /\ Len(questions') = Len(questions) /\ QuestionsGrow(t) /\ Len(questions) \in Nat
      /\ \A q \in 1..Len(questions) : Kind(q)' = Kind(q)
  BY <1>1, WithdrawnFacts, HistoryFacts DEF QuestionsGrow, Kind
<1>5. /\ row \in RowType /\ row.asks <= Len(questions) /\ RowOK
  BY DEF IInv, Types
<1>6. row' \in RowType /\ row'.status \in Terminal /\ row'.asks = row.asks /\ row'.asks <= Len(questions')
      /\ (row'.marker = "limit" => row.marker = "limit") /\ row.asks \in Nat
  <2>1. CASE row.status \in Terminal
    BY <1>4, <1>5, <2>1 DEF CloseSession, RowType
  <2>2. CASE row.status \notin Terminal
    BY <1>4, <1>5, <2>2 DEF CloseSession, RowType, Statuses, Terminal
  <2> QED
    BY <2>1, <2>2
<1>7. RowOK'
  BY <1>4, <1>5, <1>6 DEF RowOK, Terminal
<1>8. ASSUME OneApproval' PROVE PauseOK' /\ \A u \in Tasks : TurnOK(u)'
  <2>1. OneApproval
    BY <1>4, <1>8, ApprovalsStay
  <2>2. PauseOK' /\ ~RowPaused'
    BY <1>6 DEF PauseOK, RowPaused, Terminal
  <2>3. ASSUME NEW u \in Tasks, u # t PROVE TurnOK(u)'
    <3>1. TurnOK(u) /\ WriteOK(u) /\ tasks'[u] = tasks[u] /\ tasks[u].write.asks \in Nat
          /\ tasks[u].write.asks <= Len(questions)
      BY <1>3, <2>1, <2>3, TaskFacts DEF TaskType, RowType
    <3>2. Engaged(u)' => \A v \in Tasks : v # u => ~Engaged(v)'
      BY <1>3, <2>3, <3>1 DEF TurnOK, Engaged, InPast
    <3>3. tasks[u].pc = "asked" => Kind(Len(questions))' # "limit"
      BY <1>4, <3>1 DEF TurnOK, WriteOK
    <3>4. tasks[u].pc \in {"check", "write"} /\ tasks[u].write.status = "awaiting_input"
          => tasks[u].write.asks # 0 /\ Kind(tasks[u].write.asks)' # "limit"
      BY <1>4, <3>1 DEF TurnOK
    <3> QED
      BY <1>6, <2>2, <3>1, <3>2, <3>3, <3>4 DEF TurnOK, Kind
  <2> QED
    BY <1>3, <2>2, <2>3
<1>9. tasks'[t].write.asks <= Len(questions') /\ tasks'[t].q <= Len(questions')
  BY <1>3, <1>4
<1> QED
  BY <1>1, <1>3, <1>4, <1>6, <1>7, <1>8, <1>9, StepMoves

\* A question is answered, and the answer is in the hands of the request.
LEMMA AnswerIInv ==
    ASSUME IInv, NEW q \in DOMAIN questions, NEW action \in {"resume", "stop"}, Answer(q, action)
    PROVE  IInv'
<1>1. /\ q \in 1..Len(questions) /\ questions[q] \in QuestionType /\ Len(questions) \in Nat
      /\ questions[q].status = "pending" /\ questions[q].revision + 1 \in Nat /\ q \in Nat
  <2>1. questions \in Seq(QuestionType) /\ Len(questions) \in Nat /\ questions[q].status = "pending"
    BY DEF IInv, Types, Answer
  <2>2. q \in 1..Len(questions) /\ questions[q] \in QuestionType
    BY <2>1
  <2> QED
    BY <2>1, <2>2 DEF QuestionType
<1> DEFINE r == Settled(questions[q], "answered", action)
           n == Started("answer", "answered", q, questions[q].revision + 1, action)
<1>2. r \in QuestionType /\ r.kind = questions[q].kind /\ r.status = "answered"
      /\ r.revision = questions[q].revision + 1
  BY <1>1, SettledFacts
<1>3. questions' = [questions EXCEPT ![q] = r]
  BY DEF Answer, Settled
<1>4. /\ n \in TaskType /\ n.role = "answer" /\ n.pc = "answered" /\ n.q = q
      /\ n.revision = questions[q].revision + 1 /\ n.cancelled = FALSE /\ n.write.asks = 0
  <2>1. "answer" \in Roles /\ "answered" \in Places /\ action \in {"none", "resume", "stop"}
    BY DEF Roles, Places, Handling
  <2> QED
    BY <1>1, <2>1, StartedFacts, IdleType
<1>5. Spawn(n) /\ UNCHANGED <<row, session, scope, blocks, closed, cancelAsked, everClosed>>
  BY DEF Answer, Started, memory
<1> HIDE DEF r, n
<1>6. PICK t \in Tasks :
             /\ tasks[t].role = "none" /\ tasks[t].pc = "idle" /\ tasks[t].q = 0
             /\ tasks' \in [Tasks -> TaskType] /\ tasks'[t] = n
             /\ \A u \in Tasks : u # t => tasks'[u] = tasks[u]
             /\ Others(t) /\ scope # t
             /\ n.role # "cancel" \/ n.pc = "cancel" => Blocking' = Blocking
  BY <1>4, <1>5, SpawnFacts
<1>7. \A u \in Tasks : tasks[u].q # q
  <2> SUFFICES ASSUME NEW u \in Tasks, tasks[u].q = q PROVE FALSE
    OBVIOUS
  <2>1. HandOK(u) /\ q # 0
    BY <1>1, TaskFacts
  <2> QED
    BY <1>1, <2>1 DEF HandOK, StillAnswered
<1>8. /\ QuestionsGrow(t) /\ Len(questions') = Len(questions) /\ questions'[q] = r
      /\ \A p \in 1..Len(questions) : p # q => questions'[p] = questions[p]
      /\ \A p \in 1..Len(questions) : Kind(p)' = Kind(p)
      /\ OneApproval' <=> OneApproval
  BY <1>1, <1>2, <1>3, <1>7, QuestionChanges
<1>9. row' = row /\ row.asks \in 0..Len(questions) /\ row' \in RowType /\ row'.asks <= Len(questions') /\ RowOK
  BY <1>1, <1>5, <1>8 DEF IInv, Types, RowType
<1>10. RowOK'
  BY <1>8, <1>9 DEF RowOK
<1>11. Steady
  BY <1>4, <1>5, <1>6, HistoryFacts DEF Steady
<1>12. TaskOK(t)'
  <2>1. HandOK(t)'
    BY <1>2, <1>4, <1>6, <1>7, <1>8 DEF HandOK, StillAnswered
  <2> QED
    BY <1>1, <1>4, <1>5, <1>6, <2>1 DEF TaskOK, PlaceOK, WriteOK, ScopeOK, BarrierOK,
       ReconcileOK, Holding,
       Executing
<1>13. ASSUME OneApproval PROVE PauseOK' /\ \A u \in Tasks : TurnOK(u)'
  <2>1. PauseOK
    BY <1>13 DEF IInv
  <2>2. PauseOK'
    BY <1>1, <1>2, <1>8, <1>9, <2>1 DEF PauseOK, RowOK
  <2>3. ~Engaged(t)' /\ TurnOK(t)'
    BY <1>4, <1>6 DEF TurnOK, Engaged, InPast, Active, Past
  <2>4. ASSUME NEW u \in Tasks, u # t PROVE TurnOK(u)'
    <3>1. TurnOK(u) /\ WriteOK(u) /\ tasks'[u] = tasks[u] /\ tasks[u].write.asks \in Nat
          /\ tasks[u].write.asks <= Len(questions)
      BY <1>6, <1>13, <2>4, TaskFacts DEF TaskType, RowType
    <3>2. Engaged(u)' => \A v \in Tasks : v # u => ~Engaged(v)'
      BY <1>6, <2>3, <2>4, <3>1 DEF TurnOK, Engaged, InPast
    <3>3. tasks[u].pc = "asked" => Kind(Len(questions))' # "limit"
      BY <1>1, <1>8, <3>1 DEF TurnOK, WriteOK
    <3>4. tasks[u].pc \in {"check", "write"} /\ tasks[u].write.status = "awaiting_input"
          => tasks[u].write.asks # 0 /\ Kind(tasks[u].write.asks)' # "limit"
      BY <1>1, <1>8, <3>1 DEF TurnOK
    <3> QED
      BY <1>8, <1>9, <3>1, <3>2, <3>3, <3>4 DEF TurnOK, InPast, First, RowPaused, Kind
  <2> QED
    BY <2>2, <2>3, <2>4
<1>14. ASSUME OneApproval, ~everClosed PROVE DecisionKept' /\ \A u \in Tasks : KeptOK(u)'
  <2>1. DecisionKept /\ PauseOK
    BY <1>14 DEF IInv
  <2>2. DecisionKept'
    <3> SUFFICES ASSUME Stranded("limit")' PROVE cancelAsked' /\ row'.status = "preparing_context"
      BY DEF DecisionKept
    <3>1. InHand(q)'
      BY <1>4, <1>6 DEF InHand
    <3>2. row.asks \in 1..Len(questions) /\ row.asks # q
      BY <1>1, <1>9, <3>1 DEF Stranded
    <3>3. InHand(row.asks) => InHand(row.asks)'
      BY <1>6, <1>9 DEF InHand
    <3>4. Stranded("limit")
      BY <1>8, <1>9, <3>2, <3>3 DEF Stranded
    <3> QED
      BY <1>5, <2>1, <3>4 DEF DecisionKept
  <2>3. KeptOK(t)'
    <3>1. Kind(q) = "limit" => ~Prepared(q)'
      BY <1>1, <1>9, <2>1 DEF PauseOK, Prepared
    <3> QED
      BY <1>4, <1>6, <1>8, <1>1, <3>1 DEF KeptOK, Executing
  <2>4. ASSUME NEW u \in Tasks, u # t PROVE KeptOK(u)'
    <3>1. KeptOK(u) /\ tasks[u].q \in Nat /\ tasks[u].q <= Len(questions) /\ tasks'[u] = tasks[u]
      BY <1>6, <1>14, <2>4, TaskFacts DEF Types, TaskType
    <3>2. tasks[u].q # 0 => Kind(tasks[u].q)' = Kind(tasks[u].q)
      BY <1>1, <1>8, <3>1
    <3> QED
      BY <1>5, <3>1, <3>2 DEF KeptOK, Prepared, Awaited
  <2> QED
    BY <2>2, <2>3, <2>4
<1>15. /\ tasks'[t].q <= Len(questions') /\ tasks'[t].write.asks <= Len(questions')
       /\ \A u \in Tasks : u # t => tasks[u].q # tasks'[t].q
       /\ tasks'[t].role # "reconcile"
  BY <1>1, <1>4, <1>6, <1>7, <1>8
<1> QED
  BY <1>5, <1>6, <1>8, <1>9, <1>10, <1>11, <1>12, <1>13, <1>14, <1>15, StepMoves


\* The daemon dies: the rows are kept, and an answer the turn awaits is taken up again.
LEMMA CrashIInv ==
    ASSUME IInv, Crash
    PROVE  IInv'
<1>1. /\ scope' = NoTask /\ blocks' = 0 /\ closed' = FALSE
      /\ UNCHANGED <<row, questions, session, cancelAsked, everClosed>>
  BY DEF Crash
<1>2. Types /\ RowOK /\ Len(questions) \in Nat /\ row.asks \in Nat /\ row.asks <= Len(questions)
  BY DEF IInv, Types, RowType
<1> DEFINE again == PreExecution /\ questions[row.asks].status = "answered"
           n == Started("reconcile", "reconcile", row.asks, questions[row.asks].revision,
                        questions[row.asks].action)
<1>3. PICK t \in Tasks : tasks' = [u \in Tasks |-> IF u = t /\ again THEN n ELSE Idle]
  BY DEF Crash, Started
<1>4. again => /\ n \in TaskType /\ n.role = "reconcile" /\ n.pc = "reconcile" /\ n.q = row.asks
               /\ n.revision = questions[row.asks].revision /\ n.cancelled = FALSE /\ n.write.asks = 0
               /\ row.asks # 0 /\ row.asks \in 1..Len(questions) /\ Kind(row.asks) = "limit"
  <2> SUFFICES ASSUME again
               PROVE  /\ n \in TaskType /\ n.role = "reconcile" /\ n.pc = "reconcile" /\ n.q = row.asks
                      /\ n.revision = questions[row.asks].revision /\ n.cancelled = FALSE
                      /\ n.write.asks = 0
                      /\ row.asks # 0 /\ row.asks \in 1..Len(questions) /\ Kind(row.asks) = "limit"
    OBVIOUS
  <2>1. row.asks # 0 /\ Kind(row.asks) = "limit" /\ row.asks \in 1..Len(questions)
    BY <1>2 DEF RowOK, PreExecution
  <2>2. questions[row.asks] \in QuestionType
    BY <1>2, <2>1 DEF Types
  <2>3. questions[row.asks].revision \in Nat /\ questions[row.asks].action \in {"none", "resume", "stop"}
    BY <2>2 DEF QuestionType
  <2>4. "reconcile" \in Roles /\ "reconcile" \in Places
    BY DEF Roles, Places, Handling
  <2> QED
    BY <1>2, <2>1, <2>3, <2>4, StartedFacts, IdleType, SMTT(60)
<1> HIDE DEF n
<1>5. /\ tasks' \in [Tasks -> TaskType] /\ \A u \in Tasks : u # t => tasks'[u] = Idle
      /\ again => tasks'[t] = n
      /\ ~again => tasks'[t] = Idle
  BY <1>3, <1>4, IdleType
<1> HIDE DEF again
<1>6. NoTask \notin Tasks /\ IsFiniteSet(Tasks)
  BY PauseAssumption
<1>7. Blocking' = {}
  BY <1>4, <1>5, IdleType DEF Blocking
<1>8. blocks' = Cardinality(Blocking)' /\ (closed => everClosed)' /\ RowOK'
  BY <1>1, <1>2, <1>7, FS_EmptySet DEF RowOK, Kind
<1>9. Types'
  <2>1. ASSUME NEW u \in Tasks PROVE tasks'[u].q <= Len(questions) /\ tasks'[u].write.asks <= Len(questions)
    BY <1>2, <1>4, <1>5, IdleType
  <2> QED
    BY <1>1, <1>2, <1>5, <2>1 DEF Types
<1>10. ASSUME NEW u \in Tasks, tasks'[u] = Idle
       PROVE  TaskOK(u)' /\ TurnOK(u)' /\ KeptOK(u)'
  BY <1>1, <1>6, <1>10, IdleOK
<1>11. ASSUME again
       PROVE  TaskOK(t)' /\ TurnOK(t)' /\ KeptOK(t)'
  <2>1. /\ tasks'[t] = n /\ n.role = "reconcile" /\ n.pc = "reconcile" /\ n.q = row.asks
        /\ n.revision = questions[row.asks].revision /\ n.cancelled = FALSE /\ n.write.asks = 0
        /\ row.asks # 0 /\ Kind(row.asks) = "limit" /\ PreExecution
        /\ questions[row.asks].status = "answered"
        /\ \A u \in Tasks : u # t => tasks'[u] = Idle
    BY <1>4, <1>5, <1>11 DEF again
  <2>2. HandOK(t)'
    BY <1>1, <2>1, IdleType DEF HandOK, StillAnswered, Kind
  <2>3. ReconcileOK(t)'
    BY <1>1, <2>1, IdleType DEF ReconcileOK, PreExecution
  <2>4. PlaceOK(t)' /\ WriteOK(t)' /\ ScopeOK(t)' /\ BarrierOK(t)'
    BY <1>1, <1>6, <2>1 DEF PlaceOK, WriteOK, ScopeOK, BarrierOK, Holding, Executing
  <2>5. TurnOK(t)' /\ KeptOK(t)'
    BY <2>1 DEF TurnOK, KeptOK, Engaged, InPast, Active, Past, Executing
  <2> QED
    BY <2>2, <2>3, <2>4, <2>5 DEF TaskOK
<1>12. \A u \in Tasks : TaskOK(u)' /\ TurnOK(u)' /\ KeptOK(u)'
  BY <1>5, <1>10, <1>11
<1>13. OneApproval' => OneApproval /\ PauseOK /\ PauseOK'
  BY <1>1 DEF IInv, OneApproval, PauseOK, Kind
<1>14. ASSUME OneApproval' PROVE DecisionKept'
  <2> SUFFICES ASSUME Stranded("limit")' PROVE FALSE
    BY DEF DecisionKept
  <2>1. /\ row.status \in {"awaiting_input", "preparing_context"} /\ row.asks # 0
        /\ Kind(row.asks) = "limit" /\ questions[row.asks].status = "answered"
    BY <1>1 DEF Stranded, Kind
  <2>2. again
    BY <1>13, <1>14, <2>1 DEF PauseOK, again, PreExecution
  <2>3. tasks'[t].q = row'.asks /\ tasks'[t].pc # "idle"
    BY <1>1, <1>4, <1>5, <2>2
  <2> QED
    BY <2>3 DEF Stranded, InHand
<1> QED
  BY <1>8, <1>9, <1>12, <1>13, <1>14 DEF IInv

-----------------------------------------------------------------------------
(* The invariant.                                                          *)

\* The turn is about to be executed by its first task.
LEMMA InitIInv == Init => IInv
<1> SUFFICES ASSUME Init PROVE IInv
  OBVIOUS
<1> DEFINE n(w) == [Idle EXCEPT !.role = "run", !.pc = "check", !.write = w]
           w0 == Row("preparing_context", "none", 0)
<1>1. PICK t \in Tasks : scope = t /\ tasks = [u \in Tasks |-> IF u = t THEN n(w0) ELSE Idle]
  BY DEF Init
<1>2. /\ w0 \in RowType /\ w0.status = "preparing_context" /\ w0.marker = "none" /\ w0.asks = 0
  BY RowFacts DEF Statuses
<1>3. /\ row \in RowType /\ row.status = "idle" /\ row.marker = "none" /\ row.asks = 0
  <2>1. row = Row("idle", "none", 0)
    BY DEF Init
  <2> QED
    BY <2>1, RowFacts DEF Statuses
<1> HIDE DEF w0
<1>4. /\ n(w0) \in TaskType /\ n(w0).role = "run" /\ n(w0).pc = "check" /\ n(w0).q = 0
      /\ n(w0).cancelled = FALSE /\ n(w0).write = w0
  BY <1>2 DEF Idle, TaskType, Roles, Executing, RowType, Row, Statuses
<1> HIDE DEF n
<1>5. /\ tasks \in [Tasks -> TaskType] /\ tasks[t] = n(w0) /\ \A u \in Tasks : u # t => tasks[u] = Idle
  BY <1>1, <1>4, IdleType
<1>6. /\ questions = <<>> /\ Len(questions) = 0 /\ questions \in Seq(QuestionType) /\ session = "active"
      /\ blocks = 0 /\ closed = FALSE /\ cancelAsked = FALSE /\ everClosed = FALSE
  BY DEF Init
<1>7. \A u \in Tasks : tasks[u].q = 0 /\ tasks[u].write.asks = 0
  BY <1>2, <1>4, <1>5, IdleType
<1>8. Types
  <2>1. scope \in Tasks \cup {NoTask} /\ blocks \in Nat /\ row.asks <= Len(questions)
        /\ \A u \in Tasks : tasks[u].q <= Len(questions) /\ tasks[u].write.asks <= Len(questions)
    BY <1>1, <1>3, <1>6, <1>7
  <2> QED
    BY <1>3, <1>5, <1>6, <2>1 DEF Types
<1>9. Blocking = {}
  BY <1>4, <1>5, IdleType DEF Blocking
<1>10. blocks = Cardinality(Blocking) /\ (closed => everClosed) /\ RowOK
  BY <1>3, <1>6, <1>9, FS_EmptySet DEF RowOK
<1>11. TaskOK(t) /\ TurnOK(t) /\ KeptOK(t)
  <2>1. TaskOK(t)
    BY <1>1, <1>2, <1>4, <1>5, <1>7 DEF TaskOK, PlaceOK, HandOK, WriteOK, ScopeOK, BarrierOK,
       ReconcileOK,
       Executing, Holding
  <2>2. \A u \in Tasks : u # t => ~Engaged(u)
    BY <1>5, IdleType DEF Engaged, InPast, Active
  <2> QED
    BY <1>2, <1>3, <1>4, <1>5, <2>1, <2>2 DEF TurnOK, KeptOK, RowPaused, InPast
<1>12. ASSUME NEW u \in Tasks, u # t PROVE TaskOK(u) /\ TurnOK(u) /\ KeptOK(u)
  <2>1. tasks[u] = Idle /\ scope # u
    BY <1>1, <1>5, <1>12
  <2>2. TaskOK(u)
    BY <2>1, IdleType DEF TaskOK, PlaceOK, HandOK, WriteOK, ScopeOK, BarrierOK, ReconcileOK,
       Holding, Executing
  <2>3. TurnOK(u) /\ KeptOK(u)
    BY <2>1, IdleType DEF TurnOK, KeptOK, Engaged, InPast, Active, Past
  <2> QED
    BY <2>2, <2>3
<1>13. PauseOK /\ DecisionKept
  BY <1>3 DEF PauseOK, DecisionKept, Stranded
<1> QED
  BY <1>8, <1>10, <1>11, <1>12, <1>13 DEF IInv

\* Every step keeps the invariant.
LEMMA NextIInv == IInv /\ [Next]_vars => IInv'
<1> SUFFICES ASSUME IInv, [Next]_vars PROVE IInv'
  BY Zenon
<1>1. CASE UNCHANGED vars
  BY <1>1 DEF vars, IInv, Types, Blocking, RowOK, TaskOK, PlaceOK, HandOK, WriteOK, ScopeOK,
     BarrierOK,
     ReconcileOK, OneApproval, PauseOK, TurnOK, DecisionKept, KeptOK, Kind, StillAnswered, PreExecution,
     RowPaused, Engaged, InPast, First, Prepared, Awaited, Stranded, InHand
<1>2. ASSUME NEW t \in Tasks, Step(t) PROVE IInv'
  BY <1>2, UpdateTurnCheckIInv, PrepareFailsIInv, UpdateTurnWriteIInv, RunEndsIInv, AskUserIInv,
     PauseForLimitIInv, ExecutionFailsIInv, FailsEarlyIInv, FailTurnIfActiveIInv, FinishIInv,
     PublishAnswerIInv, MaybeResumeIInv, AwaitClosedIInv, ClaimResumeIInv, ClaimLostIInv, OpenTurnIInv,
     OpenRefusedIInv, ConfirmResumeIInv, SpawnResumedIInv, UnwindIInv, StopWaitsIInv, StopPausedIInv,
     StopLostIInv, RollbackIInv, RollbackTokenIInv, RestorePreparingIInv, ReopenQuestionIInv,
     CancelReadsIInv, CancelSignalsIInv, BeginCancellationIInv, CancelDrainsIInv, CancelLatestIInv,
     FinishCancellationIInv, CloseScopeIInv, ReopenScopeIInv, ReconcileIInv DEF Step
<1>3. ASSUME NEW q \in DOMAIN questions, NEW action \in {"resume", "stop"}, Answer(q, action) PROVE IInv'
  BY <1>3, AnswerIInv
<1> QED
  BY <1>1, <1>2, <1>3, RequestCancelIInv, CloseSessionIInv, RestoreSessionIInv, CrashIInv DEF Next

\* The invariant holds in every run, with or without the fairness of Spec.
LEMMA Invariance == Init /\ [][Next]_vars => []IInv
BY InitIInv, NextIInv, PTL

-----------------------------------------------------------------------------
(* What it is for.                                                         *)

\* A set of which any two members are equal has one at most.
LEMMA AtMostOne ==
    ASSUME NEW S, \A x, y \in S : x = y
    PROVE  IsFiniteSet(S) /\ Cardinality(S) <= 1
<1>1. CASE S = {}
  BY <1>1, FS_EmptySet
<1>2. CASE S # {}
  <2>1. PICK x : x \in S
    BY <1>2
  <2>2. S = {x}
    BY <2>1
  <2>3. IsFiniteSet({x}) /\ Cardinality({x}) = 1
    BY FS_Singleton
  <2> QED
    BY <2>2, <2>3
<1> QED
  BY <1>1, <1>2

\* Two elements are two.
LEMMA PairHasTwo ==
    ASSUME NEW p, NEW q, p # q
    PROVE  Cardinality({p} \cup {q}) = 2
<1>1. IsFiniteSet({p}) /\ Cardinality({p}) = 1
  BY FS_Singleton
<1>2. q \notin {p}
  OBVIOUS
<1>3. Cardinality({p} \cup {q}) = IF q \in {p} THEN Cardinality({p}) ELSE Cardinality({p}) + 1
  BY <1>1, FS_AddElement, Zenon
<1> QED
  BY <1>1, <1>2, <1>3

\* A turn without several approvals has one at most.
LEMMA FewApprovals ==
    ASSUME IInv, ~SeveralApprovals
    PROVE  OneApproval
<1> DEFINE A == {q \in DOMAIN questions : questions[q].kind = "approval"}
<1>1. Len(questions) \in Nat /\ DOMAIN questions = 1..Len(questions)
  BY DEF IInv, Types
<1>2. IsFiniteSet(A) /\ Cardinality(A) \in Nat
  <2>1. IsFiniteSet(1..Len(questions))
    BY <1>1, FS_Interval
  <2> QED
    BY <1>1, <2>1, FS_Subset, FS_CardinalityType
<1>3. Cardinality(A) <= 1
  BY <1>2 DEF SeveralApprovals
<1> SUFFICES ASSUME NEW p \in A, NEW q \in A, p # q PROVE FALSE
  BY DEF OneApproval, Kind
<1>5. Cardinality({p} \cup {q}) = 2
  BY PairHasTwo
<1>6. {p} \cup {q} \subseteq A
  OBVIOUS
<1> HIDE DEF A
<1>7. Cardinality({p} \cup {q}) <= Cardinality(A)
  BY <1>2, <1>6, FS_Subset
<1> QED
  BY <1>2, <1>3, <1>5, <1>7

\* The types and the owners of the barriers are part of the invariant.
LEMMA IInvRegistry == IInv => RegistryConsistent
<1> SUFFICES ASSUME IInv PROVE RegistryConsistent
  OBVIOUS
<1>1. Types /\ blocks = Cardinality(Blocking) /\ Len(questions) \in Nat
  BY DEF IInv, Types
<1>2. row \in [status : Statuses, marker : {"none", "limit", "closed"}, asks : 0..Len(questions)]
  BY <1>1 DEF Types, RowType
<1>3. ASSUME NEW t \in Tasks
      PROVE  /\ tasks[t].role \in Roles /\ tasks[t].pc \in Executing \cup Handling \cup {"idle"}
             /\ tasks[t].q \in 0..Len(questions)
  BY <1>1, <1>3 DEF Types, TaskType
<1>4. TypeOK
  BY <1>1, <1>2, <1>3 DEF Types, TypeOK, Statuses, QuestionType
<1>5. BarrierOwned
  BY <1>1 DEF BarrierOwned, Blocking
<1> QED
  BY <1>4, <1>5 DEF RegistryConsistent

\* No scope, no holder of one.
LEMMA IInvBarrier == IInv => BarrierExcludesExecution
<1> SUFFICES ASSUME IInv, NEW t \in Tasks, tasks[t].role = "cancel",
                    tasks[t].pc \in {"latest", "stop", "stopping", "unstopped"}
             PROVE  /\ scope = NoTask
                    /\ ~everClosed => \A u \in Tasks : tasks[u].pc \notin Executing \ {"finish"}
  BY DEF BarrierExcludesExecution
<1>1. scope = NoTask /\ NoTask \notin Tasks
  BY TaskFacts, PauseAssumption DEF BarrierOK
<1>2. ASSUME ~everClosed, NEW u \in Tasks PROVE tasks[u].pc \notin Executing
  <2>1. ScopeOK(u)
    BY TaskFacts
  <2> QED
    BY <1>1, <1>2, <2>1 DEF ScopeOK, Holding
<1> QED
  BY <1>1, <1>2

\* Before any close the scope makes the executing task unique, after one the row does.
LEMMA IInvExecution == IInv => OneExecution
<1> SUFFICES ASSUME IInv, ~(everClosed /\ SeveralApprovals)
             PROVE  Cardinality({t \in Tasks : tasks[t].pc \in {"running", "asked", "pause"}}) <= 1
  BY DEF OneExecution
<1>1. ASSUME NEW t \in Tasks, NEW u \in Tasks, tasks[t].pc \in {"running", "asked", "pause"},
             tasks[u].pc \in {"running", "asked", "pause"}
      PROVE  t = u
  <2>1. CASE ~everClosed
    <3>1. ScopeOK(t) /\ ScopeOK(u)
      BY TaskFacts
    <3> QED
      BY <1>1, <2>1, <3>1 DEF ScopeOK, Holding, Executing
  <2>2. CASE ~SeveralApprovals
    <3>1. TurnOK(t)
      BY <2>2, FewApprovals, TaskFacts
    <3> QED
      BY <1>1, <3>1 DEF TurnOK, Engaged, Active
  <2> QED
    BY <2>1, <2>2
<1> QED
  BY <1>1, AtMostOne

\* The decision is kept by whoever has it in hand.
LEMMA IInvDecision == IInv => LimitDecisionNotLost
BY FewApprovals DEF IInv, LimitDecisionNotLost, DecisionKept

\* Only a session close, or a late approval, may change the status of a turn that is over.
LEMMA IInvTerminal ==
    IInv /\ [Next]_vars =>
      (row.status \in Terminal /\ ~everClosed /\ ~SeveralApprovals => row'.status = row.status)
<1> SUFFICES ASSUME IInv, [Next]_vars, row.status \in Terminal, ~everClosed, ~SeveralApprovals
             PROVE  row'.status = row.status
  OBVIOUS
<1>1. OneApproval
  BY FewApprovals, Zenon
<1>2. ASSUME NEW t \in Tasks, Step(t), row' # row PROVE row'.status = row.status
  <2>1. KeptOK(t) /\ ReconcileOK(t)
    BY <1>1, TaskFacts
  <2>2. CASE UpdateTurnWrite(t)
    BY <2>1, <2>2 DEF UpdateTurnWrite, KeptOK
  <2>3. CASE PauseForLimit(t) \/ FailTurnIfActive(t) \/ ClaimResume(t)
    BY <1>2, <2>3 DEF PauseForLimit, FailTurnIfActive, ClaimResume, Terminal
  <2>4. CASE StopPaused(t) \/ RestorePreparing(t) \/ Reconcile(t)
    BY <1>2, <2>1, <2>4 DEF StopPaused, RestorePreparing, Reconcile, ReconcileOK, PreExecution,
       Terminal
  <2> QED
    BY <1>2, <2>2, <2>3, <2>4 DEF Step, UpdateTurnCheck, PrepareFails, RunEnds, AskUser,
       ExecutionFails,
       FailsEarly, Finish, PublishAnswer, MaybeResume, AwaitClosed, ClaimLost, OpenTurn, OpenRefused,
       ConfirmResume, SpawnResumed, Unwind, StopWaits, StopLost, Rollback, RollbackToken,
       ReopenQuestion, CancelReads, CancelSignals, BeginCancellation, CancelDrains, CancelLatest,
       FinishCancellation, CloseScope, ReopenScope
<1>3. CASE CloseSession
  <2>1. row' = row
    BY <1>3, Zenon DEF CloseSession
  <2> QED
    BY <2>1
<1>4. row' = row \/ CloseSession \/ \E t \in Tasks : Step(t)
  BY Zenon DEF Next, vars, Answer, RequestCancel, RestoreSession, Crash
<1> QED
  BY <1>2, <1>3, <1>4

\* Every barrier against starting the turn has a cancellation that will lift it, and
\* every variable keeps its type, for any number of tasks, requests and restarts.
THEOREM BarriersHaveOwners == Spec => []RegistryConsistent
BY Invariance, IInvRegistry, PTL DEF Spec

\* While a cancellation looks at the row behind its barrier, the registry holds no
\* scope for the turn, and nobody executes it unless a session close cut it loose.
THEOREM BarrierKeepsTurnClosed == Spec => []BarrierExcludesExecution
BY Invariance, IInvBarrier, PTL DEF Spec

\* Two tasks never run the agent for the turn at once, however answers, cancellations,
\* session closes and restarts interleave, unless the session of a turn with several
\* approvals has been closed.
THEOREM OneTaskExecutes == Spec => []OneExecution
BY Invariance, IInvExecution, PTL DEF Spec

\* The answer to a tool-limit question is in the hands of some task, carried out or
\* given back, also when tasks race for the turn and when the daemon dies half-way.
THEOREM LimitAnswersAreKept == Spec => []LimitDecisionNotLost
BY Invariance, IInvDecision, PTL DEF Spec

\* A turn that was completed, failed or cancelled keeps that outcome, although
\* update_turn reads the row in one statement and writes it in another.
THEOREM OutcomeOfTurnStays == Spec => TerminalIsFinal
BY Invariance, IInvTerminal, PTL DEF Spec, TerminalIsFinal

=============================================================================
