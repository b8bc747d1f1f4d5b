--------------------------- MODULE TurnInputsProofs ---------------------------
(***************************************************************************)
(* Proofs about TurnInputs for any sessions, any number of turns and       *)
(* follow-ups and any scenarios: a session has one active turn, a          *)
(* follow-up reaches at most one turn and its outcome is final, and no     *)
(* turn created after a reset of the file protection has a follow-up from  *)
(* before it.                                                              *)
(***************************************************************************)
EXTENDS TurnInputs, FiniteSetTheorems, SequenceTheorems,
        WellFoundedInduction, TLAPS

-----------------------------------------------------------------------------
(* The inductive invariant.                                                *)

TurnStatuses == {"idle", "unlaunched", "running", "paused", "terminal"}
TurnType == [session : Sessions, stale : BOOLEAN, status : TurnStatuses]
InputStatuses == {"pending", "processing", "consumed", "cancelled"}
InputType == [session : Sessions, target : TurnIds, mode : {"steer", "queue"},
              status : InputStatuses, stale : BOOLEAN]
RequestType == [pc : {"none", "validate", "insert", "submit"}, target : Nat,
                mode : {"steer", "queue"}, active : BOOLEAN, input : Nat]
WorkerType == [pc : {"idle", "check", "consume", "requeue", "launch"}, input : Nat]

\* The rows, and what the daemon has in memory about them.
RowsOK ==
    /\ turns \in Seq(TurnType) /\ inputs \in Seq(InputType)
    /\ \A i \in 1..Len(inputs) : inputs[i].target \in 1..Len(turns)

ScopesOK ==
    /\ runtime \subseteq 1..Len(turns)
    /\ mail \in [TurnIds -> Seq(1..Len(inputs))]
    /\ bridge \in [TurnIds -> 0..Len(inputs)]

RequestOK(s) ==
    /\ client[s].pc # "none" => client[s].target \in 1..Len(turns)
    /\ client[s].pc = "submit" => client[s].input \in 1..Len(inputs)
RequestsOK == client \in [Sessions -> RequestType] /\ \A s \in Sessions : RequestOK(s)

WorkerOK == worker \in WorkerType /\ (worker.pc # "idle" => worker.input \in 1..Len(inputs))

\* A follow-up is in the conversation of one turn if it is consumed, else of none.
DeliveryOK ==
    /\ delivered \in [InputIds -> SUBSET (1..Len(turns))]
    /\ \A i \in InputIds : i > Len(inputs) => delivered[i] = {}
    /\ \A i \in 1..Len(inputs) :
         IF inputs[i].status = "consumed" THEN \E t \in 1..Len(turns) : delivered[i] = {t}
         ELSE delivered[i] = {}

\* What was compared with the policy is not from before a reset that its turn is
\* not from before itself; the worker holds the gate in between.
BridgeOK(t) == bridge[t] # 0 => t <= Len(turns) /\ (inputs[bridge[t]].stale => turns[t].stale)
FreshOK ==
    /\ FreshTurnHasOnlyFreshInput
    /\ \A t \in TurnIds : BridgeOK(t)
    /\ worker.pc = "consume" => ~inputs[worker.input].stale

\* A turn is kept in reserve for each follow-up that may still come to need one.
Consumed == {i \in 1..Len(inputs) : inputs[i].status = "consumed"}
ReserveOK ==
    /\ Len(inputs) <= MaxInputs
    /\ Len(turns) > 0 => Len(turns) + MaxInputs <= MaxTurns + Cardinality(Consumed)

IInv == /\ RowsOK /\ ScopesOK /\ RequestsOK /\ WorkerOK
        /\ DeliveryOK /\ FreshOK /\ ReserveOK /\ OneActiveTurn

-----------------------------------------------------------------------------
(* Sequences of rows.                                                      *)

\* A function on 1..n is a sequence of its values.
LEMMA TableIsSeq ==
    ASSUME NEW S, NEW n \in Nat, NEW f, f \in [1..n -> S]
    PROVE  f \in Seq(S) /\ Len(f) = n /\ DOMAIN f = 1..n
<1>1. f \in Seq(S)
  BY SeqDef
<1> QED
  BY <1>1

\* A row in a table.
LEMMA RowsFacts ==
    ASSUME NEW S, NEW rows \in Seq(S)
    PROVE  /\ Len(rows) \in Nat /\ DOMAIN rows = 1..Len(rows)
           /\ \A i \in 1..Len(rows) : rows[i] \in S
           /\ rows \in [1..Len(rows) -> S]
OBVIOUS

\* A table is widened with the set of its values.
LEMMA WiderSeq ==
    ASSUME NEW m \in Nat, NEW n \in Nat, m <= n, NEW s \in Seq(1..m)
    PROVE  s \in Seq(1..n)
<1>1. s \in [1..Len(s) -> 1..n]
  BY RowsFacts
<1> QED
  BY <1>1, TableIsSeq

\* A row of a turn gets another status.
LEMMA TurnStatus ==
    ASSUME NEW rows \in Seq(TurnType), NEW t \in 1..Len(rows), NEW st \in TurnStatuses,
           NEW new, new = [rows EXCEPT ![t].status = st]
    PROVE  /\ new \in Seq(TurnType) /\ Len(new) = Len(rows)
           /\ \A u \in 1..Len(rows) :
                /\ new[u].session = rows[u].session /\ new[u].stale = rows[u].stale
                /\ new[u].status = IF u = t THEN st ELSE rows[u].status
<1> DEFINE row == [rows[t] EXCEPT !.status = st]
<1>1. rows \in [1..Len(rows) -> TurnType] /\ Len(rows) \in Nat
  BY RowsFacts
<1>2. new = [rows EXCEPT ![t] = row]
  OBVIOUS
<1>3. row \in TurnType /\ row.session = rows[t].session /\ row.stale = rows[t].stale
      /\ row.status = st
  BY <1>1 DEF TurnType
<1>4. new \in [1..Len(rows) -> TurnType]
      /\ \A u \in 1..Len(rows) : new[u] = IF u = t THEN row ELSE rows[u]
  BY <1>1, <1>2, <1>3
<1>5. new \in Seq(TurnType) /\ Len(new) = Len(rows)
  BY <1>1, <1>4, TableIsSeq
<1> QED
  BY <1>3, <1>4, <1>5

\* A row of a follow-up gets another status.
StatusSet(rows, new, i, st) ==
    /\ new \in Seq(InputType) /\ Len(new) = Len(rows)
    /\ \A j \in 1..Len(rows) :
         /\ new[j].session = rows[j].session /\ new[j].target = rows[j].target
         /\ new[j].mode = rows[j].mode /\ new[j].stale = rows[j].stale
         /\ new[j].status = IF j = i THEN st ELSE rows[j].status

\* Only the status of that row changes.
LEMMA InputStatus ==
    ASSUME NEW rows \in Seq(InputType), NEW i \in 1..Len(rows), NEW st \in InputStatuses
    PROVE  StatusSet(rows, [rows EXCEPT ![i].status = st], i, st)
<1> DEFINE new == [rows EXCEPT ![i].status = st]
<1> DEFINE row == [rows[i] EXCEPT !.status = st]
<1>1. rows \in [1..Len(rows) -> InputType] /\ Len(rows) \in Nat
  BY RowsFacts
<1>2. new = [rows EXCEPT ![i] = row]
  OBVIOUS
<1>3. row \in InputType /\ row.session = rows[i].session /\ row.target = rows[i].target
      /\ row.mode = rows[i].mode /\ row.stale = rows[i].stale /\ row.status = st
  BY <1>1 DEF InputType
<1>4. new \in [1..Len(rows) -> InputType]
      /\ \A j \in 1..Len(rows) : new[j] = IF j = i THEN row ELSE rows[j]
  BY <1>1, <1>2, <1>3
<1>5. new \in Seq(InputType) /\ Len(new) = Len(rows)
  BY <1>1, <1>4, TableIsSeq
<1> QED
  BY <1>3, <1>4, <1>5 DEF StatusSet

\* A row is appended.
LEMMA NewRow ==
    ASSUME NEW S, NEW rows \in Seq(S), NEW row \in S, NEW new, new = Append(rows, row)
    PROVE  /\ new \in Seq(S) /\ Len(new) = Len(rows) + 1 /\ new[Len(rows) + 1] = row
           /\ \A i \in 1..Len(rows) : new[i] = rows[i]
           /\ 1..Len(new) = 1..Len(rows) \cup {Len(rows) + 1}
OBVIOUS

-----------------------------------------------------------------------------
(* What every step does to the rows, and the parts of the invariant that a  *)
(* step leaves alone.                                                       *)

TurnsKept ==
    /\ turns' \in Seq(TurnType) /\ Len(turns') >= Len(turns)
    /\ \A t \in 1..Len(turns) :
         /\ turns'[t].session = turns[t].session
         /\ turns[t].status = "terminal" => turns'[t].status = "terminal"
         /\ turns[t].stale => turns'[t].stale

InputsKept ==
    /\ inputs' \in Seq(InputType) /\ Len(inputs') >= Len(inputs)
    /\ \A i \in 1..Len(inputs) :
         /\ inputs'[i].target = inputs[i].target
         /\ inputs[i].status \in {"consumed", "cancelled"} =>
              inputs'[i].status = inputs[i].status

Kept == TurnsKept /\ InputsKept

\* There is room for every turn, so a turn has a scope of its own.
LEMMA TurnsFit ==
    ASSUME RowsOK, ReserveOK
    PROVE  /\ Len(turns) \in Nat /\ Len(inputs) \in Nat
           /\ 1..Len(turns) \subseteq TurnIds /\ 1..Len(inputs) \subseteq InputIds
           /\ IsFiniteSet(Consumed) /\ Cardinality(Consumed) \in Nat
<1>1. Len(turns) \in Nat /\ Len(inputs) \in Nat /\ MaxTurns \in Nat /\ MaxInputs \in Nat
  BY InputsAssumption DEF RowsOK
<1>2. Consumed \subseteq 1..Len(inputs)
  BY DEF Consumed
<1>3. IsFiniteSet(1..Len(inputs)) /\ Cardinality(1..Len(inputs)) = Len(inputs)
  <2>1. 1 \in Int /\ Len(inputs) \in Int
    BY <1>1
  <2>2. /\ IsFiniteSet(1..Len(inputs))
        /\ Cardinality(1..Len(inputs)) = IF 1 > Len(inputs) THEN 0 ELSE Len(inputs) - 1 + 1
    BY <2>1, FS_Interval
  <2> QED
    BY <1>1, <2>2
<1>4. IsFiniteSet(Consumed) /\ Cardinality(Consumed) <= Len(inputs)
  BY <1>2, <1>3, FS_Subset
<1>5. Cardinality(Consumed) \in Nat
  BY <1>4, FS_CardinalityType
<1>6. Len(turns) <= MaxTurns
  BY <1>1, <1>4, <1>5 DEF ReserveOK
<1> QED
  BY <1>1, <1>4, <1>5, <1>6 DEF ReserveOK, TurnIds, InputIds

\* Rows stay in their tables.
LEMMA RowsFrame ==
    ASSUME RowsOK, Kept, Len(inputs') = Len(inputs)
    PROVE  RowsOK'
<1>1. Len(turns) \in Nat /\ Len(turns') \in Nat /\ Len(inputs) \in Nat
  BY DEF RowsOK, Kept, TurnsKept
<1> QED
  BY <1>1 DEF RowsOK, Kept, TurnsKept, InputsKept

\* A turn that is over stays over.
LEMMA ActiveFrame ==
    ASSUME RowsOK, TurnsKept, Len(turns') = Len(turns), OneActiveTurn
    PROVE  OneActiveTurn'
<1>1. DOMAIN turns = 1..Len(turns) /\ DOMAIN turns' = 1..Len(turns)
  BY DEF RowsOK, TurnsKept
<1> QED
  BY <1>1 DEF TurnsKept, OneActiveTurn

\* Scopes, requests and the worker's claim name rows that exist.
LEMMA ScopesFrame ==
    ASSUME RowsOK, Kept, ScopesOK, UNCHANGED scopes
    PROVE  ScopesOK'
<1>1. Len(turns) \in Nat /\ Len(turns') \in Nat /\ Len(inputs) \in Nat /\ Len(inputs') \in Nat
  BY DEF RowsOK, Kept, TurnsKept, InputsKept
<1>2. Len(turns) <= Len(turns') /\ Len(inputs) <= Len(inputs')
  BY <1>1 DEF Kept, TurnsKept, InputsKept
<1>3. \A t \in TurnIds : mail[t] \in Seq(1..Len(inputs'))
  BY <1>1, <1>2, WiderSeq DEF ScopesOK
<1> QED
  BY <1>1, <1>2, <1>3 DEF ScopesOK, scopes

\* The requests in progress still name rows that exist.
LEMMA RequestsFrame ==
    ASSUME RowsOK, Kept, RequestsOK, UNCHANGED client
    PROVE  RequestsOK'
<1>1. Len(turns) \in Nat /\ Len(turns') \in Nat /\ Len(inputs) \in Nat /\ Len(inputs') \in Nat
  BY DEF RowsOK, Kept, TurnsKept, InputsKept
<1> QED
  BY <1>1 DEF RequestsOK, RequestOK, Kept, TurnsKept, InputsKept

\* The worker keeps its claim or lets go of it.
LEMMA WorkerFrame ==
    ASSUME RowsOK, Kept, WorkerOK, worker' = worker \/ worker' = IdleWorker
    PROVE  WorkerOK'
<1>1. Len(inputs) \in Nat /\ Len(inputs') \in Nat
  BY DEF RowsOK, Kept, InputsKept
<1> QED
  BY <1>1 DEF WorkerOK, WorkerType, IdleWorker, Kept, InputsKept

\* Nothing is delivered: no follow-up is newly consumed.
NoDelivery ==
    /\ delivered' = delivered
    /\ \A i \in 1..Len(inputs') :
         inputs'[i].status = "consumed" => i <= Len(inputs) /\ inputs[i].status = "consumed"

\* Who has which follow-up is as before.
LEMMA DeliveryFrame ==
    ASSUME RowsOK, Kept, DeliveryOK, NoDelivery, Len(inputs') <= MaxInputs
    PROVE  DeliveryOK'
<1>1. Len(turns) \in Nat /\ Len(turns') \in Nat /\ Len(inputs) \in Nat /\ Len(inputs') \in Nat
  BY DEF RowsOK, Kept, TurnsKept, InputsKept
<1>2. Len(turns) <= Len(turns') /\ Len(inputs) <= Len(inputs')
  BY <1>1 DEF Kept, TurnsKept, InputsKept
<1>3. 1..Len(turns) \subseteq 1..Len(turns')
  BY <1>1, <1>2
<1>4. delivered' \in [InputIds -> SUBSET (1..Len(turns'))]
  BY <1>3 DEF DeliveryOK, NoDelivery
<1>5. \A i \in InputIds : i > Len(inputs') => delivered'[i] = {}
  BY <1>1, <1>2, InputsAssumption DEF DeliveryOK, NoDelivery, InputIds
<1>6. ASSUME NEW i \in 1..Len(inputs'), inputs'[i].status = "consumed"
      PROVE  \E t \in 1..Len(turns') : delivered'[i] = {t}
  <2>1. i \in 1..Len(inputs) /\ inputs[i].status = "consumed"
    BY <1>1, <1>6 DEF NoDelivery
  <2> QED
    BY <2>1, <1>3 DEF DeliveryOK, NoDelivery
<1>7. ASSUME NEW i \in 1..Len(inputs'), inputs'[i].status # "consumed"
      PROVE  delivered'[i] = {}
  <2>1. CASE i <= Len(inputs)
    BY <2>1, <1>1, <1>7 DEF DeliveryOK, NoDelivery, Kept, InputsKept
  <2>2. CASE i > Len(inputs)
    BY <2>2, <1>1, <1>7, InputsAssumption DEF DeliveryOK, NoDelivery, InputIds
  <2> QED
    BY <2>1, <2>2, <1>1
<1> QED
  BY <1>4, <1>5, <1>6, <1>7 DEF DeliveryOK

\* Nothing is delivered and no reset happens.
LEMMA FreshFrame ==
    ASSUME RowsOK, Kept, DeliveryOK, delivered' = delivered, Len(inputs') <= MaxInputs,
           \A i \in 1..Len(inputs') :
              IF i <= Len(inputs) THEN inputs'[i].stale = inputs[i].stale ELSE ~inputs'[i].stale,
           FreshTurnHasOnlyFreshInput
    PROVE  FreshTurnHasOnlyFreshInput'
<1>1. Len(turns) \in Nat /\ Len(turns') \in Nat /\ Len(inputs) \in Nat /\ Len(inputs') \in Nat
  BY DEF RowsOK, Kept, TurnsKept, InputsKept
<1>2. DOMAIN inputs = 1..Len(inputs) /\ DOMAIN inputs' = 1..Len(inputs')
  BY DEF RowsOK, Kept, InputsKept
<1>3. ASSUME NEW i \in 1..Len(inputs'), NEW t \in delivered[i], inputs'[i].stale
      PROVE  turns'[t].stale
  <2>1. i \in 1..Len(inputs) /\ inputs[i].stale
    BY <1>1, <1>3
  <2>2. t \in 1..Len(turns)
    BY <1>1, <1>3, InputsAssumption DEF DeliveryOK, InputIds
  <2>3. turns[t].stale
    BY <1>2, <2>1, <1>3 DEF FreshTurnHasOnlyFreshInput
  <2> QED
    BY <2>2, <2>3 DEF Kept, TurnsKept
<1> QED
  BY <1>2, <1>3 DEF FreshTurnHasOnlyFreshInput

\* What was compared with the policy is still as fresh as its turn.
LEMMA BridgeFrame ==
    ASSUME RowsOK, Kept, ScopesOK, NEW t \in TurnIds, BridgeOK(t), bridge'[t] \in {0, bridge[t]},
           \A i \in 1..Len(inputs) : inputs'[i].stale = inputs[i].stale
    PROVE  BridgeOK(t)'
<1>1. Len(turns) \in Nat /\ Len(turns') \in Nat /\ Len(inputs) \in Nat /\ bridge[t] \in 0..Len(inputs)
  BY DEF RowsOK, Kept, TurnsKept, ScopesOK
<1>2. TurnIds \subseteq Nat \ {0}
  BY InputsAssumption DEF TurnIds
<1> QED
  BY <1>1, <1>2 DEF BridgeOK, Kept, TurnsKept

\* The reserve of turns is not touched.
LEMMA ReserveFrame ==
    ASSUME RowsOK, Kept, ReserveOK, Len(turns') = Len(turns), Len(inputs') <= MaxInputs
    PROVE  ReserveOK'
<1>1. Len(turns) \in Nat /\ Len(inputs) \in Nat /\ Len(inputs') \in Nat
      /\ MaxTurns \in Nat /\ MaxInputs \in Nat
  BY InputsAssumption DEF RowsOK, Kept, InputsKept
<1>2. Consumed \subseteq Consumed'
  BY <1>1 DEF Consumed, Kept, InputsKept
<1>3. IsFiniteSet(Consumed')
  <2>1. Consumed' \subseteq 1..Len(inputs')
    BY DEF Consumed
  <2>2. IsFiniteSet(1..Len(inputs'))
    BY <1>1, FS_Interval
  <2> QED
    BY <2>1, <2>2, FS_Subset
<1>4. Cardinality(Consumed) <= Cardinality(Consumed') /\ IsFiniteSet(Consumed)
  BY <1>2, <1>3, FS_Subset
<1>5. Cardinality(Consumed) \in Nat /\ Cardinality(Consumed') \in Nat
  BY <1>3, <1>4, FS_CardinalityType
<1> QED
  BY <1>1, <1>4, <1>5 DEF ReserveOK

\* A step that creates no row, delivers nothing and is no reset.
QuietRows ==
    /\ Kept /\ Len(turns') = Len(turns) /\ Len(inputs') = Len(inputs) /\ NoDelivery
    /\ \A i \in 1..Len(inputs) : inputs'[i].stale = inputs[i].stale

\* Such a step keeps every part of the invariant that is about rows.
LEMMA QuietFrame ==
    ASSUME IInv, QuietRows
    PROVE  RowsOK' /\ DeliveryOK' /\ FreshTurnHasOnlyFreshInput' /\ ReserveOK' /\ OneActiveTurn'
<1>1. RowsOK /\ DeliveryOK /\ FreshTurnHasOnlyFreshInput /\ ReserveOK /\ OneActiveTurn
  BY DEF IInv, FreshOK
<1>2. Kept /\ TurnsKept /\ NoDelivery /\ delivered' = delivered /\ Len(turns') = Len(turns)
      /\ Len(inputs') = Len(inputs)
  BY DEF QuietRows, Kept, NoDelivery
<1>3. Len(inputs') <= MaxInputs
  BY <1>1, <1>2 DEF ReserveOK
<1>4. \A i \in 1..Len(inputs') :
         IF i <= Len(inputs) THEN inputs'[i].stale = inputs[i].stale ELSE ~inputs'[i].stale
  BY <1>1, <1>2 DEF QuietRows, RowsOK
<1>5. RowsOK'
  BY <1>1, <1>2, RowsFrame
<1>6. DeliveryOK'
  BY <1>1, <1>2, <1>3, DeliveryFrame
<1>7. FreshTurnHasOnlyFreshInput'
  BY <1>1, <1>2, <1>3, <1>4, FreshFrame
<1>8. ReserveOK'
  BY <1>1, <1>2, <1>3, ReserveFrame
<1>9. OneActiveTurn'
  BY <1>1, <1>2, ActiveFrame
<1> QED
  BY <1>5, <1>6, <1>7, <1>8, <1>9

\* No row changes.
LEMMA SameRows ==
    ASSUME IInv, UNCHANGED <<turns, inputs, delivered>>
    PROVE  QuietRows
BY DEF IInv, RowsOK, QuietRows, Kept, TurnsKept, InputsKept, NoDelivery

\* A turn that is not over changes its status.
LEMMA TurnMoves ==
    ASSUME IInv, NEW t \in 1..Len(turns), NEW st \in TurnStatuses,
           turns[t].status # "terminal", turns' = [turns EXCEPT ![t].status = st],
           UNCHANGED <<inputs, delivered>>
    PROVE  QuietRows
<1>1. turns \in Seq(TurnType) /\ inputs \in Seq(InputType)
  BY DEF IInv, RowsOK
<1>2. /\ turns' \in Seq(TurnType) /\ Len(turns') = Len(turns)
      /\ \A u \in 1..Len(turns) :
           /\ turns'[u].session = turns[u].session /\ turns'[u].stale = turns[u].stale
           /\ turns'[u].status = IF u = t THEN st ELSE turns[u].status
  BY <1>1, TurnStatus
<1> QED
  BY <1>1, <1>2 DEF QuietRows, Kept, TurnsKept, InputsKept, NoDelivery

\* A follow-up that is not settled changes its status, but is not delivered.
LEMMA InputMoves ==
    ASSUME IInv, NEW i \in 1..Len(inputs), NEW st \in InputStatuses, st # "consumed",
           inputs[i].status \notin {"consumed", "cancelled"},
           inputs' = [inputs EXCEPT ![i].status = st],
           UNCHANGED <<turns, delivered>>
    PROVE  QuietRows
<1>1. turns \in Seq(TurnType) /\ inputs \in Seq(InputType)
  BY DEF IInv, RowsOK
<1>2. StatusSet(inputs, inputs', i, st)
  BY <1>1, InputStatus
<1> QED
  BY <1>1, <1>2 DEF StatusSet, QuietRows, Kept, TurnsKept, InputsKept, NoDelivery

\* The parts of the invariant together, for a step with quiet rows.
LEMMA QuietStep ==
    ASSUME IInv, QuietRows, ScopesOK', RequestsOK', WorkerOK',
           \A t \in TurnIds : BridgeOK(t)',
           worker'.pc = "consume" => ~inputs'[worker'.input].stale
    PROVE  IInv'
BY QuietFrame DEF IInv, FreshOK

\* The worker and the bridges keep what they have compared with the policy.
LEMMA QuietChecks ==
    ASSUME IInv, QuietRows, worker' = worker \/ worker'.pc # "consume",
           \A t \in TurnIds : bridge'[t] \in {0, bridge[t]}
    PROVE  /\ \A t \in TurnIds : BridgeOK(t)'
           /\ worker'.pc = "consume" => ~inputs'[worker'.input].stale
<1>1. \A t \in TurnIds : BridgeOK(t)'
  <2> SUFFICES ASSUME NEW t \in TurnIds PROVE BridgeOK(t)'
    OBVIOUS
  <2>1. RowsOK /\ Kept /\ ScopesOK /\ BridgeOK(t) /\ bridge'[t] \in {0, bridge[t]}
        /\ \A i \in 1..Len(inputs) : inputs'[i].stale = inputs[i].stale
    BY DEF IInv, FreshOK, QuietRows
  <2> QED
    BY <2>1, BridgeFrame
<1>2. worker'.pc = "consume" => ~inputs'[worker'.input].stale
  BY DEF IInv, FreshOK, QuietRows, WorkerOK
<1> QED
  BY <1>1, <1>2

-----------------------------------------------------------------------------
(* Turns.                                                                  *)

\* Every scope of a quiet step is as before, stopped or newly opened.
LEMMA QuietScopes ==
    ASSUME IInv, QuietRows, runtime' \subseteq 1..Len(turns),
           \/ UNCHANGED <<mail, bridge>>
           \/ \E t \in 1..Len(turns) : StopBridge(t)
    PROVE  ScopesOK' /\ \A t \in TurnIds : bridge'[t] \in {0, bridge[t]}
<1>1. ScopesOK /\ Len(turns') = Len(turns) /\ Len(inputs') = Len(inputs) /\ Len(inputs) \in Nat
  BY DEF IInv, QuietRows, RowsOK
<1>2. CASE UNCHANGED <<mail, bridge>>
  BY <1>1, <1>2 DEF ScopesOK
<1>3. ASSUME NEW t \in 1..Len(turns), StopBridge(t)
      PROVE  ScopesOK' /\ \A u \in TurnIds : bridge'[u] \in {0, bridge[u]}
  <2>1. <<>> \in Seq(1..Len(inputs))
    OBVIOUS
  <2>2. mail' \in [TurnIds -> Seq(1..Len(inputs))]
    BY <1>1, <1>3, <2>1 DEF ScopesOK, StopBridge
  <2>3. bridge' \in [TurnIds -> 0..Len(inputs)]
    <3>1. 0 \in 0..Len(inputs)
      BY <1>1
    <3>2. bridge \in [TurnIds -> 0..Len(inputs)] /\ bridge' = [bridge EXCEPT ![t] = 0]
      BY <1>1, <1>3 DEF ScopesOK, StopBridge
    <3> QED
      BY <3>1, <3>2, Zenon
  <2>4. \A u \in TurnIds : bridge'[u] = IF u = t THEN 0 ELSE bridge[u]
    BY <1>1, <1>3 DEF ScopesOK, StopBridge
  <2> QED
    BY <1>1, <2>2, <2>3, <2>4 DEF ScopesOK
<1> QED
  BY <1>2, <1>3

\* A quiet step of a turn: the requests wait, the worker waits or is done.
LEMMA TurnIsQuiet ==
    ASSUME IInv, QuietRows, runtime' \subseteq 1..Len(turns), UNCHANGED client,
           worker' = worker \/ worker' = IdleWorker,
           \/ UNCHANGED <<mail, bridge>>
           \/ \E t \in 1..Len(turns) : StopBridge(t)
    PROVE  IInv'
<1>1. RowsOK /\ Kept /\ RequestsOK /\ WorkerOK
  BY DEF IInv, QuietRows
<1>2. ScopesOK' /\ \A t \in TurnIds : bridge'[t] \in {0, bridge[t]}
  BY QuietScopes
<1>3. RequestsOK' /\ WorkerOK'
  BY <1>1, RequestsFrame, WorkerFrame
<1>4. worker' = worker \/ worker'.pc # "consume"
  BY DEF IdleWorker
<1>5. /\ \A t \in TurnIds : BridgeOK(t)'
      /\ worker'.pc = "consume" => ~inputs'[worker'.input].stale
  BY <1>2, <1>4, QuietChecks
<1> QED
  BY <1>2, <1>3, <1>5, QuietStep

\* launch_prepared_agent_turn: an idle turn runs and has a scope.
LEMMA LaunchIInv ==
    ASSUME IInv, NEW t \in 1..Len(turns), Launch(t)
    PROVE  IInv' /\ QuietRows
<1>1. turns[t].status # "terminal" /\ turns' = [turns EXCEPT ![t].status = "running"]
      /\ UNCHANGED <<inputs, delivered>> /\ "running" \in TurnStatuses
  BY DEF Launch, TurnStatuses
<1>2. QuietRows
  BY <1>1, TurnMoves
<1>3. runtime' \subseteq 1..Len(turns)
  BY DEF Launch, IInv, ScopesOK
<1> QED
  BY <1>2, <1>3, TurnIsQuiet DEF Launch

\* The launch fails: the turn stays active and no scope is left.
LEMMA LaunchFailsIInv ==
    ASSUME IInv, NEW t \in 1..Len(turns), LaunchFails(t)
    PROVE  IInv' /\ QuietRows
<1>1. turns[t].status # "terminal" /\ turns' = [turns EXCEPT ![t].status = "unlaunched"]
      /\ UNCHANGED <<inputs, delivered>> /\ "unlaunched" \in TurnStatuses
  BY DEF LaunchFails, TurnStatuses
<1>2. QuietRows
  BY <1>1, TurnMoves
<1>3. runtime' \subseteq 1..Len(turns)
  BY DEF LaunchFails, IInv, ScopesOK, scopes
<1> QED
  BY <1>2, <1>3, TurnIsQuiet DEF LaunchFails, scopes

\* execute_turn writes the outcome; the bridge is gone before the scope is.
LEMMA TurnEndsIInv ==
    ASSUME IInv, NEW t \in 1..Len(turns), TurnEnds(t)
    PROVE  IInv' /\ QuietRows
<1>1. PICK st \in {"terminal", "paused"} : turns' = [turns EXCEPT ![t].status = st]
  BY DEF TurnEnds
<1>2. turns[t].status # "terminal" /\ UNCHANGED <<inputs, delivered>> /\ st \in TurnStatuses
  BY DEF TurnEnds, TurnStatuses
<1>3. QuietRows
  BY <1>1, <1>2, TurnMoves
<1>4. runtime' \subseteq 1..Len(turns) /\ StopBridge(t) /\ UNCHANGED <<client, worker>>
  BY DEF TurnEnds, IInv, ScopesOK
<1> QED
  BY <1>3, <1>4, TurnIsQuiet

\* The scope of a turn goes, the rows stay.
LEMMA CloseScopeIInv ==
    ASSUME IInv, NEW t \in 1..Len(turns), CloseScope(t)
    PROVE  IInv' /\ QuietRows
<1>1. QuietRows
  BY SameRows DEF CloseScope
<1>2. runtime' \subseteq 1..Len(turns) /\ StopBridge(t) /\ UNCHANGED <<client, worker>>
  BY DEF CloseScope, IInv, ScopesOK
<1> QED
  BY <1>1, <1>2, TurnIsQuiet

\* A paused turn was active all along.
LEMMA ResumeTurnIInv ==
    ASSUME IInv, NEW t \in 1..Len(turns), ResumeTurn(t)
    PROVE  IInv' /\ QuietRows
<1>1. turns[t].status # "terminal" /\ turns' = [turns EXCEPT ![t].status = "running"]
      /\ UNCHANGED <<inputs, delivered>> /\ "running" \in TurnStatuses
  BY DEF ResumeTurn, TurnStatuses
<1>2. QuietRows
  BY <1>1, TurnMoves
<1>3. runtime' \subseteq 1..Len(turns)
  BY DEF ResumeTurn, IInv, ScopesOK
<1> QED
  BY <1>2, <1>3, TurnIsQuiet DEF ResumeTurn

\* A crash: what is in memory is gone, turns that ran are left unlaunched.
LEMMA CrashIInv ==
    ASSUME IInv, Crash
    PROVE  IInv' /\ QuietRows
<1> DEFINE row(t) == IF turns[t].status \in {"idle", "running"}
                     THEN [turns[t] EXCEPT !.status = "unlaunched"] ELSE turns[t]
<1>1. turns \in [1..Len(turns) -> TurnType] /\ Len(turns) \in Nat /\ DOMAIN turns = 1..Len(turns)
      /\ inputs \in Seq(InputType) /\ Len(inputs) \in Nat
  BY RowsFacts DEF IInv, RowsOK
<1>2. turns' = [t \in 1..Len(turns) |-> row(t)]
  BY <1>1 DEF Crash
<1>3. \A t \in 1..Len(turns) :
         /\ row(t) \in TurnType /\ row(t).session = turns[t].session
         /\ row(t).stale = turns[t].stale
         /\ turns[t].status = "terminal" => row(t).status = "terminal"
  BY <1>1 DEF TurnType, TurnStatuses
<1>4. turns' \in [1..Len(turns) -> TurnType] /\ \A t \in 1..Len(turns) : turns'[t] = row(t)
  BY <1>2, <1>3
<1>5. turns' \in Seq(TurnType) /\ Len(turns') = Len(turns)
  BY <1>1, <1>4, TableIsSeq
<1>6. QuietRows
  BY <1>1, <1>3, <1>4, <1>5 DEF Crash, QuietRows, Kept, TurnsKept, InputsKept, NoDelivery
<1>7. ScopesOK' /\ \A t \in TurnIds : bridge'[t] = 0
  <2>1. <<>> \in Seq(1..Len(inputs')) /\ 0 \in 0..Len(inputs')
    BY <1>1 DEF Crash
  <2> QED
    BY <2>1 DEF Crash, ScopesOK
<1>8. RequestsOK'
  BY DEF Crash, RequestsOK, RequestOK, NoRequest, RequestType
<1>9. WorkerOK' /\ worker'.pc # "consume"
  BY DEF Crash, WorkerOK, IdleWorker, WorkerType
<1>10. \A t \in TurnIds : BridgeOK(t)'
  BY <1>7 DEF BridgeOK
<1> QED
  BY <1>6, <1>7, <1>8, <1>9, <1>10, QuietStep

-----------------------------------------------------------------------------
(* Requests.                                                               *)

\* A step of one request that creates no row.
LEMMA RequestIsQuiet ==
    ASSUME IInv, NEW s \in Sessions, NEW r \in RequestType, client' = [client EXCEPT ![s] = r],
           r.pc # "none" => r.target \in 1..Len(turns),
           r.pc = "submit" => r.input \in 1..Len(inputs),
           UNCHANGED <<turns, inputs, bridge, worker, delivered>>, ScopesOK'
    PROVE  IInv' /\ QuietRows
<1>1. QuietRows
  BY SameRows
<1>2. RequestsOK'
  <2>1. client \in [Sessions -> RequestType] /\ \A u \in Sessions : RequestOK(u)
    BY DEF IInv, RequestsOK
  <2>2. client' \in [Sessions -> RequestType]
        /\ \A u \in Sessions : client'[u] = IF u = s THEN r ELSE client[u]
    BY <2>1
  <2> QED
    BY <2>1, <2>2 DEF RequestsOK, RequestOK
<1>3. WorkerOK'
  BY DEF IInv, WorkerOK
<1>4. /\ \A t \in TurnIds : BridgeOK(t)'
      /\ worker'.pc = "consume" => ~inputs'[worker'.input].stale
  BY <1>1, QuietChecks
<1> QED
  BY <1>1, <1>2, <1>3, <1>4, QuietStep

\* A request without a row to name.
LEMMA NoRequestType ==
    NoRequest \in RequestType /\ NoRequest.pc = "none"
BY DEF NoRequest, RequestType

\* A request is taken up, and its row is stored.
Taken(r, t, mode, active) ==
    [r EXCEPT !.pc = "validate", !.target = t, !.mode = mode, !.active = active]
Stored(r, i) == [r EXCEPT !.pc = "submit", !.input = i]

\* The fields of a request that was taken up.
LEMMA RequestTaken ==
    ASSUME NEW r \in RequestType, NEW t \in Nat, NEW mode \in {"steer", "queue"},
           NEW active \in BOOLEAN
    PROVE  /\ Taken(r, t, mode, active) \in RequestType
           /\ Taken(r, t, mode, active).pc = "validate" /\ Taken(r, t, mode, active).target = t
BY DEF RequestType, Taken

\* The fields of a request whose row is stored.
LEMMA RequestStored ==
    ASSUME NEW r \in RequestType, NEW i \in Nat
    PROVE  /\ Stored(r, i) \in RequestType /\ Stored(r, i).pc = "submit"
           /\ Stored(r, i).target = r.target /\ Stored(r, i).input = i
BY DEF RequestType, Stored

\* create_turn_input of the daemon: the request names a turn of its session.
LEMMA AdmitInputIInv ==
    ASSUME IInv, NEW t \in 1..Len(turns), NEW mode \in {"steer", "queue"},
           AdmitInput(turns[t].session, t, mode)
    PROVE  IInv' /\ QuietRows
<1> DEFINE active == t \in runtime
           r == Taken(NoRequest, t, mode, active)
<1>1. turns[t].session \in Sessions /\ Len(turns) \in Nat
  <2>1. turns[t] \in TurnType /\ Len(turns) \in Nat
    BY RowsFacts DEF IInv, RowsOK
  <2> QED
    BY <2>1 DEF TurnType
<1>2. client' = [client EXCEPT ![turns[t].session] = r]
      /\ UNCHANGED <<turns, inputs, bridge, worker, delivered>>
  BY DEF AdmitInput, scopes, Taken
<1>3. r \in RequestType /\ r.pc = "validate" /\ r.target = t
  <2>1. active \in BOOLEAN
    OBVIOUS
  <2>2. t \in Nat /\ NoRequest \in RequestType /\ mode \in {"steer", "queue"}
    BY <1>1, NoRequestType
  <2> HIDE DEF active
  <2> QED
    BY <2>1, <2>2, RequestTaken
<1>4. ScopesOK'
  BY DEF AdmitInput, scopes, IInv, ScopesOK
<1> HIDE DEF r
<1> QED
  BY <1>1, <1>2, <1>3, <1>4, RequestIsQuiet

\* The turn is looked up; a request about a turn that is over is refused.
LEMMA ValidateInputIInv ==
    ASSUME IInv, NEW s \in Sessions, ValidateInput(s)
    PROVE  IInv' /\ QuietRows
<1> DEFINE r == IF turns[client[s].target].status = "terminal"
                THEN NoRequest ELSE [client[s] EXCEPT !.pc = "insert"]
<1>1. client[s] \in RequestType /\ client[s].target \in 1..Len(turns) /\ client[s].pc = "validate"
  BY DEF IInv, RequestsOK, RequestOK, ValidateInput
<1>2. r \in RequestType /\ (r.pc # "none" => r.target \in 1..Len(turns)) /\ r.pc # "submit"
  BY <1>1, NoRequestType DEF RequestType
<1>3. client' = [client EXCEPT ![s] = r]
      /\ UNCHANGED <<turns, inputs, bridge, worker, delivered>>
  BY DEF ValidateInput, scopes
<1>4. ScopesOK'
  BY DEF ValidateInput, scopes, IInv, ScopesOK
<1> HIDE DEF r
<1> QED
  BY <1>2, <1>3, <1>4, RequestIsQuiet

\* submit_step_input puts the stored row into the mail of a scope.
LEMMA SubmitInputIInv ==
    ASSUME IInv, NEW s \in Sessions, SubmitInput(s)
    PROVE  IInv' /\ QuietRows
<1> DEFINE r == client[s]
<1>1. r \in RequestType /\ r.target \in 1..Len(turns) /\ r.input \in 1..Len(inputs)
  BY DEF IInv, RequestsOK, RequestOK, SubmitInput
<1>2. client' = [client EXCEPT ![s] = NoRequest]
      /\ UNCHANGED <<turns, inputs, bridge, worker, delivered>>
  BY DEF SubmitInput
<1>3. ScopesOK'
  <2>1. ScopesOK /\ r.target \in TurnIds
    BY <1>1, TurnsFit DEF IInv
  <2>2. Append(mail[r.target], r.input) \in Seq(1..Len(inputs))
    BY <1>1, <2>1 DEF ScopesOK
  <2>3. mail' \in [TurnIds -> Seq(1..Len(inputs))]
    BY <2>1, <2>2 DEF ScopesOK, SubmitInput
  <2> QED
    BY <2>1, <2>3 DEF ScopesOK, SubmitInput
<1> QED
  BY <1>2, <1>3, NoRequestType, RequestIsQuiet

\* A follow-up is stored, unless it doubles a steer.
LEMMA InsertInputIInv ==
    ASSUME IInv, NEW s \in Sessions, InsertInput(s)
    PROVE  IInv' /\ Kept
<1> DEFINE r == client[s]
           row == [session |-> s, target |-> r.target, mode |-> r.mode,
                   status |-> "pending", stale |-> FALSE]
<1>1. r \in RequestType /\ r.target \in 1..Len(turns)
  BY DEF IInv, RequestsOK, RequestOK, InsertInput
<1>2. UNCHANGED <<turns, runtime, mail, bridge, worker, delivered>>
      /\ Len(inputs) < MaxInputs
  BY DEF InsertInput, scopes
<1>3. CASE client' = [client EXCEPT ![s] = NoRequest] /\ UNCHANGED inputs
  <2>1. ScopesOK'
    BY <1>2, <1>3 DEF IInv, ScopesOK
  <2>2. IInv' /\ QuietRows
    BY <1>2, <1>3, <2>1, NoRequestType, RequestIsQuiet
  <2> QED
    BY <2>2 DEF QuietRows
<1>4. CASE /\ inputs' = Append(inputs, row)
           /\ client' = [client EXCEPT ![s].pc = "submit", ![s].input = Len(inputs) + 1]
  <2>0. IInv
    OBVIOUS
  <2>1. RowsOK /\ ScopesOK /\ RequestsOK /\ WorkerOK /\ DeliveryOK /\ ReserveOK
        /\ FreshTurnHasOnlyFreshInput /\ OneActiveTurn
    BY DEF IInv, FreshOK
  <2>2. Len(turns) \in Nat /\ Len(inputs) \in Nat /\ r.target \in TurnIds /\ MaxInputs \in Nat
    BY <1>1, <2>1, TurnsFit, InputsAssumption
  <2>3. row \in InputType
    BY <1>1, <2>2 DEF InputType, InputStatuses, RequestType
  <2>4. /\ inputs' \in Seq(InputType) /\ Len(inputs') = Len(inputs) + 1
        /\ inputs'[Len(inputs) + 1] = row
        /\ \A i \in 1..Len(inputs) : inputs'[i] = inputs[i]
        /\ 1..Len(inputs') = 1..Len(inputs) \cup {Len(inputs) + 1}
    <3>1. inputs \in Seq(InputType)
      BY <2>1 DEF RowsOK
    <3> HIDE DEF row
    <3> QED
      BY <1>4, <2>3, <3>1, NewRow
  <2>5. row.target = r.target /\ row.status = "pending" /\ row.stale = FALSE
    OBVIOUS
  <2> HIDE DEF row
  <2>6. TurnsKept /\ Len(turns') = Len(turns)
    BY <1>2, <2>1, <2>2 DEF TurnsKept, RowsOK
  <2>7. InputsKept
    BY <2>2, <2>4 DEF InputsKept
  <2>8. Kept /\ Len(inputs') <= MaxInputs
    BY <1>2, <2>2, <2>4, <2>6, <2>7 DEF Kept
  <2>9. RowsOK'
    BY <1>1, <1>2, <2>1, <2>4, <2>5 DEF RowsOK
  <2>10. ScopesOK' /\ WorkerOK'
    BY <1>2, <2>1, <2>8, ScopesFrame, WorkerFrame DEF scopes
  <2>11. RequestsOK'
    <3>1. client \in [Sessions -> RequestType] /\ \A u \in Sessions : RequestOK(u)
      BY <2>1 DEF RequestsOK
    <3> DEFINE new == Stored(r, Len(inputs) + 1)
    <3>2. client' = [client EXCEPT ![s] = new]
      BY <1>4, <3>1 DEF Stored
    <3>3. new \in RequestType /\ new.pc = "submit" /\ new.target = r.target
          /\ new.input = Len(inputs) + 1
      <4>1. Len(inputs) + 1 \in Nat
        BY <2>2
      <4> QED
        BY <1>1, <4>1, RequestStored
    <3> HIDE DEF new
    <3>4. client' \in [Sessions -> RequestType]
          /\ \A u \in Sessions : client'[u] = IF u = s THEN new ELSE client[u]
      BY <3>1, <3>2, <3>3
    <3>5. \A u \in Sessions : RequestOK(u)'
      BY <1>1, <1>2, <2>2, <2>4, <3>1, <3>3, <3>4 DEF RequestOK
    <3> QED
      BY <3>4, <3>5 DEF RequestsOK
  <2>12. NoDelivery
    BY <1>2, <2>2, <2>4, <2>5 DEF NoDelivery
  <2>13. DeliveryOK'
    BY <2>1, <2>8, <2>12, DeliveryFrame
  <2>14. \A i \in 1..Len(inputs') :
           IF i <= Len(inputs) THEN inputs'[i].stale = inputs[i].stale ELSE ~inputs'[i].stale
    BY <2>2, <2>4, <2>5
  <2>15. FreshTurnHasOnlyFreshInput'
    BY <1>2, <2>1, <2>8, <2>14, FreshFrame
  <2>16. ASSUME NEW t \in TurnIds PROVE BridgeOK(t)'
    <3>1. BridgeOK(t) /\ bridge'[t] \in {0, bridge[t]}
      BY <1>2 DEF IInv, FreshOK
    <3>2. \A i \in 1..Len(inputs) : inputs'[i].stale = inputs[i].stale
      BY <2>4
    <3> QED
      BY <2>1, <2>8, <3>1, <3>2, BridgeFrame
  <2>17. worker'.pc = "consume" => ~inputs'[worker'.input].stale
    BY <1>2, <2>4 DEF IInv, FreshOK, WorkerOK
  <2>18. ReserveOK'
    BY <2>1, <2>6, <2>8, ReserveFrame
  <2>19. OneActiveTurn'
    BY <2>1, <2>6, ActiveFrame
  <2> QED
    BY <2>1, <2>8, <2>9, <2>10, <2>11, <2>13, <2>15, <2>16, <2>17, <2>18, <2>19 DEF IInv, FreshOK
<1> QED
  BY <1>3, <1>4 DEF InsertInput

-----------------------------------------------------------------------------
(* The worker.                                                             *)

\* There is no infinite descent through the row numbers.
LEMMA LessThanWellFounded == IsWellFoundedOn({ss \in Nat \X Nat : ss[1] < ss[2]}, Nat)
<1>1. OpToRel(<, Nat) = {ss \in Nat \X Nat : ss[1] < ss[2]}
  BY Zenon DEF OpToRel
<1> QED
  BY <1>1, NatLessThanWellFounded, Zenon

\* A set of row numbers has an oldest one.
LEMMA Oldest ==
    ASSUME NEW S \in SUBSET Nat, S # {}
    PROVE  \E i \in S : \A j \in S : i <= j
<1> DEFINE less == {ss \in Nat \X Nat : ss[1] < ss[2]}
<1>1. PICK i \in S : \A j \in S : <<j, i>> \notin less
  BY LessThanWellFounded, WFMin
<1>2. ASSUME NEW j \in S PROVE i <= j
  <2> DEFINE pair == <<j, i>>
  <2>1. pair \in Nat \X Nat /\ pair[1] = j /\ pair[2] = i
    OBVIOUS
  <2>2. ~(pair[1] < pair[2])
    BY <1>1, <2>1, Zenon
  <2> QED
    BY <2>1, <2>2
<1> QED
  BY <1>2

\* The worker's choice is one of the follow-ups that are ready.
LEMMA FirstIsReady ==
    ASSUME NEW rows \in Seq(InputType), Ready(rows) # {}
    PROVE  First(rows) \in Ready(rows)
<1> DEFINE steers == {i \in Ready(rows) : rows[i].mode = "steer"}
<1>1. Ready(rows) \subseteq 1..Len(rows) /\ Len(rows) \in Nat
  BY RowsFacts DEF Ready
<1>2. Ready(rows) \in SUBSET Nat /\ steers \in SUBSET Nat
  BY <1>1
<1>3. \A i \in Ready(rows) : rows[i].mode \in {"steer", "queue"}
  <2>1. \A i \in 1..Len(rows) : rows[i] \in InputType
    BY RowsFacts
  <2> QED
    BY <1>1, <2>1 DEF InputType
<1>4. \E i \in Ready(rows) : \A j \in Ready(rows) :
         \/ rows[i].mode = "steer" /\ rows[j].mode = "queue"
         \/ rows[i].mode = rows[j].mode /\ i <= j
  <2>1. CASE steers # {}
    <3>1. PICK i \in steers : \A j \in steers : i <= j
      BY <1>2, <2>1, Oldest
    <3> QED
      BY <1>3, <3>1
  <2>2. CASE steers = {}
    <3>1. PICK i \in Ready(rows) : \A j \in Ready(rows) : i <= j
      BY <1>2, Oldest
    <3>2. \A j \in Ready(rows) : rows[j].mode = "queue"
      BY <1>3, <2>2
    <3> QED
      BY <3>1, <3>2
  <2> QED
    BY <2>1, <2>2
<1> QED
  BY <1>4 DEF First

\* A step of the worker that creates no turn.
LEMMA WorkerIsQuiet ==
    ASSUME IInv, QuietRows, UNCHANGED <<runtime, mail, bridge, client>>, WorkerOK',
           worker'.pc = "consume" => ~inputs'[worker'.input].stale
    PROVE  IInv'
<1>1. RowsOK /\ Kept /\ RequestsOK /\ ScopesOK /\ UNCHANGED scopes /\ UNCHANGED client
  BY DEF IInv, QuietRows, scopes
<1>2. RequestsOK' /\ ScopesOK'
  BY <1>1, RequestsFrame, ScopesFrame
<1>3. \A t \in TurnIds : BridgeOK(t)'
  <2> SUFFICES ASSUME NEW t \in TurnIds PROVE BridgeOK(t)'
    OBVIOUS
  <2>1. BridgeOK(t) /\ bridge'[t] \in {0, bridge[t]}
        /\ \A i \in 1..Len(inputs) : inputs'[i].stale = inputs[i].stale
    BY DEF IInv, FreshOK, QuietRows
  <2> QED
    BY <1>1, <2>1, BridgeFrame
<1> QED
  BY <1>2, <1>3, QuietStep

\* Claims that a restart left over are pending again.
LEMMA RecoveredRows ==
    ASSUME RowsOK, NEW rows \in {inputs, Recovered}
    PROVE  /\ rows \in Seq(InputType) /\ Len(rows) = Len(inputs)
           /\ \A i \in 1..Len(inputs) :
                /\ rows[i].target = inputs[i].target /\ rows[i].stale = inputs[i].stale
                /\ rows[i].status # inputs[i].status =>
                     rows[i].status = "pending" /\ inputs[i].status = "processing"
<1>1. inputs \in [1..Len(inputs) -> InputType] /\ Len(inputs) \in Nat
      /\ DOMAIN inputs = 1..Len(inputs) /\ inputs \in Seq(InputType)
  BY RowsFacts DEF RowsOK
<1>2. CASE rows = inputs
  BY <1>1, <1>2
<1>3. CASE rows = Recovered
  <2> DEFINE row(i) == IF inputs[i].status = "processing"
                       THEN [inputs[i] EXCEPT !.status = "pending"] ELSE inputs[i]
  <2>1. \A i \in 1..Len(inputs) :
           /\ row(i) \in InputType
           /\ row(i).target = inputs[i].target /\ row(i).stale = inputs[i].stale
           /\ row(i).status # inputs[i].status =>
                row(i).status = "pending" /\ inputs[i].status = "processing"
    BY <1>1 DEF InputType, InputStatuses
  <2>2. rows = [i \in 1..Len(inputs) |-> row(i)]
    BY <1>1, <1>3 DEF Recovered
  <2>3. rows \in [1..Len(inputs) -> InputType] /\ \A i \in 1..Len(inputs) : rows[i] = row(i)
    BY <2>1, <2>2
  <2>4. rows \in Seq(InputType) /\ Len(rows) = Len(inputs)
    BY <1>1, <2>3, TableIsSeq
  <2> QED
    BY <2>1, <2>3, <2>4
<1> QED
  BY <1>2, <1>3

\* claim_next_ready_turn_input: a pending row is taken, none is settled by it.
LEMMA ClaimIInv ==
    ASSUME IInv, Claim
    PROVE  IInv' /\ QuietRows
<1>1. PICK rows \in {inputs, Recovered} :
         /\ Ready(rows) # {} /\ inputs' = [rows EXCEPT ![First(rows)].status = "processing"]
         /\ worker' = [pc |-> "check", input |-> First(rows)]
  BY DEF Claim
<1>2. UNCHANGED <<turns, runtime, mail, bridge, client, delivered>>
  BY DEF Claim, scopes
<1>3. RowsOK /\ turns \in Seq(TurnType) /\ Len(turns) \in Nat /\ Len(inputs) \in Nat
  BY DEF IInv, RowsOK
<1>4. /\ rows \in Seq(InputType) /\ Len(rows) = Len(inputs)
      /\ \A i \in 1..Len(inputs) :
           /\ rows[i].target = inputs[i].target /\ rows[i].stale = inputs[i].stale
           /\ rows[i].status # inputs[i].status =>
                rows[i].status = "pending" /\ inputs[i].status = "processing"
  BY <1>3, RecoveredRows
<1>5. PICK i \in 1..Len(inputs) : i = First(rows) /\ rows[i].status = "pending"
  <2>1. First(rows) \in Ready(rows)
    BY <1>1, <1>4, FirstIsReady
  <2> QED
    BY <1>4, <2>1 DEF Ready
<1>6. StatusSet(rows, inputs', i, "processing")
  <2>1. "processing" \in InputStatuses /\ i \in 1..Len(rows)
    BY <1>4 DEF InputStatuses
  <2> QED
    BY <1>1, <1>4, <1>5, <2>1, InputStatus
<1>7. QuietRows
  <2>1. TurnsKept /\ Len(turns') = Len(turns)
    BY <1>2, <1>3 DEF TurnsKept
  <2>2. InputsKept /\ Len(inputs') = Len(inputs)
    BY <1>3, <1>4, <1>5, <1>6 DEF StatusSet, InputsKept
  <2>3. NoDelivery /\ \A j \in 1..Len(inputs) : inputs'[j].stale = inputs[j].stale
    BY <1>2, <1>3, <1>4, <1>6 DEF StatusSet, NoDelivery
  <2> QED
    BY <2>1, <2>2, <2>3 DEF QuietRows, Kept
<1>8. WorkerOK' /\ worker'.pc # "consume"
  <2>1. i \in Nat /\ Len(inputs') = Len(inputs)
    BY <1>3, <1>7 DEF QuietRows
  <2> QED
    BY <1>1, <1>5, <2>1 DEF WorkerOK, WorkerType
<1> QED
  BY <1>2, <1>7, <1>8, WorkerIsQuiet

\* Only a follow-up from after the last reset gets past the check.
LEMMA StartChecksIInv ==
    ASSUME IInv, StartChecks
    PROVE  IInv' /\ QuietRows
<1>1. QuietRows /\ UNCHANGED <<inputs, runtime, mail, bridge, client>>
  BY SameRows DEF StartChecks, scopes
<1>2. PICK pc \in {"consume", "requeue"} :
         worker' = [worker EXCEPT !.pc = pc]
         /\ (pc = "consume" => ~inputs[worker.input].stale)
  BY DEF StartChecks
<1>3. worker \in WorkerType /\ worker.input \in 1..Len(inputs)
  BY DEF IInv, WorkerOK, StartChecks
<1>4. worker' \in WorkerType /\ worker'.input = worker.input /\ worker'.pc = pc
  BY <1>2, <1>3 DEF WorkerType
<1>5. WorkerOK' /\ (worker'.pc = "consume" => ~inputs'[worker'.input].stale)
  BY <1>1, <1>2, <1>3, <1>4 DEF WorkerOK
<1> QED
  BY <1>1, <1>5, WorkerIsQuiet

\* requeue_turn_input: a row is offered again only if it is still claimed.
LEMMA RequeueIInv ==
    ASSUME IInv, Requeue
    PROVE  IInv' /\ QuietRows
<1>1. UNCHANGED <<turns, delivered, runtime, mail, bridge, client>> /\ worker' = IdleWorker
  BY DEF Requeue, scopes
<1>2. worker.input \in 1..Len(inputs)
  BY DEF IInv, WorkerOK, Requeue
<1>3. QuietRows
  <2>1. CASE inputs[worker.input].status = "processing"
    <3>1. inputs' = [inputs EXCEPT ![worker.input].status = "pending"]
          /\ "pending" \in InputStatuses
      BY <2>1 DEF Requeue, InputStatuses
    <3>2. inputs[worker.input].status \notin {"consumed", "cancelled"}
      BY <2>1
    <3> QED
      BY <1>1, <1>2, <3>1, <3>2, InputMoves
  <2>2. CASE inputs[worker.input].status # "processing"
    BY <1>1, <2>2, SameRows DEF Requeue
  <2> QED
    BY <2>1, <2>2
<1>4. WorkerOK' /\ worker'.pc # "consume"
  BY <1>1 DEF WorkerOK, IdleWorker, WorkerType
<1> QED
  BY <1>1, <1>3, <1>4, WorkerIsQuiet

-----------------------------------------------------------------------------
(* Steps that create a turn or deliver a follow-up.                        *)

\* The session of a new turn has no other active turn.
LEMMA TurnIsNew ==
    ASSUME IInv, NEW s \in Sessions, ~ActiveTurn(s), turns' = NewTurn(s)
    PROVE  TurnsKept /\ Len(turns') = Len(turns) + 1 /\ OneActiveTurn'
<1> DEFINE row == [session |-> s, status |-> "idle", stale |-> FALSE]
<1>1. turns \in Seq(TurnType) /\ Len(turns) \in Nat /\ DOMAIN turns = 1..Len(turns)
  BY DEF IInv, RowsOK
<1>2. row \in TurnType /\ row.session = s /\ turns' = Append(turns, row)
  BY DEF TurnType, TurnStatuses, NewTurn
<1> HIDE DEF row
<1>3. /\ turns' \in Seq(TurnType) /\ Len(turns') = Len(turns) + 1 /\ turns'[Len(turns) + 1] = row
      /\ \A t \in 1..Len(turns) : turns'[t] = turns[t]
      /\ 1..Len(turns') = 1..Len(turns) \cup {Len(turns) + 1}
  BY <1>1, <1>2, NewRow
<1>4. TurnsKept
  BY <1>1, <1>3 DEF TurnsKept
<1>5. DOMAIN turns' = 1..Len(turns) \cup {Len(turns) + 1}
  BY <1>3, RowsFacts
<1>6. \A t \in 1..Len(turns) : turns[t].session = s => turns[t].status = "terminal"
  BY <1>1 DEF ActiveTurn
<1>7. \A t, u \in 1..Len(turns) :
         (/\ turns[t].session = turns[u].session
          /\ turns[t].status # "terminal" /\ turns[u].status # "terminal") => t = u
  BY <1>1 DEF IInv, OneActiveTurn
<1>8. OneActiveTurn'
  BY <1>2, <1>3, <1>5, <1>6, <1>7 DEF OneActiveTurn
<1> QED
  BY <1>3, <1>4, <1>8

\* A message starts a turn where no turn is active, from outside the reserve.
LEMMA PostMessageIInv ==
    ASSUME IInv, NEW s \in Sessions, PostMessage(s)
    PROVE  IInv' /\ Kept
<1>1. UNCHANGED <<inputs, runtime, mail, bridge, client, worker, delivered>>
      /\ Len(turns) + MaxInputs < MaxTurns
  BY DEF PostMessage, scopes
<1>2. TurnsKept /\ Len(turns') = Len(turns) + 1 /\ OneActiveTurn'
  BY TurnIsNew DEF PostMessage
<1>3. RowsOK /\ ScopesOK /\ RequestsOK /\ WorkerOK /\ DeliveryOK /\ ReserveOK
      /\ FreshTurnHasOnlyFreshInput
  BY DEF IInv, FreshOK
<1>4. Len(turns) \in Nat /\ Len(inputs) \in Nat /\ MaxInputs \in Nat /\ MaxTurns \in Nat
      /\ Cardinality(Consumed) \in Nat
  BY <1>3, TurnsFit, InputsAssumption
<1>5. Kept /\ Len(inputs') = Len(inputs) /\ Len(inputs') <= MaxInputs
  BY <1>1, <1>2, <1>3, <1>4 DEF Kept, InputsKept, RowsOK, ReserveOK
<1>6. RowsOK'
  BY <1>3, <1>5, RowsFrame
<1>7. ScopesOK' /\ RequestsOK' /\ WorkerOK'
  BY <1>1, <1>3, <1>5, ScopesFrame, RequestsFrame, WorkerFrame DEF scopes
<1>8. NoDelivery
  BY <1>1, <1>4 DEF NoDelivery
<1>9. DeliveryOK'
  BY <1>3, <1>5, <1>8, DeliveryFrame
<1>10. FreshTurnHasOnlyFreshInput'
  <2>1. \A i \in 1..Len(inputs') :
           IF i <= Len(inputs) THEN inputs'[i].stale = inputs[i].stale ELSE ~inputs'[i].stale
    BY <1>1, <1>4
  <2> QED
    BY <1>1, <1>3, <1>5, <2>1, FreshFrame
<1>11. ASSUME NEW t \in TurnIds PROVE BridgeOK(t)'
  <2>1. BridgeOK(t) /\ bridge'[t] \in {0, bridge[t]}
        /\ \A i \in 1..Len(inputs) : inputs'[i].stale = inputs[i].stale
    BY <1>1 DEF IInv, FreshOK
  <2> QED
    BY <1>3, <1>5, <2>1, BridgeFrame
<1>12. worker'.pc = "consume" => ~inputs'[worker'.input].stale
  BY <1>1 DEF IInv, FreshOK
<1>13. ReserveOK'
  <2>1. Consumed' = Consumed
    BY <1>1 DEF Consumed
  <2> QED
    BY <1>1, <1>2, <1>4, <1>5, <2>1 DEF ReserveOK
<1> QED
  BY <1>2, <1>5, <1>6, <1>7, <1>9, <1>10, <1>11, <1>12, <1>13 DEF IInv, FreshOK

\* A follow-up that is not settled is delivered to turn u.
LEMMA Delivers ==
    ASSUME IInv, TurnsKept, NEW i \in 1..Len(inputs), NEW u \in 1..Len(turns'),
           inputs[i].status \in {"pending", "processing"}, SetStatus(i, "consumed"),
           delivered' = [delivered EXCEPT ![i] = @ \cup {u}],
           inputs[i].stale => turns'[u].stale
    PROVE  /\ Kept /\ Len(inputs') = Len(inputs) /\ RowsOK' /\ DeliveryOK'
           /\ FreshTurnHasOnlyFreshInput'
           /\ i \notin Consumed /\ Consumed' = Consumed \cup {i}
           /\ \A j \in 1..Len(inputs) : inputs'[j].stale = inputs[j].stale
<1>1. RowsOK /\ DeliveryOK /\ inputs \in Seq(InputType) /\ ReserveOK
      /\ Len(turns) \in Nat /\ Len(turns') \in Nat /\ Len(inputs) \in Nat
  BY DEF IInv, RowsOK, TurnsKept
<1>2. 1..Len(inputs) \subseteq InputIds /\ 1..Len(turns) \subseteq 1..Len(turns')
  BY <1>1, TurnsFit DEF TurnsKept
<1>3. StatusSet(inputs, inputs', i, "consumed")
  <2>1. "consumed" \in InputStatuses /\ inputs' = [inputs EXCEPT ![i].status = "consumed"]
    BY DEF InputStatuses, SetStatus
  <2> QED
    BY <1>1, <2>1, InputStatus
<1>4. InputsKept /\ Len(inputs') = Len(inputs)
      /\ \A j \in 1..Len(inputs) : inputs'[j].stale = inputs[j].stale
  BY <1>1, <1>3 DEF StatusSet, InputsKept
<1>5. Kept /\ RowsOK'
  BY <1>1, <1>4, RowsFrame DEF Kept
<1>6. delivered \in [InputIds -> SUBSET (1..Len(turns))] /\ delivered[i] = {}
  BY <1>1 DEF DeliveryOK
<1>7. /\ delivered' \in [InputIds -> SUBSET (1..Len(turns'))]
      /\ \A j \in InputIds : delivered'[j] = IF j = i THEN {u} ELSE delivered[j]
  BY <1>2, <1>6
<1>8. DeliveryOK'
  <2>1. \A j \in InputIds : j > Len(inputs') => delivered'[j] = {}
    BY <1>1, <1>4, <1>7 DEF DeliveryOK
  <2>2. ASSUME NEW j \in 1..Len(inputs')
        PROVE  IF inputs'[j].status = "consumed" THEN \E t \in 1..Len(turns') : delivered'[j] = {t}
               ELSE delivered'[j] = {}
    <3>1. CASE j = i
      BY <1>2, <1>3, <1>7, <3>1 DEF StatusSet
    <3>2. CASE j # i
      <4>1. j \in 1..Len(inputs) /\ j \in InputIds /\ delivered'[j] = delivered[j]
            /\ inputs'[j].status = inputs[j].status
        BY <1>2, <1>3, <1>4, <1>7, <3>2 DEF StatusSet
      <4> QED
        BY <1>1, <1>2, <4>1 DEF DeliveryOK
    <3> QED
      BY <3>1, <3>2
  <2> QED
    BY <1>7, <2>1, <2>2 DEF DeliveryOK
<1>9. FreshTurnHasOnlyFreshInput'
  <2>1. DOMAIN inputs = 1..Len(inputs) /\ DOMAIN inputs' = 1..Len(inputs)
    BY <1>1, <1>4 DEF InputsKept
  <2>2. ASSUME NEW j \in 1..Len(inputs), NEW t \in delivered'[j], inputs'[j].stale
        PROVE  turns'[t].stale
    <3>1. CASE j = i
      BY <1>2, <1>4, <1>7, <2>2, <3>1
    <3>2. CASE j # i
      <4>1. t \in delivered[j] /\ inputs[j].stale /\ t \in 1..Len(turns)
        BY <1>2, <1>4, <1>6, <1>7, <2>2, <3>2
      <4>2. turns[t].stale
        BY <2>1, <4>1 DEF IInv, FreshOK, FreshTurnHasOnlyFreshInput
      <4> QED
        BY <4>1, <4>2 DEF TurnsKept
    <3> QED
      BY <3>1, <3>2
  <2> QED
    BY <2>1, <2>2 DEF FreshTurnHasOnlyFreshInput
<1>10. i \notin Consumed /\ Consumed' = Consumed \cup {i}
  BY <1>3 DEF StatusSet, Consumed
<1> QED
  BY <1>4, <1>5, <1>8, <1>9, <1>10

\* consume_turn_input_into_turn: the new turn is the one the follow-up had in reserve.
LEMMA StartConsumesIInv ==
    ASSUME IInv, StartConsumes
    PROVE  IInv' /\ Kept
<1> DEFINE i == worker.input
<1>1. UNCHANGED <<runtime, mail, bridge, client>> /\ worker.pc = "consume"
  BY DEF StartConsumes, scopes
<1>2. i \in 1..Len(inputs) /\ worker \in WorkerType /\ ~inputs[i].stale
  BY <1>1 DEF IInv, WorkerOK, FreshOK
<1>3. CASE worker' = [worker EXCEPT !.pc = "requeue"] /\ UNCHANGED <<turns, inputs, delivered>>
  <2>1. QuietRows
    BY <1>3, SameRows
  <2>2. worker' \in WorkerType /\ worker'.input = i /\ worker'.pc = "requeue"
    BY <1>2, <1>3 DEF WorkerType
  <2>3. WorkerOK'
    BY <1>2, <1>3, <2>2 DEF WorkerOK
  <2> QED
    BY <1>1, <2>1, <2>2, <2>3, WorkerIsQuiet DEF QuietRows
<1>4. CASE /\ inputs[i].status = "processing" /\ ~ActiveTurn(inputs[i].session)
           /\ turns' = NewTurn(inputs[i].session) /\ SetStatus(i, "consumed")
           /\ delivered' = [delivered EXCEPT ![i] = @ \cup {Len(turns) + 1}]
           /\ worker' = [worker EXCEPT !.pc = "launch"]
  <2>1. RowsOK /\ ScopesOK /\ RequestsOK /\ WorkerOK /\ DeliveryOK /\ ReserveOK
        /\ inputs \in Seq(InputType)
    BY DEF IInv, RowsOK
  <2>2. Len(turns) \in Nat /\ Len(inputs) \in Nat /\ MaxInputs \in Nat /\ MaxTurns \in Nat
        /\ Cardinality(Consumed) \in Nat /\ IsFiniteSet(Consumed)
    BY <2>1, TurnsFit, InputsAssumption
  <2>3. inputs[i].session \in Sessions /\ inputs[i].target \in 1..Len(turns)
    <3>1. inputs[i] \in InputType
      BY <1>2, <2>1, RowsFacts
    <3> QED
      BY <1>2, <2>1, <3>1 DEF InputType, RowsOK
  <2>4. TurnsKept /\ Len(turns') = Len(turns) + 1 /\ OneActiveTurn'
    BY <1>4, <2>3, TurnIsNew
  <2>5. PICK u \in 1..Len(turns') : u = Len(turns) + 1
    BY <2>2, <2>4
  <2>6. /\ Kept /\ Len(inputs') = Len(inputs) /\ RowsOK' /\ DeliveryOK'
        /\ FreshTurnHasOnlyFreshInput'
        /\ i \notin Consumed /\ Consumed' = Consumed \cup {i}
        /\ \A j \in 1..Len(inputs) : inputs'[j].stale = inputs[j].stale
    <3>1. delivered' = [delivered EXCEPT ![i] = @ \cup {u}]
      BY <1>4, <2>5
    <3>2. inputs[i].status \in {"pending", "processing"} /\ SetStatus(i, "consumed")
          /\ (inputs[i].stale => turns'[u].stale)
      BY <1>2, <1>4
    <3> HIDE DEF i
    <3> QED
      BY <1>2, <2>4, <3>1, <3>2, Delivers
  <2>7. ScopesOK' /\ RequestsOK'
    BY <1>1, <2>1, <2>6, ScopesFrame, RequestsFrame DEF scopes
  <2>8. worker' \in WorkerType /\ worker'.input = i /\ worker'.pc = "launch"
    BY <1>2, <1>4 DEF WorkerType
  <2>9. WorkerOK'
    BY <1>2, <2>6, <2>8 DEF WorkerOK
  <2>10. ASSUME NEW t \in TurnIds PROVE BridgeOK(t)'
    <3>1. BridgeOK(t) /\ bridge'[t] \in {0, bridge[t]}
      BY <1>1 DEF IInv, FreshOK
    <3> QED
      BY <2>1, <2>6, <3>1, BridgeFrame
  <2>11. ReserveOK'
    <3>1. Cardinality(Consumed') = Cardinality(Consumed) + 1
      BY <2>2, <2>6, FS_AddElement
    <3>2. Len(turns) > 0
      BY <2>2, <2>3
    <3> QED
      BY <2>1, <2>2, <2>4, <2>6, <3>1, <3>2 DEF ReserveOK
  <2> QED
    BY <2>4, <2>6, <2>7, <2>8, <2>9, <2>10, <2>11 DEF IInv, FreshOK
<1> QED
  BY <1>3, <1>4 DEF StartConsumes

-----------------------------------------------------------------------------
(* Cancelling, the bridge of a turn, and the reset.                        *)

\* cancel_turn_input: only a pending row is cancelled.
LEMMA CancelInputIInv ==
    ASSUME IInv, NEW i \in 1..Len(inputs), CancelInput(i)
    PROVE  IInv' /\ QuietRows
<1>1. inputs[i].status \notin {"consumed", "cancelled"} /\ "cancelled" \in InputStatuses
      /\ inputs' = [inputs EXCEPT ![i].status = "cancelled"]
      /\ UNCHANGED <<turns, delivered, runtime, mail, bridge, client, worker>>
  BY DEF CancelInput, SetStatus, InputStatuses, scopes
<1>2. QuietRows
  BY <1>1, InputMoves
<1>3. runtime' \subseteq 1..Len(turns)
  BY <1>1 DEF IInv, ScopesOK
<1> QED
  BY <1>1, <1>2, <1>3, TurnIsQuiet

\* cancel_turn_inputs_for_undo: the pending rows of a turn are cancelled together.
LEMMA UndoInputsIInv ==
    ASSUME IInv, NEW t \in 1..Len(turns), UndoInputs(t)
    PROVE  IInv' /\ QuietRows
<1> DEFINE taken == {i \in DOMAIN inputs : inputs[i].target = t /\ inputs[i].status = "pending"}
           row(i) == IF i \in taken THEN [inputs[i] EXCEPT !.status = "cancelled"] ELSE inputs[i]
<1>1. inputs \in [1..Len(inputs) -> InputType] /\ Len(inputs) \in Nat
      /\ DOMAIN inputs = 1..Len(inputs) /\ turns \in Seq(TurnType) /\ Len(turns) \in Nat
  BY RowsFacts DEF IInv, RowsOK
<1>2. inputs' = [i \in 1..Len(inputs) |-> row(i)]
      /\ UNCHANGED <<turns, delivered, runtime, mail, bridge, client, worker>>
  BY <1>1 DEF UndoInputs, scopes
<1>3. \A i \in 1..Len(inputs) :
         /\ row(i) \in InputType /\ row(i).target = inputs[i].target
         /\ row(i).stale = inputs[i].stale
         /\ row(i).status = "consumed" <=> inputs[i].status = "consumed"
         /\ inputs[i].status = "cancelled" => row(i).status = "cancelled"
  BY <1>1 DEF InputType, InputStatuses
<1>4. inputs' \in [1..Len(inputs) -> InputType] /\ \A i \in 1..Len(inputs) : inputs'[i] = row(i)
  BY <1>2, <1>3
<1>5. inputs' \in Seq(InputType) /\ Len(inputs') = Len(inputs)
  BY <1>1, <1>4, TableIsSeq
<1> HIDE DEF row
<1>6. QuietRows
  BY <1>1, <1>2, <1>3, <1>4, <1>5 DEF QuietRows, Kept, TurnsKept, InputsKept, NoDelivery
<1>7. runtime' \subseteq 1..Len(turns)
  BY <1>2 DEF IInv, ScopesOK
<1> QED
  BY <1>2, <1>6, <1>7, TurnIsQuiet

\* The bridge compares the oldest mail with the policy; what it keeps is fresh.
LEMMA BridgeReadsIInv ==
    ASSUME IInv, NEW t \in 1..Len(turns), BridgeReads(t)
    PROVE  IInv' /\ QuietRows
<1> DEFINE i == Head(mail[t])
<1>1. UNCHANGED <<turns, runtime, client, worker, delivered>> /\ mail[t] # <<>>
      /\ mail' = [mail EXCEPT ![t] = Tail(mail[t])]
  BY DEF BridgeReads
<1>2. RowsOK /\ ScopesOK /\ RequestsOK /\ WorkerOK /\ t \in TurnIds /\ Len(turns) \in Nat
      /\ Len(inputs) \in Nat
  BY TurnsFit DEF IInv
<1>3. i \in 1..Len(inputs) /\ mail' \in [TurnIds -> Seq(1..Len(inputs))]
  <2>1. mail \in [TurnIds -> Seq(1..Len(inputs))] /\ mail[t] \in Seq(1..Len(inputs))
    BY <1>2 DEF ScopesOK
  <2>2. i \in 1..Len(inputs) /\ Tail(mail[t]) \in Seq(1..Len(inputs))
    BY <1>1, <2>1, HeadTailProperties
  <2> QED
    BY <1>1, <2>1, <2>2
<1>4. QuietRows
  <2>1. CASE UNCHANGED inputs
    BY <1>1, <2>1, SameRows
  <2>2. CASE inputs[i].status = "pending" /\ inputs' = [inputs EXCEPT ![i].status = "cancelled"]
    <3>1. inputs[i].status \notin {"consumed", "cancelled"} /\ "cancelled" \in InputStatuses
      BY <2>2 DEF InputStatuses
    <3> HIDE DEF i
    <3> QED
      BY <1>1, <1>3, <2>2, <3>1, InputMoves
  <2> QED
    BY <2>1, <2>2 DEF BridgeReads
<1>5. Len(inputs') = Len(inputs) /\ Len(turns') = Len(turns) /\ Kept
  BY <1>4 DEF QuietRows
<1>6. RequestsOK' /\ WorkerOK'
  BY <1>1, <1>2, <1>5, RequestsFrame, WorkerFrame
<1>7. worker'.pc = "consume" => ~inputs'[worker'.input].stale
  BY <1>1, <1>4 DEF IInv, FreshOK, QuietRows, WorkerOK
<1>8. CASE UNCHANGED bridge
  <2>1. ScopesOK'
    BY <1>1, <1>2, <1>3, <1>5, <1>8 DEF ScopesOK
  <2>2. \A u \in TurnIds : BridgeOK(u)'
    BY <1>1, <1>4, <1>8, QuietChecks
  <2> QED
    BY <1>4, <1>6, <1>7, <2>1, <2>2, QuietStep
<1>9. CASE ~inputs[i].stale /\ bridge' = [bridge EXCEPT ![t] = i]
  <2>1. bridge' \in [TurnIds -> 0..Len(inputs)]
        /\ \A u \in TurnIds : bridge'[u] = IF u = t THEN i ELSE bridge[u]
    <3>1. i \in 0..Len(inputs) /\ bridge \in [TurnIds -> 0..Len(inputs)]
      BY <1>2, <1>3 DEF ScopesOK
    <3> HIDE DEF i
    <3> QED
      BY <1>2, <1>9, <3>1
  <2>2. ScopesOK'
    BY <1>1, <1>2, <1>3, <1>5, <2>1 DEF ScopesOK
  <2>3. ASSUME NEW u \in TurnIds PROVE BridgeOK(u)'
    <3>1. CASE u = t
      <4>1. ~inputs'[i].stale
        BY <1>3, <1>4, <1>9 DEF QuietRows
      <4> HIDE DEF i
      <4> QED
        BY <1>2, <1>5, <2>1, <3>1, <4>1 DEF BridgeOK
    <3>2. CASE u # t
      <4>1. BridgeOK(u) /\ bridge'[u] \in {0, bridge[u]}
            /\ \A j \in 1..Len(inputs) : inputs'[j].stale = inputs[j].stale
        BY <1>4, <2>1, <3>2 DEF IInv, FreshOK, QuietRows
      <4> QED
        BY <1>2, <1>5, <4>1, BridgeFrame
    <3> QED
      BY <3>1, <3>2
  <2> QED
    BY <1>4, <1>6, <1>7, <2>2, <2>3, QuietStep
<1> QED
  BY <1>8, <1>9 DEF BridgeReads

\* consume_turn_input_into_active_turn reads the row again before it delivers it.
LEMMA BridgeConsumesIInv ==
    ASSUME IInv, NEW t \in 1..Len(turns), BridgeConsumes(t)
    PROVE  IInv' /\ Kept
<1> DEFINE i == bridge[t]
<1>1. UNCHANGED <<turns, runtime, mail, client, worker>> /\ bridge[t] # 0
      /\ bridge' = [bridge EXCEPT ![t] = 0]
  BY DEF BridgeConsumes
<1>2. RowsOK /\ ScopesOK /\ RequestsOK /\ WorkerOK /\ ReserveOK /\ OneActiveTurn /\ t \in TurnIds
      /\ Len(turns) \in Nat /\ Len(inputs) \in Nat /\ turns \in Seq(TurnType)
  BY TurnsFit DEF IInv, RowsOK
<1>3. i \in 1..Len(inputs) /\ bridge' \in [TurnIds -> 0..Len(inputs)]
      /\ \A u \in TurnIds : bridge'[u] = IF u = t THEN 0 ELSE bridge[u]
  <2>1. bridge \in [TurnIds -> 0..Len(inputs)] /\ 0 \in 0..Len(inputs)
    BY <1>2 DEF ScopesOK
  <2>2. i \in 1..Len(inputs)
    BY <1>1, <1>2, <2>1
  <2>3. bridge' \in [TurnIds -> 0..Len(inputs)]
    BY <1>1, <2>1, Zenon
  <2>4. \A u \in TurnIds : bridge'[u] = IF u = t THEN 0 ELSE bridge[u]
    BY <1>1, <2>1
  <2> QED
    BY <2>2, <2>3, <2>4
<1>4. TurnsKept
  BY <1>1, <1>2 DEF TurnsKept
<1>5. ASSUME Kept, Len(inputs') = Len(inputs),
             \A j \in 1..Len(inputs) : inputs'[j].stale = inputs[j].stale
      PROVE  /\ ScopesOK' /\ RequestsOK' /\ WorkerOK' /\ \A u \in TurnIds : BridgeOK(u)'
             /\ worker'.pc = "consume" => ~inputs'[worker'.input].stale
  <2>1. ScopesOK'
    BY <1>1, <1>2, <1>3, <1>5 DEF ScopesOK
  <2>2. RequestsOK' /\ WorkerOK'
    BY <1>1, <1>2, <1>5, RequestsFrame, WorkerFrame
  <2>3. ASSUME NEW u \in TurnIds PROVE BridgeOK(u)'
    <3>1. BridgeOK(u) /\ bridge'[u] \in {0, bridge[u]}
      BY <1>3 DEF IInv, FreshOK
    <3> QED
      BY <1>2, <1>5, <3>1, BridgeFrame
  <2>4. worker'.pc = "consume" => ~inputs'[worker'.input].stale
    BY <1>1, <1>5 DEF IInv, FreshOK, WorkerOK
  <2> QED
    BY <2>1, <2>2, <2>3, <2>4
<1>6. CASE UNCHANGED <<inputs, delivered>>
  <2>1. QuietRows
    BY <1>1, <1>6, SameRows
  <2>2. Kept /\ Len(inputs') = Len(inputs)
        /\ \A j \in 1..Len(inputs) : inputs'[j].stale = inputs[j].stale
    BY <2>1 DEF QuietRows
  <2> QED
    BY <1>5, <2>1, <2>2, QuietStep
<1>7. CASE /\ inputs[i].status = "pending" /\ SetStatus(i, "consumed")
           /\ delivered' = [delivered EXCEPT ![i] = @ \cup {t}]
  <2>1. inputs[i].stale => turns'[t].stale
    BY <1>1, <1>2 DEF IInv, FreshOK, BridgeOK
  <2>2. inputs[i].status \in {"pending", "processing"} /\ t \in 1..Len(turns')
    BY <1>1, <1>7
  <2>3. /\ Kept /\ Len(inputs') = Len(inputs) /\ RowsOK' /\ DeliveryOK'
        /\ FreshTurnHasOnlyFreshInput'
        /\ \A j \in 1..Len(inputs) : inputs'[j].stale = inputs[j].stale
    <3> HIDE DEF i
    <3> QED
      BY <1>3, <1>4, <1>7, <2>1, <2>2, Delivers
  <2>4. Len(turns') = Len(turns) /\ Len(inputs') <= MaxInputs
    BY <1>1, <1>2, <2>3 DEF ReserveOK
  <2>5. ReserveOK' /\ OneActiveTurn'
    BY <1>2, <1>4, <2>3, <2>4, ReserveFrame, ActiveFrame
  <2> QED
    BY <1>5, <2>3, <2>5 DEF IInv, FreshOK
<1> QED
  BY <1>6, <1>7 DEF BridgeConsumes

\* A reset puts every row behind the cutoff; the worker is not between its check
\* and its transaction.
LEMMA ResetProtectionIInv ==
    ASSUME IInv, ResetProtection
    PROVE  IInv' /\ Kept
<1>1. RowsOK /\ ScopesOK /\ RequestsOK /\ WorkerOK /\ DeliveryOK /\ ReserveOK /\ OneActiveTurn
      /\ Len(turns) \in Nat /\ Len(inputs) \in Nat
  BY DEF IInv, RowsOK
<1>2. /\ turns \in [1..Len(turns) -> TurnType] /\ DOMAIN turns = 1..Len(turns)
      /\ inputs \in [1..Len(inputs) -> InputType] /\ DOMAIN inputs = 1..Len(inputs)
  BY <1>1, RowsFacts DEF RowsOK
<1>3. UNCHANGED <<runtime, mail, bridge, client, worker, delivered>> /\ worker.pc # "consume"
      /\ turns' = [t \in 1..Len(turns) |-> [turns[t] EXCEPT !.stale = TRUE]]
      /\ inputs' = [i \in 1..Len(inputs) |-> [inputs[i] EXCEPT !.stale = TRUE]]
  BY <1>2 DEF ResetProtection, scopes
<1>4. /\ turns' \in [1..Len(turns) -> TurnType]
      /\ \A t \in 1..Len(turns) :
           /\ turns'[t].session = turns[t].session /\ turns'[t].status = turns[t].status
           /\ turns'[t].stale
  BY <1>2, <1>3 DEF TurnType
<1>5. /\ inputs' \in [1..Len(inputs) -> InputType]
      /\ \A i \in 1..Len(inputs) :
           inputs'[i].target = inputs[i].target /\ inputs'[i].status = inputs[i].status
  BY <1>2, <1>3 DEF InputType
<1>6. turns' \in Seq(TurnType) /\ Len(turns') = Len(turns)
      /\ inputs' \in Seq(InputType) /\ Len(inputs') = Len(inputs)
      /\ DOMAIN inputs' = 1..Len(inputs)
  BY <1>1, <1>4, <1>5, TableIsSeq
<1>7. Kept /\ TurnsKept /\ Len(inputs') <= MaxInputs /\ NoDelivery
  BY <1>1, <1>3, <1>4, <1>5, <1>6 DEF Kept, TurnsKept, InputsKept, ReserveOK, NoDelivery
<1>8. RowsOK' /\ ScopesOK' /\ RequestsOK' /\ WorkerOK'
  BY <1>1, <1>3, <1>6, <1>7, RowsFrame, ScopesFrame, RequestsFrame, WorkerFrame DEF scopes
<1>9. DeliveryOK' /\ ReserveOK' /\ OneActiveTurn'
  BY <1>1, <1>6, <1>7, DeliveryFrame, ReserveFrame, ActiveFrame
<1>10. FreshOK'
  <2>1. 1..Len(inputs) \subseteq InputIds /\ TurnIds \subseteq Nat \ {0}
    BY <1>1, TurnsFit, InputsAssumption DEF TurnIds
  <2>2. \A i \in 1..Len(inputs) : \A t \in delivered'[i] : turns'[t].stale
    BY <1>1, <1>3, <1>4, <2>1 DEF DeliveryOK
  <2>3. FreshTurnHasOnlyFreshInput'
    BY <1>6, <2>2 DEF FreshTurnHasOnlyFreshInput
  <2>4. \A t \in TurnIds : BridgeOK(t)'
    BY <1>1, <1>3, <1>4, <1>6, <2>1 DEF IInv, FreshOK, BridgeOK
  <2> QED
    BY <1>3, <2>3, <2>4 DEF FreshOK
<1> QED
  BY <1>7, <1>8, <1>9, <1>10 DEF IInv

-----------------------------------------------------------------------------
(* The invariant holds, and the properties follow.                         *)

\* The daemon starts with empty tables.
LEMMA InitIInv ==
    ASSUME Init
    PROVE  scenario \in Scenarios /\ IInv
<1>1. turns = <<>> /\ inputs = <<>> /\ runtime = {} /\ Len(turns) = 0 /\ Len(inputs) = 0
      /\ DOMAIN turns = {} /\ DOMAIN inputs = {}
  BY DEF Init
<1>2. RowsOK
  BY <1>1 DEF RowsOK
<1>3. ScopesOK /\ \A t \in TurnIds : bridge[t] = 0
  <2>1. <<>> \in Seq(1..Len(inputs)) /\ 0 \in 0..Len(inputs)
    BY <1>1
  <2> QED
    BY <1>1, <2>1 DEF Init, ScopesOK
<1>4. RequestsOK
  BY NoRequestType DEF Init, RequestsOK, RequestOK
<1>5. WorkerOK /\ worker.pc # "consume"
  BY DEF Init, WorkerOK, IdleWorker, WorkerType
<1>6. DeliveryOK
  BY <1>1 DEF Init, DeliveryOK
<1>7. FreshOK /\ OneActiveTurn
  BY <1>1, <1>3, <1>5 DEF FreshOK, FreshTurnHasOnlyFreshInput, BridgeOK, OneActiveTurn
<1>8. ReserveOK
  BY <1>1, InputsAssumption DEF ReserveOK
<1> QED
  BY <1>2, <1>3, <1>4, <1>5, <1>6, <1>7, <1>8 DEF IInv, Init

\* Every step keeps the invariant, and settled rows as they are.
LEMMA NextIInv ==
    ASSUME scenario \in Scenarios, IInv, [Next]_vars
    PROVE  scenario' \in Scenarios /\ IInv' /\ Kept
<1>1. scenario.sessions \subseteq Sessions /\ DOMAIN turns = 1..Len(turns)
      /\ DOMAIN inputs = 1..Len(inputs)
  BY InputsAssumption DEF IInv, RowsOK
<1>2. CASE UNCHANGED vars
  <2>1. UNCHANGED <<turns, inputs, runtime, mail, bridge, client, worker, delivered, scenario>>
    BY <1>2 DEF vars
  <2>2. QuietRows
    BY <2>1, SameRows
  <2>3. runtime' \subseteq 1..Len(turns)
    BY <2>1 DEF IInv, ScopesOK
  <2>4. IInv'
    BY <2>1, <2>2, <2>3, TurnIsQuiet
  <2> QED
    BY <2>1, <2>2, <2>4 DEF QuietRows
<1>3. CASE Next
  <2>1. scenario' \in Scenarios /\ Step
    BY <1>3 DEF Next
  <2>2. ASSUME NEW s \in scenario.sessions, PostMessage(s) \/ ClientStep(s)
        PROVE  IInv' /\ Kept
    <3>1. s \in Sessions
      BY <1>1
    <3> QED
      BY <2>2, <3>1, PostMessageIInv, ValidateInputIInv, InsertInputIInv, SubmitInputIInv
         DEF ClientStep, QuietRows
  <2>3. ASSUME NEW t \in 1..Len(turns),
               TurnStep(t) \/ LaunchFails(t) \/ ResumeTurn(t) \/ UndoInputs(t)
        PROVE  IInv' /\ Kept
    BY <2>3, LaunchIInv, TurnEndsIInv, CloseScopeIInv, LaunchFailsIInv, ResumeTurnIInv,
       UndoInputsIInv DEF TurnStep, QuietRows
  <2>4. ASSUME NEW t \in 1..Len(turns), BridgeStep(t)
        PROVE  IInv' /\ Kept
    BY <2>4, BridgeReadsIInv, BridgeConsumesIInv DEF BridgeStep, QuietRows
  <2>5. ASSUME NEW t \in 1..Len(turns), NEW mode \in {"steer", "queue"},
               AdmitInput(turns[t].session, t, mode)
        PROVE  IInv' /\ Kept
    BY <2>5, AdmitInputIInv DEF QuietRows
  <2>6. ASSUME NEW i \in 1..Len(inputs), CancelInput(i)
        PROVE  IInv' /\ Kept
    BY <2>6, CancelInputIInv DEF QuietRows
  <2>7. CASE WorkerStep
    BY <2>1, <2>7, ClaimIInv, StartChecksIInv, RequeueIInv, StartConsumesIInv DEF WorkerStep, QuietRows
  <2>8. CASE ResetProtection
    BY <2>1, <2>8, ResetProtectionIInv
  <2>9. CASE Crash
    BY <2>1, <2>9, CrashIInv DEF QuietRows
  <2> QED
    BY <1>1, <2>1, <2>2, <2>3, <2>4, <2>5, <2>6, <2>7, <2>8, <2>9 DEF Step
<1> QED
  BY <1>2, <1>3

\* The invariant holds in every state.
LEMMA Invariance == Spec => [](scenario \in Scenarios /\ IInv)
<1>1. Init => scenario \in Scenarios /\ IInv
  BY InitIInv
<1>2. scenario \in Scenarios /\ IInv /\ [Next]_vars => (scenario \in Scenarios /\ IInv)'
  BY NextIInv
<1> QED
  BY <1>1, <1>2, PTL DEF Spec

\* For any sessions and any number of turns and follow-ups, a session has at most
\* one turn that is not over: create_turn_with_message_and_attachments_if_idle and
\* consume_turn_input_into_turn look and insert in one transaction.
THEOREM SessionHasOneActiveTurn == Spec => []QueueConsistent
<1>1. scenario \in Scenarios /\ IInv => QueueConsistent
  <2> SUFFICES ASSUME IInv PROVE QueueConsistent
    OBVIOUS
  <2>1. TypeOK
    <3>1. Len(turns) \in Nat /\ Len(inputs) \in Nat /\ DOMAIN turns = 1..Len(turns)
          /\ DOMAIN inputs = 1..Len(inputs)
      BY DEF IInv, RowsOK
    <3>2. /\ turns \in Seq([session : Sessions, stale : BOOLEAN,
                             status : {"idle", "unlaunched", "running", "paused", "terminal"}])
          /\ inputs \in Seq([session : Sessions, target : TurnIds, mode : {"steer", "queue"},
                              status : {"pending", "processing", "consumed", "cancelled"},
                              stale : BOOLEAN])
      BY DEF IInv, RowsOK, TurnType, TurnStatuses, InputType, InputStatuses
    <3>3. worker.pc \in {"idle", "check", "consume", "requeue", "launch"}
      BY DEF IInv, WorkerOK, WorkerType
    <3>4. runtime \subseteq DOMAIN turns
          /\ \A t \in TurnIds : bridge[t] \in 0..Len(inputs) /\ mail[t] \in Seq(DOMAIN inputs)
      BY <3>1 DEF IInv, ScopesOK
    <3> QED
      BY <3>2, <3>3, <3>4 DEF TypeOK
  <2> QED
    BY <2>1 DEF IInv, QueueConsistent
<1> QED
  BY <1>1, Invariance, PTL

\* A follow-up is in the conversation of one turn at most, and of none once it is
\* cancelled, whatever the order of the bridge's read and its transaction, the
\* worker's claim, a cancellation, an undo and a crash.
THEOREM FollowUpIsDeliveredOnce == Spec => []DeliveredOnce
<1>1. scenario \in Scenarios /\ IInv => DeliveredOnce
  <2> SUFFICES ASSUME IInv, NEW i \in 1..Len(inputs)
               PROVE  Cardinality(delivered[i]) <= 1
                      /\ (delivered[i] # {} <=> inputs[i].status = "consumed")
    BY DEF DeliveredOnce, IInv, RowsOK
  <2>1. CASE inputs[i].status = "consumed"
    <3>1. PICK t : delivered[i] = {t}
      BY <2>1 DEF IInv, DeliveryOK
    <3>2. Cardinality(delivered[i]) = 1
      BY <3>1, FS_Singleton, Zenon
    <3> QED
      BY <2>1, <3>1, <3>2
  <2>2. CASE inputs[i].status # "consumed"
    <3>1. delivered[i] = {}
      BY <2>2 DEF IInv, DeliveryOK
    <3>2. Cardinality(delivered[i]) = 0
      BY <3>1, FS_EmptySet, Zenon
    <3> QED
      BY <2>2, <3>1, <3>2
  <2> QED
    BY <2>1, <2>2
<1> QED
  BY <1>1, Invariance, PTL

\* A turn that was created after the last reset of the file protection has no
\* follow-up from before it: the bridge compares before a turn of the same age
\* consumes, and the worker holds the gate from its check to its transaction.
THEOREM ResetCutsFollowUpsOff == Spec => []FreshTurnHasOnlyFreshInput
<1>1. scenario \in Scenarios /\ IInv => FreshTurnHasOnlyFreshInput
  BY DEF IInv, FreshOK
<1> QED
  BY <1>1, Invariance, PTL

\* No step of anyone changes the row of a follow-up that is delivered or cancelled.
THEOREM FollowUpOutcomeStays == Spec => InputOutcomeIsFinal
<1>1. scenario \in Scenarios /\ IInv /\ [Next]_vars =>
        [\A i \in DOMAIN inputs : inputs[i].status \in {"consumed", "cancelled"}
                                  => inputs'[i].status = inputs[i].status]_vars
  <2> SUFFICES ASSUME scenario \in Scenarios, IInv, [Next]_vars
               PROVE  \A i \in DOMAIN inputs : inputs[i].status \in {"consumed", "cancelled"}
                                               => inputs'[i].status = inputs[i].status
    OBVIOUS
  <2>1. Kept /\ DOMAIN inputs = 1..Len(inputs)
    BY NextIInv DEF IInv, RowsOK
  <2> QED
    BY <2>1 DEF Kept, InputsKept
<1> QED
  BY <1>1, Invariance, PTL DEF Spec, InputOutcomeIsFinal
=============================================================================
