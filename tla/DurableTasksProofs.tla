-------------------------- MODULE DurableTasksProofs --------------------------
(***************************************************************************)
(* Proofs about DurableTasks, for any number of tasks, workers, attempts   *)
(* and costs, any limit and any faults.                                    *)
(*                                                                         *)
(* Every action changes the store in one of five ways (StoreStep): not at   *)
(* all, one row that is not over together with its reservation and the      *)
(* team's totals (RowStep), a new row, a direct consumption, or the kill    *)
(* switch.  That is proved action by action; the invariant, the finality of *)
(* outcomes and the refinement of BudgetLedger are proved from it once.     *)
(***************************************************************************)
EXTENDS DurableTasks, FiniteSetTheorems, WellFoundedInduction, TLAPS

-----------------------------------------------------------------------------
(* What SumFunction of the community modules computes over a finite domain. *)

(* The element a fold takes from a set next.                               *)
Pick(s) == CHOOSE x \in s : TRUE

(* The equation of the fold behind SumFunction, for partial sums `g` of the *)
(* function `f` over the sets of `D`.                                       *)
SumsOf(g, f, D) ==
    g = [s \in D |-> IF s = {} THEN 0 ELSE f[Pick(s)] + g[s \ {Pick(s)}]]

Sums(f) == CHOOSE g : SumsOf(g, f, SUBSET DOMAIN f)

(* A set that is not empty has the element that is picked.                  *)
LEMMA PickIsMember ==
    ASSUME NEW s, s # {}
    PROVE  Pick(s) \in s
  BY DEF Pick

(* A property of subsets that the empty set has and that a set has if it    *)
(* has it without the element picked from it is one of all subsets.         *)
LEMMA SubsetInduction ==
    ASSUME NEW S, IsFiniteSet(S), NEW Good \in SUBSET (SUBSET S),
           {} \in Good,
           \A s \in SUBSET S : s # {} /\ s \ {Pick(s)} \in Good => s \in Good
    PROVE  Good = SUBSET S
<1> DEFINE Bad == (SUBSET S) \ Good
<1>1. SUFFICES ASSUME Bad # {} PROVE FALSE
  OBVIOUS
<1>2. FiniteSubsetsOf(S) = SUBSET S
  BY FS_FiniteSubsetsOfFinite
<1>3. IsWellFoundedOn(StrictSubsetOrdering(S), SUBSET S)
  BY <1>2, FS_StrictSubsetOrderingWellFounded
<1>4. PICK s \in Bad : \A r \in Bad : ~ (<<r, s>> \in StrictSubsetOrdering(S))
  <2>1. Bad \subseteq SUBSET S
    OBVIOUS
  <2> HIDE DEF Bad
  <2> DEFINE R == StrictSubsetOrdering(S)
             All == SUBSET S
  <2>2. IsWellFoundedOn(R, All) /\ Bad \subseteq All /\ Bad # {}
    BY <1>1, <1>3, <2>1
  <2> HIDE DEF R, All
  <2>3. \E x \in Bad : \A y \in Bad : ~ (<<y, x>> \in R)
    BY <2>2, WFMin
  <2> QED
    BY <2>3 DEF R
<1>5. s # {} /\ Pick(s) \in s
  BY <1>4, PickIsMember
<1>6. <<s \ {Pick(s)}, s>> \in StrictSubsetOrdering(S)
  BY <1>4, <1>5 DEF StrictSubsetOrdering
<1>7. s \ {Pick(s)} \in Good
  BY <1>4, <1>6
<1> QED
  BY <1>4, <1>5, <1>7

(* SumFunction is the last of the partial sums.                            *)
LEMMA SumIsFold ==
    ASSUME NEW f
    PROVE  SumFunction(f) = Sums(f)[DOMAIN f]
  BY DEF SumFunction, SumFunctionOnSet, FoldFunctionOnSet, MapThenFoldSet, Sums, SumsOf, Pick

(* A set of natural numbers that is not empty has a least element.          *)
LEMMA LeastElement ==
    ASSUME NEW N \in SUBSET Nat, N # {}
    PROVE  \E n \in N : \A m \in N : n <= m
<1> DEFINE R == OpToRel(<, Nat)
<1>1. IsWellFoundedOn(R, Nat) /\ N \subseteq Nat
  BY NatLessThanWellFounded
<1>2. PICK n \in N : \A m \in N : ~ (<<m, n>> \in R)
  <2> HIDE DEF R
  <2> QED
    BY <1>1, WFMin
<1>3. ASSUME NEW m \in N PROVE n <= m
  <2>1. m \in Nat /\ n \in Nat /\ ~ (<<m, n>> \in R)
    BY <1>2
  <2>2. m < n => <<m, n>> \in R
    BY <2>1 DEF OpToRel
  <2> HIDE DEF R
  <2>3. ~(m < n)
    BY <2>1, <2>2
  <2> QED
    BY <2>1, <2>3
<1> QED
  BY <1>3

(* Induction over the natural numbers, for a set of them.                  *)
LEMMA SetOfNaturals ==
    ASSUME NEW N \in SUBSET Nat, 0 \in N, \A n \in N : n + 1 \in N
    PROVE  N = Nat
<1> DEFINE Bad == Nat \ N
<1>1. SUFFICES ASSUME Bad # {} PROVE FALSE
  OBVIOUS
<1>2. PICK n \in Bad : \A m \in Bad : n <= m
  BY <1>1, LeastElement
<1>3. n \in Nat /\ n \notin N /\ n # 0
  OBVIOUS
<1>4. n - 1 \in Nat /\ (n - 1) + 1 = n /\ ~(n <= n - 1)
  BY <1>3
<1>5. n - 1 \in N
  BY <1>2, <1>4
<1> QED
  BY <1>3, <1>4, <1>5

(* The partial sums of a function with a finite domain exist: those of the  *)
(* subsets with at most n elements give those with at most n + 1.           *)
LEMMA SumsExist ==
    ASSUME NEW f, IsFiniteSet(DOMAIN f)
    PROVE  SumsOf(Sums(f), f, SUBSET DOMAIN f)
<1> DEFINE S == DOMAIN f
           Upto(n) == {s \in SUBSET S : Cardinality(s) <= n}
           N == {n \in Nat : \E g : SumsOf(g, f, Upto(n))}
<1>1. \A s \in SUBSET S : IsFiniteSet(s) /\ Cardinality(s) \in Nat /\ Cardinality(s) <= Cardinality(S)
  BY FS_Subset, FS_CardinalityType
<1>2. \A s \in SUBSET S : s # {} => /\ s \ {Pick(s)} \in SUBSET S
                                   /\ Cardinality(s \ {Pick(s)}) = Cardinality(s) - 1
  BY <1>1, FS_RemoveElement, PickIsMember
<1>3. 0 \in N
  <2> DEFINE g == [s \in Upto(0) |-> 0]
  <2>1. \A s \in Upto(0) : s = {}
    BY <1>1, FS_EmptySet
  <2>2. g = [s \in Upto(0) |-> IF s = {} THEN 0 ELSE f[Pick(s)] + g[s \ {Pick(s)}]]
    BY <2>1
  <2>3. SumsOf(g, f, Upto(0))
    BY <2>2 DEF SumsOf
  <2> QED
    BY <2>3
<1>4. ASSUME NEW n \in N PROVE n + 1 \in N
  <2>1. PICK g : SumsOf(g, f, Upto(n))
    OBVIOUS
  <2> DEFINE h == [s \in Upto(n + 1) |-> IF s = {} THEN 0 ELSE f[Pick(s)] + g[s \ {Pick(s)}]]
  <2>2. \A s \in Upto(n) : g[s] = h[s]
    <3>1. \A s \in Upto(n) : s \in Upto(n + 1)
      BY <1>1
    <3> QED
      BY <2>1, <3>1 DEF SumsOf
  <2>3. \A s \in Upto(n + 1) : s # {} => s \ {Pick(s)} \in Upto(n)
    BY <1>1, <1>2
  <2>4. h = [s \in Upto(n + 1) |-> IF s = {} THEN 0 ELSE f[Pick(s)] + h[s \ {Pick(s)}]]
    BY <2>2, <2>3
  <2>5. SumsOf(h, f, Upto(n + 1))
    BY <2>4 DEF SumsOf
  <2>6. \E k : SumsOf(k, f, Upto(n + 1))
    <3> HIDE DEF h, Upto
    <3> QED
      BY <2>5
  <2>7. n + 1 \in Nat
    OBVIOUS
  <2> QED
    <3> HIDE DEF Upto
    <3> QED
      BY <2>6, <2>7
<1>5. N = Nat
  <2> HIDE DEF N
  <2> QED
    BY <1>3, <1>4, SetOfNaturals, N \in SUBSET Nat DEF N
<1>6. Upto(Cardinality(S)) = SUBSET S
  BY <1>1
<1>7. \E g : SumsOf(g, f, SUBSET S)
  BY <1>1, <1>5, <1>6
<1> QED
  BY <1>7 DEF Sums

(* The partial sums, set by set.                                           *)
LEMMA SumsUnfold ==
    ASSUME NEW S, IsFiniteSet(S), NEW f \in [S -> Nat]
    PROVE  /\ Sums(f)[{}] = 0
           /\ \A s \in SUBSET S : s # {} =>
                 /\ Pick(s) \in s
                 /\ Sums(f)[s] = f[Pick(s)] + Sums(f)[s \ {Pick(s)}]
<1>1. DOMAIN f = S
  OBVIOUS
<1>2. SumsOf(Sums(f), f, SUBSET S)
  BY <1>1, SumsExist
<1> QED
  BY <1>2, PickIsMember DEF SumsOf

(* A sum of natural numbers is a natural number.                           *)
LEMMA SumType ==
    ASSUME NEW S, IsFiniteSet(S), NEW f \in [S -> Nat]
    PROVE  SumFunction(f) \in Nat
<1> DEFINE Good == {s \in SUBSET S : Sums(f)[s] \in Nat}
<1>1. {} \in Good
  BY SumsUnfold
<1>2. ASSUME NEW s \in SUBSET S, s # {}, s \ {Pick(s)} \in Good
      PROVE  s \in Good
  <2>1. Pick(s) \in S /\ Sums(f)[s] = f[Pick(s)] + Sums(f)[s \ {Pick(s)}]
    BY <1>2, SumsUnfold
  <2> QED
    BY <1>2, <2>1
<1>3. Good = SUBSET S
  <2>1. Good \in SUBSET (SUBSET S)
    OBVIOUS
  <2> HIDE DEF Good
  <2> QED
    BY <1>1, <1>2, <2>1, SubsetInduction
<1> QED
  BY <1>3, SumIsFold, DOMAIN f = S

(* A sum in which one term changes changes by the difference.              *)
LEMMA SumChange ==
    ASSUME NEW S, IsFiniteSet(S), NEW t \in S,
           NEW f \in [S -> Nat], NEW h \in [S -> Nat],
           \A u \in S : u # t => h[u] = f[u]
    PROVE  SumFunction(h) = SumFunction(f) + h[t] - f[t]
<1> DEFINE Good == {s \in SUBSET S :
                     /\ Sums(f)[s] \in Nat
                     /\ Sums(h)[s] = Sums(f)[s] + (IF t \in s THEN h[t] - f[t] ELSE 0)}
<1>1. {} \in Good
  BY SumsUnfold
<1>2. ASSUME NEW s \in SUBSET S, s # {}, s \ {Pick(s)} \in Good
      PROVE  s \in Good
  <2>1. /\ Pick(s) \in s
        /\ Sums(f)[s] = f[Pick(s)] + Sums(f)[s \ {Pick(s)}]
        /\ Sums(h)[s] = h[Pick(s)] + Sums(h)[s \ {Pick(s)}]
    BY <1>2, SumsUnfold
  <2>2. CASE Pick(s) = t
    BY <1>2, <2>1, <2>2
  <2>3. CASE Pick(s) # t
    BY <1>2, <2>1, <2>3
  <2> QED
    BY <2>2, <2>3
<1>3. Good = SUBSET S
  <2>1. Good \in SUBSET (SUBSET S)
    OBVIOUS
  <2> HIDE DEF Good
  <2> QED
    BY <1>1, <1>2, <2>1, SubsetInduction
<1>4. S \in Good
  BY <1>3
<1> QED
  BY <1>4, SumIsFold, DOMAIN f = S, DOMAIN h = S

(* No term exceeds the sum.                                                *)
LEMMA SumBound ==
    ASSUME NEW S, IsFiniteSet(S), NEW t \in S, NEW f \in [S -> Nat]
    PROVE  f[t] <= SumFunction(f)
<1> DEFINE h == [f EXCEPT ![t] = 0]
<1>1. h \in [S -> Nat] /\ h[t] = 0 /\ \A u \in S : u # t => h[u] = f[u]
  OBVIOUS
<1> HIDE DEF h
<1>2. SumFunction(h) = SumFunction(f) + h[t] - f[t]
  BY <1>1, SumChange
<1>3. SumFunction(h) \in Nat /\ SumFunction(f) \in Nat
  BY <1>1, SumType
<1> QED
  BY <1>1, <1>2, <1>3

(* The sum of two functions is the sum of the terms' sums.                 *)
LEMMA SumAdd ==
    ASSUME NEW S, IsFiniteSet(S),
           NEW f \in [S -> Nat], NEW g \in [S -> Nat], NEW h \in [S -> Nat],
           \A u \in S : h[u] = f[u] + g[u]
    PROVE  SumFunction(h) = SumFunction(f) + SumFunction(g)
<1> DEFINE Good == {s \in SUBSET S :
                     /\ Sums(f)[s] \in Nat /\ Sums(g)[s] \in Nat
                     /\ Sums(h)[s] = Sums(f)[s] + Sums(g)[s]}
<1>1. {} \in Good
  BY SumsUnfold
<1>2. ASSUME NEW s \in SUBSET S, s # {}, s \ {Pick(s)} \in Good
      PROVE  s \in Good
  <2>1. /\ Pick(s) \in S
        /\ Sums(f)[s] = f[Pick(s)] + Sums(f)[s \ {Pick(s)}]
        /\ Sums(g)[s] = g[Pick(s)] + Sums(g)[s \ {Pick(s)}]
        /\ Sums(h)[s] = h[Pick(s)] + Sums(h)[s \ {Pick(s)}]
    BY <1>2, SumsUnfold
  <2> QED
    BY <1>2, <2>1
<1>3. Good = SUBSET S
  <2>1. Good \in SUBSET (SUBSET S)
    OBVIOUS
  <2> HIDE DEF Good
  <2> QED
    BY <1>1, <1>2, <2>1, SubsetInduction
<1>4. S \in Good
  BY <1>3
<1> QED
  BY <1>4, SumIsFold, DOMAIN f = S, DOMAIN g = S, DOMAIN h = S

(* A sum of zeroes is zero.                                                *)
LEMMA SumZero ==
    ASSUME NEW S, IsFiniteSet(S), NEW f \in [S -> Nat], \A u \in S : f[u] = 0
    PROVE  SumFunction(f) = 0
<1>1. SumFunction(f) = SumFunction(f) + SumFunction(f)
  BY SumAdd
<1> QED
  BY <1>1, SumType

-----------------------------------------------------------------------------
(* What the columns of the three tables and the workers' fields may hold.   *)
Rows == [status : Statuses, kind : {"none", "agent", "runner"}, attempt : 0 .. MaxAttempts,
         token : Nat, live : BOOLEAN, overdue : BOOLEAN, cancel : BOOLEAN,
         consumed : Nat, max : Nat, link : Nat]

Reservations == [status : {"none", "active", "settled", "released"},
                 remaining : Nat, settled : Nat]

Pcs == {"idle", "leased", "creating", "linking", "executing", "renewing", "pausing",
        "stepped", "completing", "failing", "giveup"} \cup Outcomes

Works == [pc : Pcs, task : Nat, token : Nat, spent : Nat, left : Int]

(* A row by itself: the lease token is that of the latest attempt, only     *)
(* work that is leased waits with a cancellation request, and no more is    *)
(* consumed than the maximum.                                               *)
RowFits(r) ==
    /\ r.token = IF r.status \in Active THEN r.attempt ELSE 0
    /\ r.live => r.status \in Active
    /\ r.cancel => r.status \in Active \cup Terminal
    /\ r.max \in Costs \cup {0} /\ r.consumed <= r.max
    /\ r.link <= r.attempt
    /\ r.status = "absent" => r = NoTask

(* The reservation `q` of a row.                                            *)
ReservationFits(r, q) ==
    /\ (q.status = "active") <=> (r.max > 0 /\ r.status \notin Terminal)
    /\ q.settled = r.consumed
    /\ q.remaining = IF r.status \in Terminal THEN 0 ELSE r.max - r.consumed

RowOK(r, q) == RowFits(r) /\ ReservationFits(r, q)

(* A worker that is not idle has been given its task, in an attempt of it.  *)
WorkerOK(w) ==
    /\ (wk[w].pc = "idle") <=> (wk[w].task = 0)
    /\ wk[w].task # 0 => /\ wk[w].task \in Tasks
                         /\ wk[w].token \in 1 .. task[wk[w].task].attempt
                         /\ task[wk[w].task].kind = KindOf(w)

(* Tasks are created in the order of their numbers.                         *)
Created == {t \in Tasks : task[t].status # "absent"}

CreatedInOrder == \A t \in Tasks : t \in Created <=> t <= Cardinality(Created)

(* What is reserved and consumed stays within a hard limit.                 *)
WithinLimit == HardLimit => team.consumed + team.reserved <= Limit

(* The inductive invariant: of the store, of the workers, of the turns.     *)
StoreOK ==
    /\ task \in [Tasks -> Rows]
    /\ resv \in [Tasks -> Reservations]
    /\ team \in [reserved : Nat, consumed : Nat, other : Nat, enabled : BOOLEAN]
    /\ \A t \in Tasks : RowOK(task[t], resv[t])
    /\ BudgetConserved
    /\ CreatedInOrder
    /\ WithinLimit

WorkOK ==
    /\ wk \in [Workers -> Works]
    /\ \A w \in Workers : WorkerOK(w)

TurnsOK ==
    /\ turn \in [Tasks -> [id : Nat, state : {"closed", "open", "awaiting"}]]
    /\ resume \in [Tasks -> [id : Nat, state : {"none", "running", "completed", "failed"}]]

IInv == StoreOK /\ WorkOK /\ TurnsOK

(* The reservation of `t` becomes `q`, and the difference is booked on the  *)
(* team's totals.                                                           *)
Booked(t, q) ==
    /\ resv' = [resv EXCEPT ![t] = q]
    /\ team' = [team EXCEPT !.consumed = @ + (q.settled - resv[t].settled),
                            !.reserved = @ - (resv[t].remaining - q.remaining)]

(* A transaction on the row `t`, which is not over: its new content is `r`, *)
(* that of its reservation `q`.                                             *)
RowStep(t, r, q) ==
    /\ t \in Tasks /\ r \in Rows /\ q \in Reservations
    /\ task[t].status \notin Terminal \cup {"absent"}
    /\ r.status # "absent" /\ r.kind = task[t].kind /\ r.max = task[t].max
    /\ r.attempt >= task[t].attempt /\ r.consumed >= task[t].consumed
    /\ RowOK(r, q)
    /\ task' = [task EXCEPT ![t] = r]
    /\ Booked(t, q)

(* The changes of the store other than to one row.                          *)
Creates == \E kind \in Kinds, max \in Costs : Create(kind, max)
Consumes == \E n \in Costs : Consume(n)
Switches == \E enabled \in BOOLEAN : SetEnabled(enabled)

StoreStep ==
    \/ UNCHANGED store
    \/ \E t \in Tasks : \E r \in Rows, q \in Reservations : RowStep(t, r, q)
    \/ Creates \/ Consumes \/ Switches

(* There are finitely many tasks.                                           *)
LEMMA TasksFinite ==
    IsFiniteSet(Tasks) /\ Tasks \subseteq Nat \ {0}
<1>1. MaxTasks \in Nat /\ 1 \in Int /\ MaxTasks \in Int
  BY ConstantsAssumption
<1>2. IsFiniteSet(1 .. MaxTasks)
  BY <1>1, FS_Interval
<1> QED
  BY <1>1, <1>2 DEF Tasks

(* A total over the tasks in which one term changes.                        *)
LEMMA TotalChange ==
    ASSUME NEW t \in Tasks, NEW f \in [Tasks -> Nat], NEW h \in [Tasks -> Nat],
           \A u \in Tasks : u # t => h[u] = f[u]
    PROVE  SumFunction(h) = SumFunction(f) + h[t] - f[t]
<1>1. IsFiniteSet(Tasks)
  BY TasksFinite
<1> QED
  BY <1>1, SumChange, Zenon

(* The terms of the totals are natural numbers.                             *)
LEMMA TermsType ==
    ASSUME resv \in [Tasks -> Reservations]
    PROVE  /\ [t \in Tasks |-> resv[t].remaining] \in [Tasks -> Nat]
           /\ [t \in Tasks |-> resv[t].settled] \in [Tasks -> Nat]
  BY DEF Reservations

(* A transaction on one row keeps the store in order.                       *)
LEMMA RowStepKeeps ==
    ASSUME StoreOK, NEW t \in Tasks, NEW r \in Rows, NEW q \in Reservations, RowStep(t, r, q)
    PROVE  StoreOK'
<1>1. /\ task' \in [Tasks -> Rows] /\ resv' \in [Tasks -> Reservations]
      /\ task'[t] = r /\ resv'[t] = q
      /\ \A u \in Tasks : u # t => task'[u] = task[u] /\ resv'[u] = resv[u]
  BY DEF RowStep, Booked, StoreOK
<1>2. \A u \in Tasks : RowOK(task'[u], resv'[u])
  BY <1>1 DEF RowStep, StoreOK
<1> DEFINE left == [u \in Tasks |-> resv[u].remaining]
           paid == [u \in Tasks |-> resv[u].settled]
           left2 == [u \in Tasks |-> resv'[u].remaining]
           paid2 == [u \in Tasks |-> resv'[u].settled]
<1>3. /\ left \in [Tasks -> Nat] /\ paid \in [Tasks -> Nat]
      /\ left2 \in [Tasks -> Nat] /\ paid2 \in [Tasks -> Nat]
  BY <1>1 DEF StoreOK, Reservations
<1>4. /\ left[t] = resv[t].remaining /\ left2[t] = q.remaining
      /\ paid[t] = resv[t].settled /\ paid2[t] = q.settled
      /\ \A u \in Tasks : u # t => left2[u] = left[u] /\ paid2[u] = paid[u]
  BY <1>1
<1>5. /\ SumFunction(left) = team.reserved
      /\ team.consumed = team.other + SumFunction(paid)
  BY DEF StoreOK, BudgetConserved
<1> HIDE DEF left, paid, left2, paid2
<1>6. /\ SumFunction(left2) = SumFunction(left) + left2[t] - left[t]
      /\ SumFunction(paid2) = SumFunction(paid) + paid2[t] - paid[t]
  <2>1. \A u \in Tasks : u # t => left2[u] = left[u]
    BY <1>4
  <2>2. \A u \in Tasks : u # t => paid2[u] = paid[u]
    BY <1>4
  <2>3. SumFunction(left2) = SumFunction(left) + left2[t] - left[t]
    BY <1>3, <2>1, TotalChange
  <2>4. SumFunction(paid2) = SumFunction(paid) + paid2[t] - paid[t]
    BY <1>3, <2>2, TotalChange
  <2> QED
    BY <2>3, <2>4
<1>7. /\ SumFunction(left) \in Nat /\ SumFunction(paid) \in Nat
      /\ SumFunction(left2) \in Nat /\ SumFunction(paid2) \in Nat
  BY <1>3, TasksFinite, SumType
<1>8. /\ team'.reserved = team.reserved - (resv[t].remaining - q.remaining)
      /\ team'.consumed = team.consumed + (q.settled - resv[t].settled)
      /\ team'.other = team.other /\ team'.enabled = team.enabled
      /\ DOMAIN team' = {"reserved", "consumed", "other", "enabled"}
      /\ team' = [team EXCEPT !.consumed = team'.consumed, !.reserved = team'.reserved]
  BY DEF RowStep, Booked, StoreOK
<1>9. /\ resv[t].remaining \in Nat /\ q.remaining \in Nat
      /\ resv[t].settled \in Nat /\ q.settled \in Nat
      /\ team.reserved \in Nat /\ team.consumed \in Nat /\ team.other \in Nat
  BY DEF StoreOK, Reservations
<1>10. /\ team'.reserved = SumFunction(left2)
       /\ team'.consumed = team.other + SumFunction(paid2)
  BY <1>4, <1>5, <1>6, <1>7, <1>8, <1>9
<1>11. team' \in [reserved : Nat, consumed : Nat, other : Nat, enabled : BOOLEAN]
  <2>1. team'.reserved \in Nat /\ team'.consumed \in Nat
    BY <1>7, <1>9, <1>10
  <2> QED
    BY <1>8, <2>1 DEF StoreOK
<1>12. BudgetConserved'
  BY <1>8, <1>10 DEF BudgetConserved, left2, paid2
<1>13. CreatedInOrder'
  <2>1. Created' = Created
    BY <1>1 DEF Created, RowStep
  <2> QED
    BY <2>1 DEF CreatedInOrder, StoreOK
<1>14. WithinLimit'
  <2>1. q.settled + q.remaining <= resv[t].settled + resv[t].remaining
    <3>1. RowOK(task[t], resv[t]) /\ RowOK(r, q) /\ r.max = task[t].max
          /\ task[t].status \notin Terminal
      BY DEF RowStep, Booked, StoreOK
    <3>2. task[t].max \in Nat /\ task[t].consumed \in Nat /\ r.consumed \in Nat
      BY DEF StoreOK, Rows
    <3>3. /\ resv[t].settled = task[t].consumed
          /\ resv[t].remaining = task[t].max - task[t].consumed
      BY <3>1 DEF RowOK, RowFits, ReservationFits
    <3>4. /\ q.settled = r.consumed /\ r.consumed <= r.max
          /\ q.remaining = 0 \/ q.remaining = r.max - r.consumed
      BY <3>1 DEF RowOK, RowFits, ReservationFits
    <3> QED
      BY <1>9, <3>1, <3>2, <3>3, <3>4
  <2> QED
    BY <1>8, <1>9, <2>1, ConstantsAssumption DEF WithinLimit, StoreOK
<1> QED
  BY <1>1, <1>2, <1>11, <1>12, <1>13, <1>14 DEF StoreOK

(* The row that create_durable_task inserts is one that does not exist yet. *)
LEMMA NextRow ==
    ASSUME StoreOK, NEW kind, NEW max, Create(kind, max)
    PROVE  /\ IsFiniteSet(Created) /\ Cardinality(Created) \in Nat
           /\ \E t \in Tasks :
                 /\ t = Cardinality(Created) + 1 /\ t \notin Created /\ task[t] = NoTask
                 /\ task' = [task EXCEPT ![t] = [NoTask EXCEPT !.status = "queued",
                                                    !.kind = kind, !.max = max]]
<1>1. IsFiniteSet(Created) /\ Cardinality(Created) \in Nat
  BY TasksFinite, FS_Subset, FS_CardinalityType, Created \subseteq Tasks DEF Created
<1>2. PICK t \in Tasks : t = Cardinality(Created) + 1
  BY DEF Create, Created
<1>3. t \notin Created /\ task[t] = NoTask
  BY <1>1, <1>2 DEF StoreOK, CreatedInOrder, Created, RowOK, RowFits
<1> QED
  BY <1>1, <1>2, <1>3 DEF Create, Created

(* create_durable_task opens the next row with its whole maximum reserved.  *)
LEMMA CreateKeeps ==
    ASSUME StoreOK, NEW kind \in Kinds, NEW max \in Costs, Create(kind, max)
    PROVE  StoreOK'
<1> DEFINE n == Cardinality(Created)
<1>1. IsFiniteSet(Created) /\ n \in Nat
  BY NextRow
<1>2. PICK t \in Tasks : t = n + 1 /\ t \notin Created /\ task[t] = NoTask
  BY NextRow
<1>3. t \notin Created /\ task[t] = NoTask
  BY <1>2
<1>4. resv[t].settled = 0 /\ resv[t].remaining = 0 /\ resv[t].status # "active"
  BY <1>3 DEF StoreOK, RowOK, RowFits, ReservationFits, NoTask, Terminal
<1> DEFINE r == [NoTask EXCEPT !.status = "queued", !.kind = kind, !.max = max]
           q == IF max = 0 THEN resv[t] ELSE [status |-> "active", remaining |-> max, settled |-> 0]
<1>5. max \in Nat /\ kind \in {"agent", "runner"} /\ 0 \in 0 .. MaxAttempts
  BY ConstantsAssumption
<1>6. /\ r.status = "queued" /\ r.kind = kind /\ r.max = max /\ r.consumed = 0
      /\ r.token = 0 /\ r.attempt = 0 /\ r.link = 0 /\ r.live = FALSE /\ r.cancel = FALSE
      /\ r \in Rows
  BY <1>5 DEF NoTask, Rows, Statuses
<1>7. /\ q.settled = 0 /\ q.remaining = max /\ q \in Reservations
      /\ (q.status = "active") <=> (max > 0)
  BY <1>4, <1>5 DEF StoreOK, Reservations
<1>8. task' = [task EXCEPT ![t] = r] /\ resv' = [resv EXCEPT ![t] = q]
  BY <1>2, <1>3 DEF Create, Created, StoreOK
<1>9. /\ team' \in [reserved : Nat, consumed : Nat, other : Nat, enabled : BOOLEAN]
      /\ team'.reserved = team.reserved + max
      /\ team'.consumed = team.consumed /\ team'.other = team.other
      /\ HardLimit /\ max > 0 => team.consumed + team.reserved + max <= Limit
  BY <1>5 DEF Create, StoreOK
<1>10. RowOK(r, q)
  BY <1>5, <1>6, <1>7 DEF RowOK, RowFits, ReservationFits, Active, Terminal
<1> HIDE DEF r, q, n
<1>11. /\ task' \in [Tasks -> Rows] /\ resv' \in [Tasks -> Reservations]
       /\ task'[t] = r /\ resv'[t] = q
       /\ \A u \in Tasks : u # t => task'[u] = task[u] /\ resv'[u] = resv[u]
  BY <1>6, <1>7, <1>8 DEF StoreOK
<1>12. \A u \in Tasks : RowOK(task'[u], resv'[u])
  BY <1>10, <1>11 DEF StoreOK
<1>13. BudgetConserved'
  <2> DEFINE left == [u \in Tasks |-> resv[u].remaining]
             paid == [u \in Tasks |-> resv[u].settled]
             left2 == [u \in Tasks |-> resv'[u].remaining]
             paid2 == [u \in Tasks |-> resv'[u].settled]
  <2>1. /\ left \in [Tasks -> Nat] /\ left2 \in [Tasks -> Nat]
        /\ \A u \in Tasks : u # t => left2[u] = left[u]
        /\ left2[t] = max /\ left[t] = 0
    BY <1>4, <1>7, <1>11 DEF StoreOK, Reservations
  <2>2. paid2 = paid
    BY <1>4, <1>7, <1>11
  <2>3. /\ SumFunction(left) = team.reserved
        /\ team.consumed = team.other + SumFunction(paid)
    BY DEF StoreOK, BudgetConserved
  <2> HIDE DEF left, left2, paid, paid2
  <2>4. SumFunction(left2) = SumFunction(left) + left2[t] - left[t]
    BY <2>1, TotalChange
  <2>5. SumFunction(left2) = team'.reserved
    BY <1>5, <1>9, <2>1, <2>3, <2>4 DEF StoreOK
  <2> QED
    BY <1>9, <2>2, <2>3, <2>5 DEF BudgetConserved, left2, paid2
<1>14. CreatedInOrder'
  <2>1. Created' = Created \cup {t}
    BY <1>6, <1>11 DEF Created
  <2>2. Cardinality(Created') = n + 1
    BY <1>1, <1>3, <2>1, FS_AddElement DEF n
  <2>3. \A u \in Tasks : u \in Nat
    BY TasksFinite
  <2>4. \A u \in Tasks : u \in Created <=> u <= n
    BY DEF StoreOK, CreatedInOrder, n
  <2>5. \A u \in Tasks : u \in Created' <=> u <= n + 1
    BY <1>1, <1>2, <2>1, <2>3, <2>4
  <2> QED
    BY <2>2, <2>5 DEF CreatedInOrder
<1>15. WithinLimit'
  BY <1>5, <1>9 DEF WithinLimit, StoreOK
<1> QED
  BY <1>9, <1>11, <1>12, <1>13, <1>14, <1>15 DEF StoreOK

(* consume_team_budget.                                                     *)
LEMMA ConsumeKeeps ==
    ASSUME StoreOK, NEW n \in Costs, Consume(n)
    PROVE  StoreOK'
<1>1. n \in Nat
  BY ConstantsAssumption
<1>2. /\ team' \in [reserved : Nat, consumed : Nat, other : Nat, enabled : BOOLEAN]
      /\ team'.reserved = team.reserved
      /\ team'.consumed = team.consumed + n /\ team'.other = team.other + n
      /\ HardLimit => team.consumed + team.reserved + n <= Limit
      /\ UNCHANGED <<task, resv>>
  <2>1. /\ team \in [reserved : Nat, consumed : Nat, other : Nat, enabled : BOOLEAN]
        /\ team' = [team EXCEPT !.consumed = @ + n, !.other = @ + n]
    BY DEF Consume, StoreOK
  <2>2. /\ HardLimit => team.consumed + team.reserved + n <= Limit
        /\ UNCHANGED <<task, resv>>
    BY DEF Consume
  <2>3. /\ team'.reserved = team.reserved /\ team'.enabled = team.enabled
        /\ team'.consumed = team.consumed + n /\ team'.other = team.other + n
    BY <2>1
  <2>4. team.consumed + n \in Nat /\ team.other + n \in Nat
    BY <1>1, <2>1
  <2>5. team' \in [reserved : Nat, consumed : Nat, other : Nat, enabled : BOOLEAN]
    BY <2>1, <2>4
  <2> QED
    BY <2>2, <2>3, <2>5
<1>3. BudgetConserved'
  <2>1. SumFunction([t \in Tasks |-> resv[t].settled]) \in Nat
    BY TermsType, TasksFinite, SumType DEF StoreOK
  <2> QED
    BY <1>1, <1>2, <2>1 DEF StoreOK, BudgetConserved
<1>4. WithinLimit'
  BY <1>1, <1>2, ConstantsAssumption DEF WithinLimit, StoreOK
<1>5. CreatedInOrder'
  BY <1>2 DEF CreatedInOrder, Created, StoreOK
<1> QED
  BY <1>2, <1>3, <1>4, <1>5 DEF StoreOK

(* The rows after the kill switch: those that are not over are cancelled.   *)
LEMMA SwitchRows ==
    ASSUME StoreOK, NEW enabled \in BOOLEAN, SetEnabled(enabled)
    PROVE  /\ team'.other = team.other
           /\ \A t \in Tasks :
                 IF enabled \/ task[t].status \in Terminal \cup {"absent"} THEN task'[t] = task[t]
                 ELSE /\ task'[t].status = "cancelled" /\ task'[t].max = task[t].max
                      /\ task'[t].consumed = task[t].consumed /\ task'[t].kind = task[t].kind
                      /\ task'[t].attempt = task[t].attempt
<1>1. CASE enabled
  BY <1>1 DEF SetEnabled, StoreOK
<1>2. CASE ~enabled
  <2>1. task' = [t \in Tasks |-> IF task[t].status \in Terminal \cup {"absent"} THEN task[t]
                                ELSE [task[t] EXCEPT !.status = "cancelled", !.cancel = TRUE,
                                                     !.token = 0, !.live = FALSE]]
    BY <1>2 DEF SetEnabled
  <2>2. \A t \in Tasks : task[t] \in Rows
    BY DEF StoreOK
  <2>3. team'.other = team.other
    BY <1>2 DEF SetEnabled, StoreOK
  <2> QED
    BY <1>2, <2>1, <2>2, <2>3 DEF Rows
<1> QED
  BY <1>1, <1>2

(* set_team_durable_tasks_enabled: the switch leaves no reservation active. *)
LEMMA SwitchKeeps ==
    ASSUME StoreOK, NEW enabled \in BOOLEAN, SetEnabled(enabled)
    PROVE  StoreOK'
<1>1. CASE enabled
  <2>1. /\ team' \in [reserved : Nat, consumed : Nat, other : Nat, enabled : BOOLEAN]
        /\ team'.reserved = team.reserved /\ team'.consumed = team.consumed
        /\ team'.other = team.other /\ UNCHANGED <<task, resv>>
    BY <1>1 DEF SetEnabled, StoreOK
  <2> QED
    BY <2>1 DEF StoreOK, BudgetConserved, CreatedInOrder, Created, WithinLimit
<1>2. CASE ~enabled
  <2> DEFINE left == [t \in Tasks |-> resv[t].remaining]
             active == [t \in Tasks |-> IF resv[t].status = "active" THEN resv[t].remaining ELSE 0]
             Over(t) == task[t].status \in Terminal \cup {"absent"}
  <2>1. \A t \in Tasks : resv[t].status # "active" => resv[t].remaining = 0
    <3> TAKE t \in Tasks
    <3>1. RowOK(task[t], resv[t]) /\ task[t].max \in Nat /\ task[t].consumed \in Nat
      BY DEF StoreOK, Rows
    <3> QED
      BY <3>1 DEF RowOK, RowFits, ReservationFits
  <2>2. active = left
    BY <2>1
  <2>3. /\ team' = [team EXCEPT !.enabled = FALSE, !.reserved = @ - SumFunction(active)]
        /\ resv' = [t \in Tasks |-> IF Over(t) \/ resv[t].status # "active" THEN resv[t]
                                    ELSE [resv[t] EXCEPT !.remaining = 0, !.status = "released"]]
        /\ task' = [t \in Tasks |-> IF Over(t) THEN task[t]
                                    ELSE [task[t] EXCEPT !.status = "cancelled", !.cancel = TRUE,
                                                         !.token = 0, !.live = FALSE]]
    BY <1>2 DEF SetEnabled
  <2>4. SumFunction(left) = team.reserved
    BY DEF StoreOK, BudgetConserved
  <2>5. /\ team' \in [reserved : Nat, consumed : Nat, other : Nat, enabled : BOOLEAN]
        /\ team'.reserved = 0 /\ team'.consumed = team.consumed /\ team'.other = team.other
    <3> HIDE DEF active, left
    <3>1. SumFunction(active) = team.reserved
      BY <2>2, <2>4
    <3>2. team \in [reserved : Nat, consumed : Nat, other : Nat, enabled : BOOLEAN]
      BY DEF StoreOK
    <3>3. team.reserved - team.reserved = 0
      BY <3>2
    <3>4. team' = [team EXCEPT !.enabled = FALSE, !.reserved = 0]
      BY <2>3, <3>1, <3>3
    <3> QED
      BY <3>2, <3>4
  <2>6. /\ resv' \in [Tasks -> Reservations]
        /\ \A t \in Tasks : /\ resv'[t].remaining = 0 /\ resv'[t].settled = resv[t].settled
                            /\ resv'[t].status # "active"
    <3>1. resv' \in [Tasks -> Reservations]
      BY <2>3 DEF StoreOK, Reservations
    <3>2. ASSUME NEW t \in Tasks
          PROVE /\ resv'[t].remaining = 0 /\ resv'[t].settled = resv[t].settled
                /\ resv'[t].status # "active"
      <4>1. CASE resv[t].status # "active"
        BY <2>1, <2>3, <4>1
      <4>2. CASE resv[t].status = "active"
        <5>1. ~Over(t)
          BY <4>2 DEF StoreOK, RowOK, RowFits, ReservationFits, NoTask
        <5>2. resv'[t] = [resv[t] EXCEPT !.remaining = 0, !.status = "released"]
          BY <2>3, <4>2, <5>1
        <5>3. resv[t] \in Reservations
          BY DEF StoreOK
        <5> QED
          BY <5>2, <5>3 DEF Reservations
      <4> QED
        BY <4>1, <4>2
    <3> QED
      BY <3>1, <3>2
  <2>7. task' \in [Tasks -> Rows]
    <3>1. ASSUME NEW t \in Tasks
          PROVE [task[t] EXCEPT !.status = "cancelled", !.cancel = TRUE,
                                !.token = 0, !.live = FALSE] \in Rows
      <4>1. task[t] \in Rows
        BY DEF StoreOK
      <4>2. ASSUME NEW p \in Rows
            PROVE [p EXCEPT !.status = "cancelled", !.cancel = TRUE,
                            !.token = 0, !.live = FALSE] \in Rows
        <5>1. \A o \in Rows : [o EXCEPT !.status = "cancelled"] \in Rows
          BY DEF Rows, Statuses
        <5>2. \A o \in Rows : [o EXCEPT !.cancel = TRUE] \in Rows
          BY DEF Rows
        <5>3. \A o \in Rows : [o EXCEPT !.token = 0] \in Rows
          BY DEF Rows
        <5>4. \A o \in Rows : [o EXCEPT !.live = FALSE] \in Rows
          BY DEF Rows
        <5>5. [[p EXCEPT !.status = "cancelled"] EXCEPT !.cancel = TRUE] \in Rows
          BY <5>1, <5>2
        <5>6. [[p EXCEPT !.status = "cancelled", !.cancel = TRUE] EXCEPT !.token = 0] \in Rows
          BY <5>3, <5>5
        <5> QED
          BY <5>4, <5>6
      <4> QED
        BY <4>1, <4>2
    <3>2. \A t \in Tasks : task[t] \in Rows
      BY DEF StoreOK
    <3> QED
      BY <2>3, <3>1, <3>2
  <2>8. ASSUME NEW t \in Tasks PROVE RowOK(task'[t], resv'[t])
    <3>1. RowOK(task[t], resv[t])
      BY DEF StoreOK
    <3>2. CASE Over(t)
      <4>1. task'[t] = task[t]
        BY <2>3, <3>2
      <4>2. resv[t].status # "active"
        BY <3>1, <3>2 DEF RowOK, RowFits, ReservationFits, NoTask
      <4>3. resv'[t] = resv[t]
        BY <2>3, <4>2
      <4> QED
        BY <3>1, <4>1, <4>3
    <3>3. CASE ~Over(t)
      <4> DEFINE r == task'[t]
      <4>1. /\ r.status = "cancelled" /\ r.cancel = TRUE /\ r.token = 0 /\ r.live = FALSE
            /\ r.max = task[t].max /\ r.consumed = task[t].consumed
            /\ r.link = task[t].link /\ r.attempt = task[t].attempt
        BY <2>3, <3>3, ZenonT(60) DEF StoreOK, Rows
      <4> HIDE DEF r
      <4>2. RowOK(r, resv'[t])
        BY <2>6, <3>1, <4>1 DEF RowOK, RowFits, ReservationFits, Active, Terminal
      <4> QED
        BY <4>2 DEF r
    <3> QED
      BY <3>2, <3>3
  <2>9. BudgetConserved'
    <3>1. [t \in Tasks |-> resv'[t].settled] = [t \in Tasks |-> resv[t].settled]
      BY <2>6
    <3>2. SumFunction([t \in Tasks |-> resv'[t].remaining]) = 0
      <4> DEFINE f == [t \in Tasks |-> resv'[t].remaining]
      <4>1. f \in [Tasks -> Nat] /\ \A t \in Tasks : f[t] = 0
        BY <2>6
      <4> HIDE DEF f
      <4>2. SumFunction(f) = 0
        BY <4>1, TasksFinite, SumZero
      <4> QED
        BY <4>2 DEF f
    <3> QED
      BY <2>5, <3>1, <3>2 DEF BudgetConserved, StoreOK
  <2>10. CreatedInOrder'
    <3>1. \A t \in Tasks : (task'[t].status = "absent") <=> (task[t].status = "absent")
      BY <2>3 DEF StoreOK, Rows
    <3>2. Created' = Created
      BY <3>1 DEF Created
    <3> QED
      BY <3>2 DEF CreatedInOrder, StoreOK
  <2>11. WithinLimit'
    BY <2>5, ConstantsAssumption DEF WithinLimit, StoreOK
  <2> QED
    BY <2>5, <2>6, <2>7, <2>8, <2>9, <2>10, <2>11 DEF StoreOK
<1> QED
  BY <1>1, <1>2

(* Whatever a step does to the store keeps it in order.                     *)
LEMMA StoreStepKeeps ==
    ASSUME StoreOK, StoreStep
    PROVE  StoreOK'
<1>1. CASE UNCHANGED store
  BY <1>1 DEF store, StoreOK, BudgetConserved, CreatedInOrder, Created, WithinLimit
<1>2. CASE \E t \in Tasks : \E r \in Rows, q \in Reservations : RowStep(t, r, q)
  BY <1>2, RowStepKeeps
<1>3. CASE Creates
  BY <1>3, CreateKeeps DEF Creates
<1>4. CASE Consumes
  BY <1>4, ConsumeKeeps DEF Consumes
<1>5. CASE Switches
  BY <1>5, SwitchKeeps DEF Switches
<1> QED
  BY <1>1, <1>2, <1>3, <1>4, <1>5 DEF StoreStep

-----------------------------------------------------------------------------
(* Settlements.                                                             *)

(* Booking a difference of zero changes nothing.                            *)
LEMMA NothingBooked ==
    ASSUME NEW x \in Nat, NEW y \in Nat,
           team \in [reserved : Nat, consumed : Nat, other : Nat, enabled : BOOLEAN]
    PROVE  team = [team EXCEPT !.consumed = @ + (x - x), !.reserved = @ - (y - y)]
<1>1. /\ team.consumed + (x - x) = team.consumed
      /\ team.reserved - (y - y) = team.reserved
  OBVIOUS
<1>2. team = [team EXCEPT !.consumed = team.consumed, !.reserved = team.reserved]
  OBVIOUS
<1> QED
  BY <1>1, <1>2

(* settle_durable_budget charges the difference to the team and, at the end *)
(* of a task, gives back what it did not use.                               *)
LEMMA SettleBooks ==
    ASSUME StoreOK, NEW t \in Tasks, task[t].status \notin Terminal \cup {"absent"},
           NEW r, r.consumed \in task[t].consumed .. task[t].max, r.max = task[t].max,
           Settle(t, r.consumed - task[t].consumed, r.status \in Terminal)
    PROVE  \E q \in Reservations : ReservationFits(r, q) /\ Booked(t, q)
<1> DEFINE d == r.consumed - task[t].consumed
<1>1. /\ task[t].max \in Nat /\ task[t].consumed \in Nat /\ r.consumed \in Nat
      /\ task[t].consumed <= r.consumed /\ r.consumed <= task[t].max
  BY DEF StoreOK, Rows
<1>2. ReservationFits(task[t], resv[t]) /\ resv[t] \in Reservations
  BY DEF StoreOK, RowOK
<1>3. /\ (resv[t].status = "active") <=> (task[t].max > 0)
      /\ resv[t].settled = task[t].consumed
      /\ resv[t].remaining = task[t].max - task[t].consumed
  BY <1>2 DEF ReservationFits
<1>4. /\ team \in [reserved : Nat, consumed : Nat, other : Nat, enabled : BOOLEAN]
      /\ resv \in [Tasks -> Reservations]
  BY DEF StoreOK
<1>5. CASE resv[t].status # "active"
  <2>1. resv' = resv /\ team' = team
    BY <1>5 DEF Settle
  <2>2. task[t].max = 0 /\ r.consumed = 0 /\ task[t].consumed = 0
    BY <1>1, <1>3, <1>5
  <2>3. ReservationFits(r, resv[t])
    BY <1>3, <1>5, <2>2 DEF ReservationFits
  <2>4. Booked(t, resv[t])
    BY <1>2, <1>4, <2>1, NothingBooked DEF Booked, Reservations
  <2> QED
    BY <1>2, <2>3, <2>4
<1>6. CASE resv[t].status = "active"
  <2>1. PICK status \in {"active", "settled"} :
           status = IF r.status \in Terminal THEN "settled" ELSE "active"
    OBVIOUS
  <2>2. PICK rest \in Nat :
           rest = IF r.status \in Terminal THEN 0 ELSE task[t].max - r.consumed
    BY <1>1
  <2> DEFINE q == [status |-> status, remaining |-> rest, settled |-> r.consumed]
  <2>3. q \in Reservations /\ ReservationFits(r, q)
    <3>1. q \in Reservations
      BY <1>1 DEF Reservations
    <3>2. task[t].max > 0
      BY <1>3, <1>6
    <3> QED
      BY <1>1, <2>1, <2>2, <3>1, <3>2 DEF ReservationFits
  <2>4. /\ d = r.consumed - resv[t].settled /\ resv[t].settled + d = r.consumed
        /\ Released(t, d, r.status \in Terminal) = resv[t].remaining - rest
        /\ resv[t].remaining - Released(t, d, r.status \in Terminal) = rest
    BY <1>1, <1>3, <2>2 DEF Released
  <2>5. resv' = [resv EXCEPT ![t] = q]
    <3>1. resv' = [resv EXCEPT
                     ![t].remaining = resv[t].remaining - Released(t, d, r.status \in Terminal),
                     ![t].settled = resv[t].settled + d,
                     ![t].status = IF r.status \in Terminal THEN "settled" ELSE resv[t].status]
      BY <1>4, <1>6 DEF Settle
    <3>2. resv' = [resv EXCEPT ![t].remaining = rest, ![t].settled = r.consumed,
                               ![t].status = status]
      BY <1>6, <2>1, <2>4, <3>1
    <3>3. [resv[t] EXCEPT !.remaining = rest, !.settled = r.consumed, !.status = status] = q
      <4> DEFINE p == [resv[t] EXCEPT !.remaining = rest, !.settled = r.consumed,
                                      !.status = status]
      <4>1. p \in Reservations /\ p.status = status /\ p.remaining = rest /\ p.settled = r.consumed
        BY <1>1, <1>2 DEF Reservations
      <4> HIDE DEF p
      <4>2. p = [status |-> p.status, remaining |-> p.remaining, settled |-> p.settled]
        BY <4>1 DEF Reservations
      <4>3. p = q
        BY <4>1, <4>2
      <4> QED
        BY <4>3 DEF p
    <3> QED
      BY <1>4, <3>2, <3>3
  <2>6. team' = [team EXCEPT !.consumed = @ + (r.consumed - resv[t].settled),
                             !.reserved = @ - (resv[t].remaining - rest)]
    <3>1. team' = [team EXCEPT !.consumed = @ + d,
                               !.reserved = @ - Released(t, d, r.status \in Terminal)]
      BY <1>6 DEF Settle
    <3> HIDE DEF d
    <3> QED
      BY <2>4, <3>1
  <2>7. Booked(t, q)
    BY <2>5, <2>6 DEF Booked
  <2> HIDE DEF q
  <2> QED
    BY <2>3, <2>7
<1> QED
  BY <1>5, <1>6

(* A change of a row that settles what it charges is a step of the store.   *)
LEMMA SettledChange ==
    ASSUME StoreOK, NEW t \in Tasks, task[t].status \notin Terminal \cup {"absent"},
           NEW r \in Rows, RowFits(r), r.status # "absent",
           r.kind = task[t].kind, r.max = task[t].max, r.attempt >= task[t].attempt,
           r.consumed >= task[t].consumed,
           task' = [task EXCEPT ![t] = r],
           Settle(t, r.consumed - task[t].consumed, r.status \in Terminal)
    PROVE  StoreStep
<1>1. r.consumed \in task[t].consumed .. task[t].max
  BY DEF RowFits, Rows, StoreOK
<1>2. PICK q \in Reservations : ReservationFits(r, q) /\ Booked(t, q)
  BY <1>1, SettleBooks
<1>3. RowOK(r, q)
  BY <1>2 DEF RowOK
<1>4. RowStep(t, r, q)
  BY <1>2, <1>3 DEF RowStep
<1> QED
  BY <1>4 DEF StoreStep

(* A change that neither charges nor ends a task leaves its reservation.    *)
LEMMA PlainChange ==
    ASSUME StoreOK, NEW t \in Tasks, task[t].status \notin Terminal \cup {"absent"},
           NEW r \in Rows, RowFits(r), r.status \notin Terminal \cup {"absent"},
           r.kind = task[t].kind, r.max = task[t].max, r.attempt >= task[t].attempt,
           r.consumed = task[t].consumed,
           task' = [task EXCEPT ![t] = r], UNCHANGED <<resv, team>>
    PROVE  StoreStep
<1>1. /\ team \in [reserved : Nat, consumed : Nat, other : Nat, enabled : BOOLEAN]
      /\ resv \in [Tasks -> Reservations] /\ resv[t] \in Reservations
      /\ task[t].consumed \in Nat
  BY DEF StoreOK, Rows
<1>2. RowOK(r, resv[t])
  BY DEF StoreOK, RowOK, ReservationFits
<1>3. Booked(t, resv[t])
  BY <1>1, NothingBooked DEF Booked, Reservations
<1>4. RowStep(t, r, resv[t])
  <2>1. r.consumed >= task[t].consumed
    BY <1>1
  <2> QED
    BY <1>1, <1>2, <1>3, <2>1 DEF RowStep
<1> QED
  BY <1>1, <1>4 DEF StoreStep

-----------------------------------------------------------------------------
(* What every action does.                                                  *)

(* A worker ends up idle, goes on with the task and the lease it has, or    *)
(* takes up another.                                                        *)
Continues(w) ==
    \/ wk'[w].pc = "idle" /\ wk'[w].task = 0
    \/ /\ wk'[w].pc # "idle" /\ wk[w].task # 0
       /\ wk'[w].task = wk[w].task /\ wk'[w].token = wk[w].token
    \/ WorkerOK(w)'

WorkStep == wk' \in [Workers -> Works] /\ \A w \in Workers : Continues(w)

(* Leased work is reported on by the worker with the latest lease.          *)
ReportOK ==
    \A t \in Tasks :
        task[t].status \in Active /\ task'[t].status \in {"succeeded", "failed", "queued"}
        => \E w \in Workers : /\ wk[w].task = t /\ wk'[w] # wk[w]
                              /\ wk[w].token = task[t].attempt

StepOK == StoreStep /\ WorkStep /\ ReportOK /\ TurnsOK'

(* A step that leaves the store alone reports nothing.                      *)
LEMMA StoreUnchanged ==
    ASSUME UNCHANGED store
    PROVE  StoreStep /\ ReportOK
  BY DEF store, StoreStep, ReportOK, Active

(* A step of one row reports nothing unless it ends a lease.                *)
LEMMA RowReports ==
    ASSUME task \in [Tasks -> Rows], NEW t \in Tasks, NEW r, task' = [task EXCEPT ![t] = r],
           \/ task[t].status \notin Active
           \/ r.status \notin {"succeeded", "failed", "queued"}
           \/ \E w \in Workers : /\ wk[w].task = t /\ wk'[w] # wk[w]
                                 /\ wk[w].token = task[t].attempt
    PROVE  ReportOK
<1>1. task'[t] = r /\ \A u \in Tasks : u # t => task'[u] = task[u]
  OBVIOUS
<1> QED
  BY <1>1 DEF ReportOK, Active

(* Workers that nothing happens to go on.                                   *)
LEMMA WorkUnchanged ==
    ASSUME WorkOK, wk' = wk
    PROVE  WorkStep
  BY DEF WorkOK, WorkStep, Continues, WorkerOK

(* A worker that makes its next call or stops.                              *)
LEMMA GotoContinues ==
    ASSUME WorkOK, NEW w \in Workers, wk[w].pc # "idle", NEW pc \in Pcs, Goto(w, pc)
    PROVE  /\ WorkStep
           /\ wk'[w].pc = pc
           /\ \A v \in Workers : v # w => wk'[v] = wk[v]
<1> DEFINE x == IF pc = "idle" THEN Idle ELSE [wk[w] EXCEPT !.pc = pc]
<1>1. wk \in [Workers -> Works] /\ wk[w] \in Works
  BY DEF WorkOK
<1>2. wk' = [wk EXCEPT ![w] = x]
  BY DEF Goto
<1>3. /\ x \in Works /\ x.pc = pc
      /\ pc # "idle" => x.task = wk[w].task /\ x.token = wk[w].token
      /\ pc = "idle" => x.task = 0
  <2>1. CASE pc = "idle"
    BY <2>1 DEF Idle, Works, Pcs
  <2>2. CASE pc # "idle"
    BY <1>1, <2>2 DEF Works
  <2> QED
    BY <2>1, <2>2
<1> HIDE DEF x
<1>4. /\ wk' \in [Workers -> Works] /\ wk'[w] = x
      /\ \A v \in Workers : v # w => wk'[v] = wk[v]
  BY <1>1, <1>2, <1>3
<1>5. ASSUME NEW v \in Workers PROVE Continues(v)
  <2>1. WorkerOK(v) /\ WorkerOK(w)
    BY DEF WorkOK
  <2> QED
    BY <1>3, <1>4, <2>1 DEF Continues, WorkerOK
<1> QED
  BY <1>3, <1>4, <1>5 DEF WorkStep

(* The task of a worker that is not idle.                                   *)
LEMMA WorkersTask ==
    ASSUME IInv, NEW w \in Workers, wk[w].pc # "idle"
    PROVE  /\ wk[w].task \in Tasks /\ wk[w].token \in Nat \ {0}
           /\ wk[w].token <= task[wk[w].task].attempt
           /\ task[wk[w].task] \in Rows /\ RowFits(task[wk[w].task])
           /\ wk[w].spent \in Nat
<1>1. WorkerOK(w) /\ wk[w] \in Works
  BY DEF IInv, WorkOK
<1>2. wk[w].task \in Tasks /\ wk[w].token \in 1 .. task[wk[w].task].attempt
  BY <1>1 DEF WorkerOK
<1>3. task[wk[w].task] \in Rows /\ RowFits(task[wk[w].task])
  BY <1>2 DEF IInv, StoreOK, RowOK
<1>4. task[wk[w].task].attempt \in Nat
  BY <1>3, ConstantsAssumption DEF Rows
<1> QED
  BY <1>1, <1>2, <1>3, <1>4 DEF Works

(* update_leased_task, called by a worker.                                  *)
LEMMA UpdateStep ==
    ASSUME IInv, NEW w \in Workers, wk[w].pc # "idle",
           NEW status \in {"running", "succeeded"}, NEW cost,
           NEW link \in Nat, link <= task[wk[w].task].attempt,
           NEW pc \in Pcs, pc # wk[w].pc, Refused(w) # wk[w].pc,
           Update(w, status, cost, link, pc)
    PROVE  StoreStep /\ WorkStep /\ ReportOK
<1>1. Refused(w) \in Pcs
  BY DEF Refused, Pcs
<1>2. PICK t \in Tasks : t = wk[w].task
  BY WorkersTask
<1>3. CASE ~CanUpdate(t, wk[w].token, cost, status = "succeeded")
  <2>1. Goto(w, Refused(w)) /\ UNCHANGED store
    BY <1>2, <1>3 DEF Update
  <2> QED
    BY <1>1, <2>1, StoreUnchanged, GotoContinues DEF IInv
<1>4. CASE CanUpdate(t, wk[w].token, cost, status = "succeeded")
  <2> DEFINE r == [task[t] EXCEPT !.status = status, !.consumed = cost, !.link = link,
                                  !.token = IF status = "succeeded" THEN 0 ELSE @,
                                  !.live = ~(status = "succeeded")]
  <2>1. /\ Settle(t, cost - task[t].consumed, status = "succeeded")
        /\ task' = [task EXCEPT ![t] = r]
        /\ \E seen \in Replies(w) : Goto(w, IF seen THEN pc ELSE Refused(w))
    BY <1>2, <1>4 DEF Update, IInv, StoreOK
  <2>2. WorkStep /\ wk'[w].pc # wk[w].pc
    BY <1>1, <2>1, GotoContinues DEF IInv
  <2>3. /\ task[t] \in Rows /\ RowFits(task[t]) /\ task[t].status \in Active
        /\ task[t].token = wk[w].token /\ ~task[t].cancel
        /\ cost \in task[t].consumed .. task[t].max
    BY <1>2, <1>4, WorkersTask DEF CanUpdate
  <2>4. /\ task[t].consumed \in Nat /\ task[t].max \in Nat /\ task[t].attempt \in Nat
    BY <2>3, ConstantsAssumption DEF Rows
  <2>5. cost \in Nat /\ task[t].consumed <= cost /\ cost <= task[t].max
    BY <2>3, <2>4
  <2>6. /\ r \in Rows /\ r.status = status /\ r.consumed = cost /\ r.link = link
        /\ r.token = IF status = "succeeded" THEN 0 ELSE task[t].token
        /\ r.live = ~(status = "succeeded") /\ r.kind = task[t].kind /\ r.max = task[t].max
        /\ r.attempt = task[t].attempt /\ r.cancel = task[t].cancel
    BY <2>3, <2>5 DEF Rows, Statuses
  <2> HIDE DEF r
  <2>7. RowFits(r)
    BY <1>2, <2>3, <2>4, <2>5, <2>6 DEF RowFits, Active, Terminal
  <2>8. Settle(t, r.consumed - task[t].consumed, r.status \in Terminal)
    BY <2>1, <2>6 DEF Settle, Released, Terminal
  <2>9. task[t].status \notin Terminal \cup {"absent"} /\ r.status # "absent"
    BY <2>3, <2>6 DEF Active, Terminal
  <2>10. StoreStep
    <3>1. r.attempt >= task[t].attempt /\ r.consumed >= task[t].consumed
      BY <2>4, <2>5, <2>6
    <3> QED
      BY <2>1, <2>6, <2>7, <2>8, <2>9, <3>1, SettledChange DEF IInv
  <2>11. wk[w].token = task[t].attempt
    BY <2>3 DEF RowFits
  <2>12. ReportOK
    BY <1>2, <2>1, <2>2, <2>11, RowReports DEF IInv, StoreOK
  <2> QED
    BY <2>2, <2>10, <2>12
<1> QED
  BY <1>3, <1>4

(* fail_durable_task, called by a worker.                                   *)
LEMMA FailIsStep ==
    ASSUME IInv, NEW w \in Workers, wk[w].pc # "idle", NEW retryable \in BOOLEAN,
           NEW cost, NEW refused \in Pcs, Fail(w, retryable, cost, refused)
    PROVE  StoreStep /\ WorkStep /\ ReportOK
<1>1. PICK t \in Tasks : t = wk[w].task
  BY WorkersTask
<1>2. "idle" \in Pcs
  BY DEF Pcs
<1> DEFINE Taken == CanFail(wk[w].task, wk[w].token, cost, retryable)
<1>3. CASE ~Taken
  <2>1. Goto(w, refused) /\ UNCHANGED store
    BY <1>3, Zenon DEF Fail
  <2> QED
    BY <2>1, StoreUnchanged, GotoContinues DEF IInv
<1>4. CASE Taken
  <2> DEFINE st == IF WillRetry(t, retryable) THEN "queued" ELSE "failed"
             r == [task[t] EXCEPT !.status = st, !.consumed = cost, !.token = 0, !.live = FALSE]
  <2>1. /\ Settle(t, cost - task[t].consumed, ~WillRetry(t, retryable))
        /\ task' = [task EXCEPT ![t] = r]
        /\ Goto(w, "idle")
    <3>1. LET u == wk[w].task IN
          /\ Settle(u, cost - task[u].consumed, ~WillRetry(u, retryable))
          /\ task' = [task EXCEPT ![u].status = IF WillRetry(u, retryable) THEN "queued" ELSE "failed",
                                  ![u].consumed = cost, ![u].token = 0, ![u].live = FALSE]
          /\ Goto(w, "idle")
      BY <1>4, Zenon DEF Fail
    <3>2. task' = [task EXCEPT ![t] = r]
      BY <1>1, <3>1 DEF IInv, StoreOK
    <3>3. Settle(t, cost - task[t].consumed, ~WillRetry(t, retryable))
      BY <1>1, <3>1, Zenon
    <3> QED
      BY <3>1, <3>2, <3>3
  <2>2. WorkStep /\ wk'[w].pc # wk[w].pc
    BY <1>2, <2>1, GotoContinues DEF IInv
  <2>3. /\ task[t] \in Rows /\ RowFits(task[t]) /\ task[t].status \in Active
        /\ task[t].token = wk[w].token
        /\ cost \in task[t].consumed .. task[t].max
    BY <1>1, <1>4, WorkersTask DEF CanFail
  <2>4. /\ task[t].consumed \in Nat /\ task[t].max \in Nat /\ task[t].attempt \in Nat
    BY <2>3, ConstantsAssumption DEF Rows
  <2>5. cost \in Nat /\ task[t].consumed <= cost /\ cost <= task[t].max
    BY <2>3, <2>4
  <2>6. /\ st = "queued" \/ st = "failed"
        /\ (st = "failed") <=> ~WillRetry(t, retryable)
        /\ st = "queued" => ~task[t].cancel
    BY DEF WillRetry
  <2> HIDE DEF st
  <2>7. /\ r \in Rows /\ r.status = st /\ r.consumed = cost /\ r.link = task[t].link
        /\ r.token = 0 /\ r.live = FALSE /\ r.kind = task[t].kind /\ r.max = task[t].max
        /\ r.attempt = task[t].attempt /\ r.cancel = task[t].cancel
    BY <2>3, <2>5, <2>6 DEF Rows, Statuses
  <2> HIDE DEF r
  <2>8. RowFits(r)
    BY <2>3, <2>4, <2>5, <2>6, <2>7 DEF RowFits, Active, Terminal
  <2>9. Settle(t, r.consumed - task[t].consumed, r.status \in Terminal)
    BY <2>1, <2>6, <2>7 DEF Settle, Released, Terminal
  <2>10. task[t].status \notin Terminal \cup {"absent"} /\ r.status # "absent"
    BY <2>3, <2>6, <2>7 DEF Active, Terminal
  <2>11. StoreStep
    <3>1. r.attempt >= task[t].attempt /\ r.consumed >= task[t].consumed
      BY <2>4, <2>5, <2>7
    <3> QED
      BY <2>1, <2>7, <2>8, <2>9, <2>10, <3>1, SettledChange DEF IInv
  <2>12. wk[w].token = task[t].attempt
    BY <2>3 DEF RowFits
  <2>13. ReportOK
    BY <1>1, <2>1, <2>2, <2>12, RowReports DEF IInv, StoreOK
  <2> QED
    BY <2>2, <2>11, <2>13
<1> QED
  BY <1>3, <1>4

(* set_durable_task_status pauses, queues again or cancels.                 *)
LEMMA SetStatusIsStep ==
    ASSUME IInv, NEW t \in Tasks, NEW status \in {"paused", "queued", "cancelled"},
           CanTransition(t, status), SetStatus(t, status)
    PROVE  StoreStep /\ ReportOK
<1> DEFINE r == [task[t] EXCEPT !.status = status, !.cancel = (status = "cancelled"),
                                !.token = 0, !.live = FALSE]
<1>1. task[t] \in Rows /\ RowFits(task[t]) /\ StoreOK /\ task \in [Tasks -> Rows]
  BY DEF IInv, StoreOK, RowOK
<1>2. task[t].consumed \in Nat /\ task[t].max \in Nat /\ task[t].attempt \in Nat
  BY <1>1, ConstantsAssumption DEF Rows
<1>3. task' = [task EXCEPT ![t] = r]
  BY <1>1 DEF SetStatus
<1>4. /\ r \in Rows /\ r.status = status /\ r.consumed = task[t].consumed
      /\ r.link = task[t].link /\ r.token = 0 /\ r.live = FALSE /\ r.kind = task[t].kind
      /\ r.max = task[t].max /\ r.attempt = task[t].attempt
      /\ r.cancel = (status = "cancelled")
  BY <1>1 DEF Rows, Statuses
<1> HIDE DEF r
<1>5. RowFits(r)
  BY <1>1, <1>2, <1>4 DEF RowFits, Active, Terminal
<1>6. /\ task[t].status \notin Terminal \cup {"absent"}
      /\ status = "queued" => task[t].status \notin Active
  BY DEF CanTransition, Terminal, Active
<1>7. r.attempt >= task[t].attempt /\ r.consumed >= task[t].consumed
  BY <1>2, <1>4
<1>8. ReportOK
  BY <1>1, <1>3, <1>4, <1>6, RowReports
<1>9. CASE status = "cancelled"
  <2>0. Settle(t, 0, TRUE)
    BY <1>9, Zenon DEF SetStatus
  <2>1. task[t].consumed - task[t].consumed = 0 /\ r.consumed - task[t].consumed = 0
    BY <1>2, <1>4
  <2>2. Settle(t, r.consumed - task[t].consumed, r.status \in Terminal)
    BY <1>4, <1>9, <2>0, <2>1 DEF Settle, Released, Terminal
  <2> QED
    BY <1>1, <1>3, <1>4, <1>5, <1>6, <1>7, <1>8, <2>2, SettledChange
<1>10. CASE status # "cancelled"
  <2>1. UNCHANGED <<resv, team>> /\ r.status \notin Terminal \cup {"absent"}
    BY <1>4, <1>10 DEF SetStatus, Terminal
  <2> QED
    BY <1>1, <1>3, <1>4, <1>5, <1>6, <1>7, <1>8, <2>1, PlainChange
<1> QED
  BY <1>9, <1>10

(* ... called by a worker, which is done then.                              *)
LEMMA TransitionIsStep ==
    ASSUME IInv, NEW w \in Workers, wk[w].pc # "idle",
           NEW status \in {"paused", "queued", "cancelled"}, Transition(w, status)
    PROVE  StoreStep /\ WorkStep /\ ReportOK
<1>1. PICK t \in Tasks : t = wk[w].task
  BY WorkersTask
<1>2. WorkStep
  BY GotoContinues DEF IInv, Transition, Pcs
<1>3. CASE CanTransition(t, status)
  BY <1>1, <1>2, <1>3, SetStatusIsStep DEF Transition
<1>4. CASE ~CanTransition(t, status)
  BY <1>1, <1>2, <1>4, StoreUnchanged DEF Transition
<1> QED
  BY <1>3, <1>4

(* A change to whether the lease is live or the task overdue.               *)
LEMMA ColumnChange ==
    ASSUME StoreOK, NEW t \in Tasks, task[t].status \notin Terminal \cup {"absent"},
           NEW r \in Rows, r.live => r.status \in Active,
           r.status = task[t].status, r.consumed = task[t].consumed, r.link = task[t].link,
           r.token = task[t].token, r.kind = task[t].kind, r.max = task[t].max,
           r.attempt = task[t].attempt, r.cancel => task[t].cancel,
           task' = [task EXCEPT ![t] = r], UNCHANGED <<resv, team>>
    PROVE  StoreStep /\ ReportOK
<1>1. task[t] \in Rows /\ RowFits(task[t]) /\ task \in [Tasks -> Rows]
  BY DEF StoreOK, RowOK
<1>2. RowFits(r)
  BY <1>1 DEF RowFits
<1>3. r.attempt >= task[t].attempt
  BY <1>1, ConstantsAssumption DEF Rows
<1>4. StoreStep
  BY <1>2, <1>3, PlainChange
<1>5. task[t].status \notin Active \/ r.status \notin {"succeeded", "failed", "queued"}
  BY DEF Active
<1>6. ReportOK
  BY <1>1, <1>5, RowReports
<1> QED
  BY <1>4, <1>6

-----------------------------------------------------------------------------
(* Workers.                                                                 *)

(* A worker's turn rows stay as they are.                                   *)
LEMMA TurnsUnchanged ==
    ASSUME TurnsOK, UNCHANGED <<turn, resume>>
    PROVE  TurnsOK'
  BY DEF TurnsOK

(* lease_durable_task_kind gives the next attempt to one worker.            *)
LEMMA LeaseIsStep ==
    ASSUME IInv, NEW w \in Workers, Lease(w)
    PROVE  StepOK
<1> DEFINE E == Eligible(KindOf(w))
<1>1. E \subseteq Tasks /\ E # {} /\ E \in SUBSET Nat
  BY TasksFinite DEF Lease, Eligible
<1>2. Min(E) \in E
  BY <1>1, LeastElement DEF Min
<1>3. PICK t \in Tasks : t = Min(E)
  BY <1>1, <1>2
<1>4. /\ task[t].kind = KindOf(w) /\ ~task[t].cancel /\ task[t].attempt < MaxAttempts
      /\ task[t].status = "queued" \/ task[t].status \in Active
  BY <1>2, <1>3 DEF Eligible
<1> DEFINE r == [task[t] EXCEPT !.status = "leased", !.attempt = @ + 1,
                                !.token = task[t].attempt + 1, !.live = TRUE]
           x(seen) == IF ~seen THEN Idle
                      ELSE [pc |-> "leased", task |-> t, token |-> task[t].attempt + 1,
                            spent |-> IF w \in AgentWorkers THEN task[t].consumed ELSE 0,
                            left |-> PlanSteps]
<1>5. /\ task' = [task EXCEPT ![t] = r]
      /\ \E seen \in Replies(w) : wk' = [wk EXCEPT ![w] = x(seen)]
      /\ UNCHANGED <<resv, team, turn, resume>>
  BY <1>3 DEF Lease, IInv, StoreOK
<1>6. /\ task[t] \in Rows /\ RowFits(task[t]) /\ task \in [Tasks -> Rows] /\ StoreOK
      /\ wk \in [Workers -> Works]
  BY DEF IInv, StoreOK, RowOK, WorkOK
<1>7. /\ task[t].attempt \in Nat /\ MaxAttempts \in Nat /\ PlanSteps \in Nat
      /\ task[t].consumed \in Nat /\ task[t].link \in Nat /\ t \in Nat \ {0}
      /\ task[t].attempt + 1 \in 0 .. MaxAttempts
  BY <1>4, <1>6, ConstantsAssumption, TasksFinite DEF Rows
<1>8. /\ r \in Rows /\ r.status = "leased" /\ r.attempt = task[t].attempt + 1
      /\ r.token = task[t].attempt + 1 /\ r.live = TRUE /\ r.kind = task[t].kind
      /\ r.max = task[t].max /\ r.consumed = task[t].consumed /\ r.link = task[t].link
      /\ r.cancel = task[t].cancel
  <2>1. PICK n : n = task[t].attempt + 1 /\ n \in 0 .. MaxAttempts /\ n \in Nat
    BY <1>7
  <2>2. r = [task[t] EXCEPT !.status = "leased", !.attempt = n, !.token = n, !.live = TRUE]
    BY <2>1
  <2> HIDE DEF r
  <2> QED
    BY <1>6, <2>1, <2>2 DEF Rows, Statuses
<1> HIDE DEF r
<1>9. RowFits(r)
  BY <1>4, <1>6, <1>7, <1>8 DEF RowFits, Active, Terminal
<1>10. /\ task[t].status \notin Terminal \cup {"absent"}
       /\ r.status \notin Terminal \cup {"absent"} /\ r.attempt >= task[t].attempt
       /\ r.status \notin {"succeeded", "failed", "queued"}
  BY <1>4, <1>7, <1>8 DEF Active, Terminal
<1>11. StoreStep
  BY <1>5, <1>6, <1>8, <1>9, <1>10, PlainChange
<1>12. ReportOK
  BY <1>5, <1>6, <1>10, RowReports
<1>13. WorkStep
  <2>1. PICK seen \in BOOLEAN : wk' = [wk EXCEPT ![w] = x(seen)]
    BY <1>5 DEF Replies
  <2>2. /\ x(seen) \in Works
        /\ \/ x(seen).pc = "idle" /\ x(seen).task = 0
           \/ x(seen).pc = "leased" /\ x(seen).task = t /\ x(seen).token = task[t].attempt + 1
    BY <1>7 DEF Works, Pcs, Idle
  <2> HIDE DEF x
  <2>3. /\ wk' \in [Workers -> Works] /\ wk'[w] = x(seen)
        /\ \A v \in Workers : v # w => wk'[v] = wk[v]
    BY <1>6, <2>1, <2>2
  <2>4. task'[t] = r
    BY <1>5, <1>6
  <2>5. ASSUME NEW v \in Workers PROVE Continues(v)
    <3>1. CASE v # w
      BY <2>3, <3>1 DEF IInv, WorkOK, WorkerOK, Continues
    <3>2. CASE v = w /\ x(seen).pc = "idle"
      BY <2>2, <2>3, <3>2 DEF Continues
    <3>3. CASE v = w /\ x(seen).pc # "idle"
      <4>1. wk'[v].pc = "leased" /\ wk'[v].task = t /\ wk'[v].token = task[t].attempt + 1
        BY <2>2, <2>3, <3>3
      <4>2. /\ wk'[v].token \in 1 .. task'[t].attempt
            /\ task'[t].kind = KindOf(v)
        BY <1>4, <1>7, <1>8, <2>4, <3>3, <4>1
      <4>3. WorkerOK(v)'
        BY <1>7, <4>1, <4>2 DEF WorkerOK, KindOf
      <4> QED
        BY <4>3 DEF Continues
    <3> QED
      BY <3>1, <3>2, <3>3
  <2> QED
    BY <2>3, <2>5 DEF WorkStep
<1>14. TurnsOK'
  BY <1>5, TurnsUnchanged DEF IInv
<1> QED
  BY <1>11, <1>12, <1>13, <1>14 DEF StepOK

(* The calls of update_leased_task.                                         *)
LEMMA UpdatingIsStep ==
    ASSUME IInv, NEW w \in Workers,
           \/ Start(w) \/ Link(w) \/ ReportCompleted(w) \/ CheckpointAwaiting(w)
           \/ CheckpointStep(w) \/ CompletePlan(w)
    PROVE  StepOK
<1> DEFINE t == wk[w].task
<1>1. wk[w].pc \in {"leased", "linking", "completed", "awaiting", "stepped", "completing"}
  BY DEF Start, Link, ReportCompleted, CheckpointAwaiting, CheckpointStep, CompletePlan
<1>2. wk[w].pc # "idle" /\ Refused(w) # wk[w].pc
  BY <1>1 DEF Refused
<1>3. /\ task[t].attempt \in Nat /\ task[t].link \in Nat /\ task[t].link <= task[t].attempt
      /\ wk[w].token \in Nat /\ wk[w].token <= task[t].attempt /\ 0 <= task[t].attempt
  BY <1>2, WorkersTask, ConstantsAssumption DEF Rows, RowFits
<1> HIDE DEF t
<1>4. CASE Start(w)
  <2>1. PICK pc \in {"creating", "executing"} :
           Update(w, "running", task[t].consumed, task[t].link, pc) /\ wk[w].pc = "leased"
    BY <1>4 DEF Start, t
  <2>2. pc \in Pcs /\ pc # wk[w].pc
    BY <2>1 DEF Pcs
  <2>3. StoreStep /\ WorkStep /\ ReportOK
    BY <1>2, <1>3, <2>1, <2>2, UpdateStep DEF t
  <2> QED
    BY <1>4, <2>3, TurnsUnchanged DEF Start, StepOK, IInv
<1>5. CASE Link(w)
  <2>1. Update(w, "running", wk[w].spent, wk[w].token, "executing") /\ wk[w].pc = "linking"
    BY <1>5 DEF Link
  <2>2. StoreStep /\ WorkStep /\ ReportOK
    BY <1>2, <1>3, <2>1, UpdateStep DEF t, Pcs
  <2> QED
    BY <1>5, <2>2, TurnsUnchanged DEF Link, StepOK, IInv
<1>6. CASE ReportCompleted(w)
  <2>1. Update(w, "succeeded", wk[w].spent, task[t].link, "idle") /\ wk[w].pc = "completed"
    BY <1>6 DEF ReportCompleted, t
  <2>2. StoreStep /\ WorkStep /\ ReportOK
    BY <1>2, <1>3, <2>1, UpdateStep DEF t, Pcs
  <2> QED
    BY <1>6, <2>2, TurnsUnchanged DEF ReportCompleted, StepOK, IInv
<1>7. CASE CheckpointAwaiting(w)
  <2>1. Update(w, "running", wk[w].spent, wk[w].token, "pausing") /\ wk[w].pc = "awaiting"
    BY <1>7 DEF CheckpointAwaiting
  <2>2. StoreStep /\ WorkStep /\ ReportOK
    BY <1>2, <1>3, <2>1, UpdateStep DEF t, Pcs
  <2> QED
    BY <1>7, <2>2, TurnsUnchanged DEF CheckpointAwaiting, StepOK, IInv
<1>8. CASE CheckpointStep(w)
  <2>1. PICK pc \in {"completing", "executing", "failing"} :
           Update(w, "running", wk[w].spent, 0, pc) /\ wk[w].pc = "stepped"
    BY <1>8 DEF CheckpointStep
  <2>2. pc \in Pcs /\ pc # wk[w].pc
    BY <2>1 DEF Pcs
  <2>3. StoreStep /\ WorkStep /\ ReportOK
    BY <1>2, <1>3, <2>1, <2>2, UpdateStep DEF t
  <2> QED
    BY <1>8, <2>3, TurnsUnchanged DEF CheckpointStep, StepOK, IInv
<1>9. CASE CompletePlan(w)
  <2>1. PICK cost \in wk[w].spent .. task[t].max :
           Update(w, "succeeded", cost, 0, "idle") /\ wk[w].pc = "completing"
    BY <1>9 DEF CompletePlan, t
  <2>2. StoreStep /\ WorkStep /\ ReportOK
    BY <1>2, <1>3, <2>1, UpdateStep DEF t, Pcs
  <2> QED
    BY <1>9, <2>2, TurnsUnchanged DEF CompletePlan, StepOK, IInv
<1> QED
  BY <1>4, <1>5, <1>6, <1>7, <1>8, <1>9

(* The calls of fail_durable_task.                                          *)
LEMMA FailingIsStep ==
    ASSUME IInv, NEW w \in Workers,
           TurnRefused(w) \/ ReportFailed(w) \/ FailStep(w) \/ GiveUp(w)
    PROVE  StepOK
<1>1. wk[w].pc \in {"creating", "failed", "failing", "giveup"} /\ UNCHANGED <<turn, resume>>
  BY DEF TurnRefused, ReportFailed, FailStep, GiveUp
<1>2. PICK retryable \in BOOLEAN : \E cost : \E refused \in {"idle", "giveup"} :
         Fail(w, retryable, cost, refused)
  BY DEF TurnRefused, ReportFailed, FailStep, GiveUp
<1>3. StoreStep /\ WorkStep /\ ReportOK
  BY <1>1, <1>2, FailIsStep DEF Pcs
<1> QED
  BY <1>1, <1>3, TurnsUnchanged DEF StepOK, IInv

(* The calls of set_durable_task_status.                                    *)
LEMMA SettingIsStep ==
    ASSUME IInv, NEW w \in Workers, Isolate(w) \/ PauseAwaiting(w) \/ ReportAborted(w)
    PROVE  StepOK
<1>1. wk[w].pc \in {"leased", "pausing", "aborted"} /\ UNCHANGED <<turn, resume>>
  BY DEF Isolate, PauseAwaiting, ReportAborted
<1>2. PICK status \in {"paused", "queued", "cancelled"} : Transition(w, status)
  BY DEF Isolate, PauseAwaiting, ReportAborted
<1>3. StoreStep /\ WorkStep /\ ReportOK
  BY <1>1, <1>2, TransitionIsStep
<1> QED
  BY <1>1, <1>3, TurnsUnchanged DEF StepOK, IInv

(* A payload or a session that the worker does not accept.                  *)
LEMMA InvalidIsStep ==
    ASSUME IInv, NEW w \in Workers, Invalid(w)
    PROVE  StepOK
<1>1. wk[w].pc # "idle" /\ TurnsOK'
  BY TurnsUnchanged DEF Invalid, IInv
<1>2. CASE Goto(w, Refused(w)) /\ UNCHANGED store
  <2>1. Refused(w) \in Pcs
    BY DEF Refused, Pcs
  <2> QED
    BY <1>1, <1>2, <2>1, GotoContinues, StoreUnchanged DEF StepOK, IInv
<1>3. CASE Fail(w, FALSE, wk[w].spent, "idle")
  <2>1. "idle" \in Pcs /\ FALSE \in BOOLEAN
    BY DEF Pcs
  <2>2. StoreStep /\ WorkStep /\ ReportOK
    BY <1>1, <1>3, <2>1, FailIsStep
  <2> QED
    BY <1>1, <2>2 DEF StepOK
<1> QED
  BY <1>2, <1>3 DEF Invalid

(* Turns of a task are closed, opened or set to await a decision.           *)
LEMMA TurnEndsType ==
    ASSUME TurnsOK, NEW t \in Tasks, NEW id, NEW outcome, TurnEnds(t, id, outcome)
    PROVE  turn' \in [Tasks -> [id : Nat, state : {"closed", "open", "awaiting"}]]
  BY DEF TurnsOK, TurnEnds

(* A worker whose execution is over, as the worker reads it.                *)
LEMMA SettledIsStep ==
    ASSUME IInv, NEW w \in Workers, wk[w].pc # "idle", NEW outcome \in Outcomes,
           Settled(w, outcome), UNCHANGED resume
    PROVE  WorkStep /\ TurnsOK'
<1>1. WorkStep
  BY GotoContinues DEF IInv, Settled, Pcs
<1>2. turn' \in [Tasks -> [id : Nat, state : {"closed", "open", "awaiting"}]]
  BY WorkersTask, TurnEndsType DEF IInv, Settled
<1> QED
  BY <1>1, <1>2 DEF TurnsOK, IInv

(* The agent worker creates its turn, executes it, and reads how it ended.  *)
LEMMA TurnIsStep ==
    ASSUME IInv, NEW w \in Workers, CreateTurn(w) \/ EndTurn(w)
    PROVE  StepOK
<1>1. UNCHANGED store /\ wk[w].pc # "idle"
  BY DEF CreateTurn, EndTurn
<1>2. CASE CreateTurn(w)
  <2>1. WorkStep
    BY <1>1, <1>2, GotoContinues DEF CreateTurn, IInv, Pcs
  <2>2. wk[w].task \in Tasks /\ wk[w].token \in Nat
    BY <1>1, WorkersTask
  <2>3. TurnsOK'
    BY <1>2, <2>2 DEF CreateTurn, IInv, TurnsOK
  <2> QED
    BY <1>1, <2>1, <2>3, StoreUnchanged DEF StepOK
<1>3. CASE EndTurn(w)
  BY <1>1, <1>3, SettledIsStep, StoreUnchanged DEF EndTurn, StepOK
<1> QED
  BY <1>2, <1>3

(* A renewal that is refused.                                               *)
LEMMA RefusedIsStep ==
    ASSUME IInv, NEW w \in Workers, wk[w].pc # "idle", RenewRefused(w), UNCHANGED resume
    PROVE  WorkStep /\ TurnsOK'
<1>1. CASE w \in AgentWorkers
  BY <1>1, SettledIsStep DEF RenewRefused
<1>2. CASE w \notin AgentWorkers
  <2>1. Goto(w, "idle") /\ UNCHANGED turn
    BY <1>2 DEF RenewRefused
  <2> QED
    BY <2>1, GotoContinues, TurnsUnchanged DEF IInv, Pcs
<1> QED
  BY <1>1, <1>2

(* The heartbeat reads the row, then writes it: the row it writes is still  *)
(* leased, since its token is the worker's.                                 *)
LEMMA HeartbeatIsStep ==
    ASSUME IInv, NEW w \in Workers, Heartbeat(w)
    PROVE  StepOK
<1>1. wk[w].pc # "idle" /\ UNCHANGED resume
  BY DEF Heartbeat, RenewRead, RenewWrite
<1>2. CASE RenewRead(w)
  <2>1. StoreStep /\ ReportOK
    BY <1>2, StoreUnchanged DEF RenewRead
  <2>2. CASE CanRenew(wk[w].task, wk[w].token)
    <3>1. Goto(w, "renewing") /\ UNCHANGED turn
      BY <1>2, <2>2 DEF RenewRead
    <3>2. WorkStep /\ TurnsOK'
      BY <1>1, <3>1, GotoContinues, TurnsUnchanged DEF IInv, Pcs
    <3> QED
      BY <2>1, <3>2 DEF StepOK
  <2>3. CASE ~CanRenew(wk[w].task, wk[w].token)
    <3>1. RenewRefused(w)
      BY <1>2, <2>3 DEF RenewRead
    <3> QED
      BY <1>1, <2>1, <3>1, RefusedIsStep DEF StepOK
  <2> QED
    BY <2>2, <2>3
<1>3. CASE RenewWrite(w)
  <2>1. PICK t \in Tasks : t = wk[w].task
    BY <1>1, WorkersTask
  <2>2. CASE task[t].token = wk[w].token /\ ~task[t].cancel
    <3>1. /\ task' = [task EXCEPT ![t].live = TRUE] /\ UNCHANGED <<resv, team, turn>>
          /\ \E seen \in Replies(w) : Goto(w, IF seen THEN "executing" ELSE "idle")
      BY <1>3, <2>1, <2>2 DEF RenewWrite
    <3>2. WorkStep /\ TurnsOK'
      BY <1>1, <3>1, GotoContinues, TurnsUnchanged DEF IInv, Pcs
    <3>3. task[t] \in Rows /\ RowFits(task[t]) /\ wk[w].token \in Nat \ {0}
      BY <1>1, <2>1, WorkersTask
    <3>4. task[t].status \in Active
      BY <2>2, <3>3 DEF RowFits
    <3> DEFINE r == [task[t] EXCEPT !.live = TRUE]
    <3>5. /\ r \in Rows /\ r.status = task[t].status /\ r.consumed = task[t].consumed
          /\ r.link = task[t].link /\ r.token = task[t].token /\ r.kind = task[t].kind
          /\ r.max = task[t].max /\ r.attempt = task[t].attempt /\ (r.cancel => task[t].cancel)
          /\ task' = [task EXCEPT ![t] = r]
      BY <3>1, <3>3 DEF IInv, StoreOK, Rows
    <3>6. StoreStep /\ ReportOK
      <4> HIDE DEF r
      <4>1. task[t].status \notin Terminal \cup {"absent"} /\ (r.live => r.status \in Active)
        BY <3>4, <3>5 DEF Active, Terminal
      <4> QED
        BY <3>1, <3>5, <4>1, ColumnChange DEF IInv
    <3> QED
      BY <3>2, <3>6 DEF StepOK
  <2>3. CASE ~(task[t].token = wk[w].token /\ ~task[t].cancel)
    <3>1. RenewRefused(w) /\ UNCHANGED store
      BY <1>3, <2>1, <2>3 DEF RenewWrite, store
    <3> QED
      BY <1>1, <3>1, RefusedIsStep, StoreUnchanged DEF StepOK
  <2> QED
    BY <2>2, <2>3
<1> QED
  BY <1>2, <1>3 DEF Heartbeat

(* A step of the runner's plan ends, or a request of the runner is lost.    *)
LEMMA RunnerIsStep ==
    ASSUME IInv, NEW w \in Workers, EndStep(w) \/ RequestLost(w)
    PROVE  StepOK
<1>1. UNCHANGED <<store, turn, resume>> /\ wk[w].pc # "idle"
  BY DEF EndStep, RequestLost
<1>2. StoreStep /\ ReportOK /\ TurnsOK'
  BY <1>1, StoreUnchanged, TurnsUnchanged DEF IInv
<1>3. CASE \E pc \in {"giveup", "idle"} : Goto(w, pc)
  BY <1>1, <1>2, <1>3, GotoContinues DEF IInv, Pcs, StepOK
<1>4. CASE \E cost \in wk[w].spent .. task[wk[w].task].max :
             wk' = [wk EXCEPT ![w].pc = "stepped", ![w].spent = cost, ![w].left = @ - 1]
  <2>1. PICK cost \in wk[w].spent .. task[wk[w].task].max :
             wk' = [wk EXCEPT ![w].pc = "stepped", ![w].spent = cost, ![w].left = @ - 1]
    BY <1>4
  <2>2. wk \in [Workers -> Works] /\ wk[w] \in Works /\ wk[w].left \in Int
    BY DEF IInv, WorkOK, Works
  <2>3. cost \in Nat
    BY <1>1, <2>1, WorkersTask DEF Rows
  <2>4. PICK n \in Int : n = wk[w].left - 1
    BY <2>2
  <2> DEFINE x == [wk[w] EXCEPT !.pc = "stepped", !.spent = cost, !.left = n]
  <2>5. wk' = [wk EXCEPT ![w] = x]
    BY <2>1, <2>2, <2>4
  <2>6. x \in Works /\ x.pc = "stepped" /\ x.task = wk[w].task /\ x.token = wk[w].token
    BY <2>2, <2>3 DEF Works, Pcs
  <2> HIDE DEF x
  <2>7. wk' \in [Workers -> Works] /\ wk'[w] = x /\ \A v \in Workers : v # w => wk'[v] = wk[v]
    BY <2>2, <2>5, <2>6
  <2>8. ASSUME NEW v \in Workers PROVE Continues(v)
    <3>1. WorkerOK(v) /\ WorkerOK(w)
      BY DEF IInv, WorkOK
    <3> QED
      BY <1>1, <2>6, <2>7, <3>1 DEF Continues, WorkerOK
  <2> QED
    BY <1>2, <2>7, <2>8 DEF WorkStep, StepOK
<1> QED
  BY <1>3, <1>4 DEF EndStep, RequestLost

(* Every action of a worker.                                                *)
LEMMA WorkerIsStep ==
    ASSUME IInv, NEW w \in Workers, Worker(w)
    PROVE  StepOK
<1>1. CASE Lease(w)
  BY <1>1, LeaseIsStep
<1>2. CASE Isolate(w) \/ PauseAwaiting(w) \/ ReportAborted(w)
  BY <1>2, SettingIsStep
<1>3. CASE Invalid(w)
  BY <1>3, InvalidIsStep
<1>4. CASE \/ Start(w) \/ Link(w) \/ ReportCompleted(w) \/ CheckpointAwaiting(w)
           \/ CheckpointStep(w) \/ CompletePlan(w)
  BY <1>4, UpdatingIsStep
<1>5. CASE TurnRefused(w) \/ ReportFailed(w) \/ FailStep(w) \/ GiveUp(w)
  BY <1>5, FailingIsStep
<1>6. CASE CreateTurn(w) \/ EndTurn(w)
  BY <1>6, TurnIsStep
<1>7. CASE Heartbeat(w)
  BY <1>7, HeartbeatIsStep
<1>8. CASE EndStep(w) \/ RequestLost(w)
  BY <1>8, RunnerIsStep
<1> QED
  BY <1>1, <1>2, <1>3, <1>4, <1>5, <1>6, <1>7, <1>8 DEF Worker, Call, Execution

-----------------------------------------------------------------------------
(* Everybody else.                                                          *)

(* Resumed turns, closed sessions and crashes leave the store alone.        *)
LEMMA AroundIsStep ==
    ASSUME IInv,
           \/ \E t \in Tasks : ResumeTurn(t) \/ EndResumed(t) \/ CloseSession(t)
           \/ CrashDaemon
           \/ \E w \in RunnerWorkers : CrashRunner(w)
    PROVE  StepOK
<1>1. UNCHANGED store
  BY DEF ResumeTurn, EndResumed, CloseSession, CrashDaemon, CrashRunner
<1>2. StoreStep /\ ReportOK
  BY <1>1, StoreUnchanged
<1>3. /\ turn \in [Tasks -> [id : Nat, state : {"closed", "open", "awaiting"}]]
      /\ resume \in [Tasks -> [id : Nat, state : {"none", "running", "completed", "failed"}]]
      /\ wk \in [Workers -> Works] /\ \A w \in Workers : WorkerOK(w)
      /\ Idle \in Works /\ Idle.pc = "idle" /\ Idle.task = 0
  BY DEF IInv, TurnsOK, WorkOK, Idle, Works, Pcs
<1>4. ASSUME NEW t \in Tasks, ResumeTurn(t) PROVE StepOK
  <2>1. TurnsOK'
    BY <1>3, <1>4 DEF ResumeTurn, TurnsOK
  <2> QED
    BY <1>2, <1>4, <2>1, WorkUnchanged DEF ResumeTurn, StepOK, IInv
<1>5. ASSUME NEW t \in Tasks, EndResumed(t) PROVE StepOK
  <2>1. PICK outcome \in {"awaiting", "completed", "failed"} :
          /\ TurnEnds(t, resume[t].id, outcome)
          /\ resume' = [resume EXCEPT ![t] = IF outcome = "awaiting"
                                             THEN [id |-> 0, state |-> "none"]
                                             ELSE [@ EXCEPT !.state = outcome]]
    BY <1>5 DEF EndResumed
  <2>2. turn' \in [Tasks -> [id : Nat, state : {"closed", "open", "awaiting"}]]
    BY <2>1, TurnEndsType DEF IInv
  <2>3. resume' \in [Tasks -> [id : Nat, state : {"none", "running", "completed", "failed"}]]
    <3>1. CASE outcome = "awaiting"
      BY <1>3, <2>1, <3>1
    <3>2. CASE outcome # "awaiting"
      BY <1>3, <2>1, <3>2
    <3> QED
      BY <3>1, <3>2
  <2> QED
    BY <1>2, <1>5, <2>2, <2>3, WorkUnchanged DEF EndResumed, StepOK, IInv, TurnsOK
<1>6. ASSUME NEW t \in Tasks, CloseSession(t) PROVE StepOK
  <2>1. TurnsOK'
    BY <1>3, <1>6 DEF CloseSession, TurnsOK
  <2> QED
    BY <1>2, <1>6, <2>1, WorkUnchanged DEF CloseSession, StepOK, IInv
<1>7. ASSUME CrashDaemon PROVE StepOK
  <2>1. PICK interrupted \in SUBSET Tasks :
          turn' = [t \in Tasks |-> IF t \in interrupted THEN [turn[t] EXCEPT !.state = "closed"]
                                   ELSE turn[t]]
    BY <1>7 DEF CrashDaemon
  <2>2. turn' \in [Tasks -> [id : Nat, state : {"closed", "open", "awaiting"}]]
    BY <1>3, <2>1
  <2>3. resume' \in [Tasks -> [id : Nat, state : {"none", "running", "completed", "failed"}]]
    BY <1>7 DEF CrashDaemon
  <2>4. /\ wk' \in [Workers -> Works]
        /\ \A w \in Workers : wk'[w] = Idle \/ wk'[w] = wk[w]
    BY <1>3, <1>7 DEF CrashDaemon
  <2>5. WorkStep
    BY <1>3, <2>4 DEF WorkStep, Continues, WorkerOK
  <2> QED
    BY <1>2, <2>2, <2>3, <2>5 DEF StepOK, TurnsOK
<1>8. ASSUME NEW w \in RunnerWorkers, CrashRunner(w) PROVE StepOK
  <2>1. /\ wk' \in [Workers -> Works]
        /\ \A v \in Workers : wk'[v] = Idle \/ wk'[v] = wk[v]
    BY <1>3, <1>8 DEF CrashRunner
  <2>2. WorkStep
    BY <1>3, <2>1 DEF WorkStep, Continues, WorkerOK
  <2> QED
    BY <1>2, <1>8, <2>2, TurnsUnchanged DEF CrashRunner, StepOK, IInv
<1> QED
  BY <1>4, <1>5, <1>6, <1>7, <1>8

(* reconcile_paused_durable_task ends a paused task after its turn.         *)
LEMMA ReconcileIsStep ==
    ASSUME IInv, NEW t \in Tasks, Reconcile(t)
    PROVE  StepOK
<1>1. WorkStep
  BY WorkUnchanged DEF Reconcile, IInv
<1>2. TurnsOK'
  BY DEF Reconcile, IInv, TurnsOK
<1>3. CASE ~CanReconcile(t)
  BY <1>1, <1>2, <1>3, StoreUnchanged DEF Reconcile, StepOK
<1>4. CASE CanReconcile(t)
  <2>1. PICK st \in {"succeeded", "failed"} :
          st = IF resume[t].state = "completed" THEN "succeeded" ELSE "failed"
    OBVIOUS
  <2> DEFINE r == [task[t] EXCEPT !.status = st]
  <2>2. task[t] \in Rows /\ RowFits(task[t]) /\ task \in [Tasks -> Rows] /\ StoreOK
    BY DEF IInv, StoreOK, RowOK
  <2>3. Settle(t, 0, TRUE)
    BY <1>4, Zenon DEF Reconcile
  <2>4. task' = [task EXCEPT ![t] = r]
    BY <1>4, <2>1, <2>2 DEF Reconcile
  <2>5. /\ r \in Rows /\ r.status = st /\ r.consumed = task[t].consumed
        /\ r.link = task[t].link /\ r.token = task[t].token /\ r.live = task[t].live
        /\ r.kind = task[t].kind /\ r.max = task[t].max /\ r.attempt = task[t].attempt
        /\ r.cancel = task[t].cancel
    BY <2>2 DEF Rows, Statuses
  <2> HIDE DEF r
  <2>6. task[t].status = "paused"
    BY <1>4 DEF CanReconcile
  <2>7. RowFits(r)
    BY <2>2, <2>5, <2>6 DEF RowFits, Active, Terminal
  <2>8. task[t].consumed \in Nat /\ task[t].attempt \in Nat
    BY <2>2, ConstantsAssumption DEF Rows
  <2>9. r.consumed - task[t].consumed = 0 /\ r.attempt >= task[t].attempt
        /\ r.consumed >= task[t].consumed
    BY <2>5, <2>8
  <2>10. Settle(t, r.consumed - task[t].consumed, r.status \in Terminal)
    BY <2>3, <2>5, <2>9 DEF Settle, Released, Terminal
  <2>11. task[t].status \notin Terminal \cup {"absent"} /\ r.status # "absent"
         /\ task[t].status \notin Active
    BY <2>5, <2>6 DEF Terminal, Active
  <2>12. StoreStep
    BY <2>2, <2>4, <2>5, <2>7, <2>9, <2>10, <2>11, SettledChange
  <2>13. ReportOK
    BY <2>2, <2>4, <2>11, RowReports
  <2> QED
    BY <1>1, <1>2, <2>12, <2>13 DEF StepOK
<1> QED
  BY <1>3, <1>4

(* request_durable_task_cancellation: work that is leased keeps its lease   *)
(* and its reservation, other work is over.                                 *)
LEMMA CancellationIsStep ==
    ASSUME IInv, NEW t \in Tasks, RequestCancellation(t)
    PROVE  StepOK
<1>1. WorkStep /\ TurnsOK'
  BY WorkUnchanged, TurnsUnchanged DEF RequestCancellation, IInv
<1>2. task[t] \in Rows /\ RowFits(task[t]) /\ task \in [Tasks -> Rows] /\ StoreOK
  BY DEF IInv, StoreOK, RowOK
<1>3. task[t].consumed \in Nat /\ task[t].attempt \in Nat
  BY <1>2, ConstantsAssumption DEF Rows
<1>4. task[t].status \notin Terminal \cup {"absent"}
  BY DEF RequestCancellation
<1>5. CASE task[t].status \in Active /\ task[t].cancel
  <2>1. UNCHANGED store
    BY <1>5 DEF RequestCancellation, store
  <2> QED
    BY <1>1, <2>1, StoreUnchanged DEF StepOK
<1>6. CASE task[t].status \in Active /\ ~task[t].cancel
  <2> DEFINE r == [task[t] EXCEPT !.cancel = TRUE]
  <2>1. task' = [task EXCEPT ![t] = r] /\ UNCHANGED <<resv, team>>
    BY <1>2, <1>6 DEF RequestCancellation, Rows
  <2>2. /\ r \in Rows /\ r.status = task[t].status /\ r.consumed = task[t].consumed
        /\ r.link = task[t].link /\ r.token = task[t].token /\ r.live = task[t].live
        /\ r.kind = task[t].kind /\ r.max = task[t].max /\ r.attempt = task[t].attempt
    BY <1>2 DEF Rows
  <2> HIDE DEF r
  <2>3. RowFits(r) /\ r.attempt >= task[t].attempt
    BY <1>2, <1>3, <1>6, <2>2 DEF RowFits, Active
  <2>4. r.status \notin Terminal \cup {"absent"}
        /\ r.status \notin {"succeeded", "failed", "queued"}
    BY <1>4, <1>6, <2>2 DEF Active
  <2>5. StoreStep
    BY <1>2, <1>4, <2>1, <2>2, <2>3, <2>4, PlainChange
  <2>6. ReportOK
    BY <1>2, <2>1, <2>4, RowReports
  <2> QED
    BY <1>1, <2>5, <2>6 DEF StepOK
<1>7. CASE task[t].status \notin Active
  <2> DEFINE r == [task[t] EXCEPT !.cancel = TRUE, !.status = "cancelled"]
  <2>1. ~task[t].cancel
    BY <1>2, <1>4, <1>7 DEF RowFits
  <2>2. task' = [task EXCEPT ![t] = r]
    BY <1>2, <1>7, <2>1 DEF RequestCancellation, Rows
  <2>3. Settle(t, 0, TRUE)
    BY <1>7, Zenon DEF RequestCancellation
  <2>4. /\ r \in Rows /\ r.status = "cancelled" /\ r.consumed = task[t].consumed
        /\ r.link = task[t].link /\ r.token = task[t].token /\ r.live = task[t].live
        /\ r.kind = task[t].kind /\ r.max = task[t].max /\ r.attempt = task[t].attempt
    BY <1>2 DEF Rows, Statuses
  <2> HIDE DEF r
  <2>5. RowFits(r)
    BY <1>2, <1>7, <2>4 DEF RowFits, Active, Terminal
  <2>6. r.consumed - task[t].consumed = 0 /\ r.attempt >= task[t].attempt
        /\ r.consumed >= task[t].consumed
    BY <1>3, <2>4
  <2>7. Settle(t, r.consumed - task[t].consumed, r.status \in Terminal)
    BY <2>3, <2>4, <2>6 DEF Settle, Released, Terminal
  <2>8. StoreStep
    BY <1>2, <1>4, <2>2, <2>4, <2>5, <2>6, <2>7, SettledChange
  <2>9. ReportOK
    BY <1>2, <1>7, <2>2, RowReports
  <2> QED
    BY <1>1, <2>8, <2>9 DEF StepOK
<1> QED
  BY <1>5, <1>6, <1>7

(* The operators' endpoints and the passing of time.                        *)
LEMMA OthersAreSteps ==
    ASSUME IInv, NEW t \in Tasks,
           \/ Expire(t) \/ Overrun(t)
           \/ \E status \in {"paused", "queued", "cancelled"} : OperatorSets(t, status)
    PROVE  StepOK
<1>1. WorkStep /\ TurnsOK'
  BY WorkUnchanged, TurnsUnchanged DEF Expire, Overrun, OperatorSets, IInv
<1>2. task[t] \in Rows /\ RowFits(task[t]) /\ task \in [Tasks -> Rows] /\ StoreOK
  BY DEF IInv, StoreOK, RowOK
<1>3. CASE Expire(t)
  <2>1. /\ task[t].status \in Active /\ UNCHANGED <<resv, team>>
        /\ task' = [task EXCEPT ![t].live = FALSE]
    BY <1>3 DEF Expire, Leases
  <2> DEFINE r == [task[t] EXCEPT !.live = FALSE]
  <2>2. /\ r \in Rows /\ r.status = task[t].status /\ r.consumed = task[t].consumed
        /\ r.link = task[t].link /\ r.token = task[t].token /\ r.kind = task[t].kind
        /\ r.max = task[t].max /\ r.attempt = task[t].attempt /\ (r.cancel => task[t].cancel)
        /\ (r.live => task[t].live)
        /\ task' = [task EXCEPT ![t] = r]
    BY <1>2, <2>1 DEF Rows
  <2> HIDE DEF r
  <2>3. task[t].status \notin Terminal \cup {"absent"} /\ (r.live => r.status \in Active)
    BY <1>2, <2>1, <2>2 DEF RowFits, NoTask, Active, Terminal
  <2>4. StoreStep /\ ReportOK
    BY <1>2, <2>1, <2>2, <2>3, ColumnChange
  <2> QED
    BY <1>1, <2>4 DEF StepOK
<1>4. CASE Overrun(t)
  <2>1. /\ task[t].status \notin Terminal /\ task[t].attempt > 0 /\ UNCHANGED <<resv, team>>
        /\ task' = [task EXCEPT ![t].overdue = TRUE]
    BY <1>4 DEF Overrun
  <2> DEFINE r == [task[t] EXCEPT !.overdue = TRUE]
  <2>2. /\ r \in Rows /\ r.status = task[t].status /\ r.consumed = task[t].consumed
        /\ r.link = task[t].link /\ r.token = task[t].token /\ r.kind = task[t].kind
        /\ r.max = task[t].max /\ r.attempt = task[t].attempt /\ (r.cancel => task[t].cancel)
        /\ (r.live => task[t].live)
        /\ task' = [task EXCEPT ![t] = r]
    BY <1>2, <2>1 DEF Rows
  <2> HIDE DEF r
  <2>3. task[t].status \notin Terminal \cup {"absent"} /\ (r.live => r.status \in Active)
    BY <1>2, <2>1, <2>2 DEF RowFits, NoTask, Active, Terminal
  <2>4. StoreStep /\ ReportOK
    BY <1>2, <2>1, <2>2, <2>3, ColumnChange
  <2> QED
    BY <1>1, <2>4 DEF StepOK
<1>5. ASSUME NEW status \in {"paused", "queued", "cancelled"}, OperatorSets(t, status)
      PROVE  StepOK
  BY <1>1, <1>5, SetStatusIsStep DEF OperatorSets, StepOK
<1> QED
  BY <1>3, <1>4, <1>5

(* New tasks, direct consumption and the kill switch.                       *)
LEMMA TeamIsStep ==
    ASSUME IInv, Creates \/ Consumes \/ Switches
    PROVE  StepOK
<1>1. UNCHANGED <<wk, turn, resume>>
  BY DEF Creates, Consumes, Switches, Create, Consume, SetEnabled
<1>2. StoreStep /\ WorkStep /\ TurnsOK'
  BY <1>1, WorkUnchanged, TurnsUnchanged DEF StoreStep, IInv
<1>3. CASE Creates
  <2>1. PICK kind \in Kinds, max \in Costs : Create(kind, max)
    BY <1>3 DEF Creates
  <2>2. PICK t \in Tasks :
          /\ task[t] = NoTask
          /\ task' = [task EXCEPT ![t] = [NoTask EXCEPT !.status = "queued",
                                                    !.kind = kind, !.max = max]]
    BY <2>1, NextRow DEF IInv
  <2>3. task[t].status \notin Active
    BY <2>2 DEF NoTask, Active
  <2>4. ReportOK
    BY <2>2, <2>3, RowReports DEF IInv, StoreOK
  <2> QED
    BY <1>2, <2>4 DEF StepOK
<1>4. CASE Consumes
  <2>1. UNCHANGED task
    BY <1>4 DEF Consumes, Consume
  <2>2. ReportOK
    BY <2>1 DEF ReportOK, Active
  <2> QED
    BY <1>2, <2>2 DEF StepOK
<1>5. CASE Switches
  <2>1. \A t \in Tasks : task'[t] = task[t] \/ task'[t].status = "cancelled"
    BY <1>5, SwitchRows DEF Switches, IInv
  <2>2. ReportOK
    BY <2>1 DEF ReportOK, Active
  <2> QED
    BY <1>2, <2>2 DEF StepOK
<1> QED
  BY <1>3, <1>4, <1>5

(* Every step of the system.                                                *)
LEMMA NextIsStep ==
    ASSUME IInv, [Next]_vars
    PROVE  StepOK
<1>1. CASE UNCHANGED vars
  <2>1. UNCHANGED store /\ UNCHANGED <<turn, resume>> /\ wk' = wk
    BY <1>1 DEF vars, store
  <2> QED
    BY <2>1, StoreUnchanged, WorkUnchanged, TurnsUnchanged DEF StepOK, IInv
<1>2. ASSUME NEW w \in Workers, Worker(w) PROVE StepOK
  BY <1>2, WorkerIsStep
<1>3. ASSUME NEW t \in Tasks,
             \/ ResumeTurn(t) \/ EndResumed(t) \/ Reconcile(t) \/ CloseSession(t)
             \/ RequestCancellation(t) \/ Expire(t) \/ Overrun(t)
             \/ \E status \in {"paused", "queued", "cancelled"} : OperatorSets(t, status)
      PROVE  StepOK
  BY <1>3, AroundIsStep, ReconcileIsStep, CancellationIsStep, OthersAreSteps
<1>4. ASSUME CrashDaemon \/ \E w \in RunnerWorkers : CrashRunner(w) PROVE StepOK
  BY <1>4, AroundIsStep
<1>5. ASSUME Creates \/ Consumes \/ Switches PROVE StepOK
  BY <1>5, TeamIsStep
<1> QED
  BY <1>1, <1>2, <1>3, <1>4, <1>5 DEF Next, Creates, Consumes, Switches

-----------------------------------------------------------------------------
(* The invariant.                                                           *)

(* Attempts only grow, and a row keeps its kind.                            *)
LEMMA AttemptsGrow ==
    ASSUME StoreOK, StoreStep, NEW t \in Tasks, task[t].status # "absent"
    PROVE  task'[t].attempt >= task[t].attempt /\ task'[t].kind = task[t].kind
<1>1. task \in [Tasks -> Rows] /\ task[t].attempt \in Nat
  BY ConstantsAssumption DEF StoreOK, Rows
<1>2. CASE UNCHANGED store \/ Consumes
  <2>1. task' = task
    BY <1>2 DEF store, Consumes, Consume
  <2> QED
    BY <1>1, <2>1
<1>3. CASE \E u \in Tasks : \E r \in Rows, q \in Reservations : RowStep(u, r, q)
  BY <1>1, <1>3 DEF RowStep
<1>4. CASE Creates
  <2>1. PICK kind \in Kinds, max \in Costs : Create(kind, max)
    BY <1>4 DEF Creates
  <2>2. PICK u \in Tasks :
          /\ task[u] = NoTask
          /\ task' = [task EXCEPT ![u] = [NoTask EXCEPT !.status = "queued",
                                                    !.kind = kind, !.max = max]]
    BY <2>1, NextRow
  <2>3. u # t
    BY <2>2 DEF NoTask
  <2> QED
    BY <1>1, <2>2, <2>3
<1>5. CASE Switches
  BY <1>1, <1>5, SwitchRows DEF Switches
<1> QED
  BY <1>2, <1>3, <1>4, <1>5 DEF StoreStep

(* Workers keep an attempt of their task.                                   *)
LEMMA WorkStepKeeps ==
    ASSUME IInv, StoreStep, WorkStep
    PROVE  WorkOK'
<1>1. ASSUME NEW w \in Workers PROVE WorkerOK(w)'
  <2>1. WorkerOK(w) /\ Continues(w) /\ wk[w] \in Works
    BY DEF IInv, WorkOK, WorkStep
  <2>2. CASE wk'[w].pc = "idle" /\ wk'[w].task = 0
    BY <2>2 DEF WorkerOK
  <2>3. CASE /\ wk'[w].pc # "idle" /\ wk[w].task # 0
             /\ wk'[w].task = wk[w].task /\ wk'[w].token = wk[w].token
    <3>1. PICK t \in Tasks : t = wk[w].task
      BY <2>1, <2>3 DEF WorkerOK
    <3>2. task[t] \in Rows /\ RowFits(task[t]) /\ StoreOK /\ StoreOK'
      BY StoreStepKeeps DEF IInv, StoreOK, RowOK
    <3>3. wk[w].token \in 1 .. task[t].attempt /\ task[t].kind = KindOf(w)
      BY <2>1, <2>3, <3>1 DEF WorkerOK
    <3>4. task[t].attempt \in Nat /\ task'[t].attempt \in Nat /\ t \in Nat \ {0}
      BY <3>2, ConstantsAssumption, TasksFinite DEF Rows, StoreOK
    <3>5. task[t].status # "absent"
      BY <3>2, <3>3, <3>4 DEF RowFits, NoTask
    <3>6. task'[t].attempt >= task[t].attempt /\ task'[t].kind = task[t].kind
      BY <3>2, <3>5, AttemptsGrow
    <3>7. /\ wk'[w].task = t /\ wk'[w].token \in 1 .. task'[t].attempt
          /\ task'[t].kind = KindOf(w)
      BY <2>3, <3>1, <3>3, <3>4, <3>6
    <3> QED
      BY <2>3, <3>4, <3>7 DEF WorkerOK, KindOf
  <2> QED
    BY <2>1, <2>2, <2>3 DEF Continues
<1> QED
  BY <1>1 DEF WorkOK, WorkStep

(* The invariant holds initially.                                           *)
LEMMA InitIInv ==
    ASSUME Init
    PROVE  IInv
<1>1. /\ MaxAttempts \in Nat /\ 0 \in 0 .. MaxAttempts /\ Limit \in Nat
  BY ConstantsAssumption
<1>2. NoTask \in Rows /\ RowFits(NoTask)
  BY <1>1 DEF NoTask, Rows, Statuses, RowFits, Active, Terminal
<1>3. /\ task \in [Tasks -> Rows] /\ resv \in [Tasks -> Reservations]
      /\ team \in [reserved : Nat, consumed : Nat, other : Nat, enabled : BOOLEAN]
      /\ \A t \in Tasks : task[t] = NoTask
      /\ \A t \in Tasks : resv[t].status = "none" /\ resv[t].remaining = 0 /\ resv[t].settled = 0
      /\ team.reserved = 0 /\ team.consumed = 0 /\ team.other = 0
  BY <1>2 DEF Init, Reservations
<1>4. \A t \in Tasks : RowOK(task[t], resv[t])
  <2>1. /\ NoTask.max = 0 /\ NoTask.consumed = 0 /\ NoTask.status = "absent"
        /\ "absent" \notin Terminal
    BY DEF NoTask, Terminal
  <2>2. \A t \in Tasks : ReservationFits(NoTask, resv[t])
    BY <1>3, <2>1 DEF ReservationFits
  <2> QED
    BY <1>2, <1>3, <2>2 DEF RowOK
<1>5. BudgetConserved
  <2> DEFINE f == [t \in Tasks |-> resv[t].remaining]
             g == [t \in Tasks |-> resv[t].settled]
  <2>1. /\ f \in [Tasks -> Nat] /\ \A t \in Tasks : f[t] = 0
        /\ g \in [Tasks -> Nat] /\ \A t \in Tasks : g[t] = 0
    BY <1>3
  <2> HIDE DEF f, g
  <2>2. SumFunction(f) = 0 /\ SumFunction(g) = 0
    BY <2>1, TasksFinite, SumZero
  <2> QED
    BY <1>3, <2>2 DEF BudgetConserved, f, g
<1>6. CreatedInOrder
  <2>1. Created = {}
    BY <1>3 DEF Created, NoTask
  <2> QED
    BY <2>1, FS_EmptySet, TasksFinite DEF CreatedInOrder
<1>7. WithinLimit
  BY <1>1, <1>3 DEF WithinLimit
<1>8. WorkOK
  BY DEF Init, WorkOK, WorkerOK, Works, Pcs, Idle
<1>9. TurnsOK
  BY DEF Init, TurnsOK
<1> QED
  BY <1>3, <1>4, <1>5, <1>6, <1>7, <1>8, <1>9 DEF IInv, StoreOK

(* ... and every step keeps it.                                             *)
LEMMA NextIInv ==
    ASSUME IInv, [Next]_vars
    PROVE  IInv'
<1>1. StepOK
  BY NextIsStep
<1>2. StoreOK'
  BY <1>1, StoreStepKeeps DEF StepOK, IInv
<1>3. WorkOK'
  BY <1>1, WorkStepKeeps DEF StepOK
<1> QED
  BY <1>1, <1>2, <1>3 DEF StepOK, IInv

(* The invariant implies what the runs check.                               *)
LEMMA IInvAccounts ==
    ASSUME IInv
    PROVE  AccountsConsistent
<1>1. ASSUME NEW t \in Tasks
      PROVE  /\ task[t].status \in Statuses
             /\ task[t].attempt \in 0 .. MaxAttempts
             /\ task[t].token = IF task[t].status \in Active THEN task[t].attempt ELSE 0
             /\ task[t].live => task[t].status \in Active
             /\ task[t].max \in Costs \cup {0} /\ task[t].consumed \in 0 .. task[t].max
             /\ task[t].link \in 0 .. task[t].attempt
             /\ turn[t].state \in {"closed", "open", "awaiting"}
             /\ resume[t].state \in {"none", "running", "completed", "failed"}
  <2>1. task[t] \in Rows /\ RowFits(task[t])
    BY DEF IInv, StoreOK, RowOK
  <2>2. task[t].consumed \in Nat /\ task[t].max \in Nat /\ task[t].link \in Nat
        /\ task[t].attempt \in 0 .. MaxAttempts /\ task[t].attempt \in Nat
    BY <2>1, ConstantsAssumption DEF Rows
  <2>3. turn[t].state \in {"closed", "open", "awaiting"}
        /\ resume[t].state \in {"none", "running", "completed", "failed"}
    BY DEF IInv, TurnsOK
  <2> QED
    BY <2>1, <2>2, <2>3 DEF Rows, RowFits
<1>2. {team.reserved, team.consumed, team.other} \subseteq Nat
  BY DEF IInv, StoreOK
<1>3. \A w \in Workers : WorkerOK(w)
  BY DEF IInv, WorkOK
<1>4. TypeOK
  BY <1>1, <1>2, <1>3 DEF TypeOK, WorkerOK
<1>5. ReservationTracksTask
  BY DEF ReservationTracksTask, IInv, StoreOK, RowOK, ReservationFits
<1> QED
  BY <1>4, <1>5 DEF AccountsConsistent, IInv, StoreOK

(* The inductive invariant always holds.                                    *)
LEMMA AlwaysIInv == Spec => []IInv
<1>1. Init => IInv
  BY InitIInv
<1>2. IInv /\ [Next]_vars => IInv'
  BY NextIInv
<1> QED
  BY <1>1, <1>2, PTL DEF Spec

(* For any number of tasks, workers and attempts, any costs and any limit:  *)
(* rows and workers keep their types, the team's totals are those of the    *)
(* reservation rows, and a reservation follows its task to every end        *)
(* (settle_durable_budget, set_team_durable_tasks_enabled).                 *)
THEOREM BudgetFollowsTasks == Spec => []AccountsConsistent
<1>1. IInv => AccountsConsistent
  BY IInvAccounts
<1> QED
  BY <1>1, AlwaysIInv, PTL

(* Leased work succeeds, fails or is queued again only by a report of the   *)
(* worker with the latest lease, and a row that is over is not written      *)
(* again (update_leased_task, fail_durable_task, set_durable_task_status).  *)
THEOREM LatestLeaseReports == Spec => OnlyLeaseholderReports
<1> DEFINE A == \A t \in Tasks :
        /\ /\ task[t].status \in Active
           /\ task'[t].status \in {"succeeded", "failed", "queued"}
           => \E w \in Workers : /\ wk[w].task = t /\ wk'[w] # wk[w]
                                 /\ wk[w].token = task[t].attempt
        /\ task[t].status \in Terminal => task'[t] = task[t]
<1>1. ASSUME IInv, [Next]_vars PROVE A
  <2>1. StepOK /\ StoreOK /\ task \in [Tasks -> Rows]
    BY <1>1, NextIsStep DEF IInv, StoreOK
  <2>2. ASSUME NEW t \in Tasks, task[t].status \in Terminal PROVE task'[t] = task[t]
    <3>1. CASE UNCHANGED store \/ Consumes
      BY <3>1 DEF store, Consumes, Consume
    <3>2. CASE \E u \in Tasks : \E r \in Rows, q \in Reservations : RowStep(u, r, q)
      BY <2>1, <2>2, <3>2 DEF RowStep
    <3>3. CASE Creates
      <4>1. PICK kind \in Kinds, max \in Costs : Create(kind, max)
        BY <3>3 DEF Creates
      <4>2. PICK u \in Tasks :
              /\ task[u] = NoTask
              /\ task' = [task EXCEPT ![u] = [NoTask EXCEPT !.status = "queued",
                                                        !.kind = kind, !.max = max]]
        BY <2>1, <4>1, NextRow
      <4>3. u # t
        BY <2>2, <4>2 DEF NoTask, Terminal
      <4> QED
        BY <2>1, <4>2, <4>3
    <3>4. CASE Switches
      BY <2>1, <2>2, <3>4, SwitchRows DEF Switches
    <3> QED
      BY <2>1, <3>1, <3>2, <3>3, <3>4 DEF StepOK, StoreStep
  <2> QED
    BY <2>1, <2>2 DEF StepOK, ReportOK
<1>2. IInv /\ [Next]_vars => [A]_vars
  BY <1>1
<1> QED
  BY <1>2, AlwaysIInv, PTL DEF Spec, OnlyLeaseholderReports

-----------------------------------------------------------------------------
(* The ledger.                                                              *)

(* The sum of the ledger's module is the sum of this one.                   *)
LEMMA SameSum ==
    ASSUME NEW f
    PROVE  Ledger!SumFunction(f) = SumFunction(f)
  BY DEF SumFunction, SumFunctionOnSet, FoldFunctionOnSet, MapThenFoldSet,
         Ledger!SumFunction, Ledger!SumFunctionOnSet, Ledger!FoldFunctionOnSet,
         Ledger!MapThenFoldSet

(* A total over the tasks of a sum of two terms.                            *)
LEMMA TotalAdd ==
    ASSUME NEW f \in [Tasks -> Nat], NEW g \in [Tasks -> Nat], NEW h \in [Tasks -> Nat],
           \A t \in Tasks : h[t] = f[t] + g[t]
    PROVE  SumFunction(h) = SumFunction(f) + SumFunction(g)
<1>1. IsFiniteSet(Tasks)
  BY TasksFinite
<1> QED
  BY <1>1, SumAdd, SMTT(60)

(* What the ledger is committed to, summed over the tasks, is what the      *)
(* store has booked by increments.                                          *)
LEMMA CommittedIsBooked ==
    ASSUME StoreOK
    PROVE  Ledger!Committed = team.consumed + team.reserved
<1> DEFINE paid == [t \in Tasks |-> resv[t].settled]
           left == [t \in Tasks |-> resv[t].remaining]
           h == [t \in Tasks |-> IF task[t].status \in Terminal \cup {"absent"}
                                 THEN task[t].consumed ELSE task[t].max]
<1>1. ASSUME NEW t \in Tasks
      PROVE  /\ paid[t] \in Nat /\ left[t] \in Nat /\ h[t] \in Nat /\ h[t] = paid[t] + left[t]
  <2>1. /\ task[t] \in Rows /\ resv[t] \in Reservations /\ RowOK(task[t], resv[t])
    BY DEF StoreOK
  <2>2. /\ task[t].consumed \in Nat /\ task[t].max \in Nat
        /\ resv[t].settled \in Nat /\ resv[t].remaining \in Nat
    BY <2>1 DEF Rows, Reservations
  <2>3. /\ resv[t].settled = task[t].consumed
        /\ resv[t].remaining = IF task[t].status \in Terminal THEN 0
                               ELSE task[t].max - task[t].consumed
        /\ task[t].status = "absent" => task[t].max = 0 /\ task[t].consumed = 0
    BY <2>1 DEF RowOK, RowFits, ReservationFits, NoTask
  <2> QED
    BY <2>2, <2>3
<1>2. /\ paid \in [Tasks -> Nat] /\ left \in [Tasks -> Nat] /\ h \in [Tasks -> Nat]
      /\ \A t \in Tasks : h[t] = paid[t] + left[t]
  BY <1>1
<1>3. Ledger!Committed = team.other + SumFunction(h)
  <2>1. [t \in Tasks |->
           IF [u \in Tasks |-> IF task[u].status = "absent" THEN "none"
                               ELSE IF task[u].status \in Terminal THEN "closed"
                               ELSE "open"][t] = "open"
           THEN [u \in Tasks |-> task[u].max][t]
           ELSE [u \in Tasks |-> task[u].consumed][t]] = h
    OBVIOUS
  <2> QED
    BY <2>1, SameSum DEF Ledger!Committed
<1>4. /\ team.reserved = SumFunction(left)
      /\ team.consumed = team.other + SumFunction(paid)
      /\ team.other \in Nat
  BY DEF StoreOK, BudgetConserved
<1> HIDE DEF paid, left, h
<1>5. SumFunction(h) = SumFunction(paid) + SumFunction(left)
  BY <1>2, TotalAdd
<1>6. SumFunction(paid) \in Nat /\ SumFunction(left) \in Nat
  BY <1>2, TasksFinite, SumType
<1> QED
  BY <1>3, <1>4, <1>5, <1>6

(* What the ledger sees of a row.                                           *)
Phase(r) == IF r.status = "absent" THEN "none"
            ELSE IF r.status \in Terminal THEN "closed" ELSE "open"

(* A step that keeps the phase, the maximum and the consumption of every    *)
(* row is one the ledger does not see.                                      *)
LEMMA Unseen ==
    ASSUME team'.other = team.other,
           \A t \in Tasks : /\ Phase(task'[t]) = Phase(task[t])
                            /\ task'[t].max = task[t].max
                            /\ task'[t].consumed = task[t].consumed
    PROVE  UNCHANGED Ledger!ledger
  BY DEF Ledger!ledger, Phase

(* A transaction on a row charges or closes it.                             *)
LEMMA RowIsLedgerStep ==
    ASSUME StoreOK, NEW t \in Tasks, NEW r \in Rows, NEW q \in Reservations, RowStep(t, r, q)
    PROVE  Ledger!Next
<1>1. /\ task'[t] = r /\ task[t] \in Rows
      /\ \A u \in Tasks : u # t => task'[u] = task[u]
      /\ team'.other = team.other
  BY DEF RowStep, Booked, StoreOK
<1>2. /\ task[t].status \notin Terminal \cup {"absent"} /\ r.status # "absent"
      /\ r.max = task[t].max /\ r.consumed >= task[t].consumed /\ r.consumed <= r.max
  BY DEF RowStep, RowOK, RowFits
<1>3. /\ r.consumed \in Nat /\ task[t].consumed \in Nat /\ task[t].max \in Nat
      /\ r.consumed \in task[t].consumed .. task[t].max
      /\ r.consumed \in 0 .. task[t].max
  BY <1>1, <1>2 DEF Rows
<1>4. Ledger!Charge(t, r.consumed) \/ Ledger!Close(t, r.consumed)
  <2>1. CASE r.status \in Terminal
    BY <1>1, <1>2, <1>3, <2>1 DEF Ledger!Close
  <2>2. CASE r.status \notin Terminal
    BY <1>1, <1>2, <1>3, <2>2 DEF Ledger!Charge
  <2> QED
    BY <2>1, <2>2
<1> QED
  BY <1>3, <1>4 DEF Ledger!Next

(* A creation opens the task, and the ledger can afford it.                 *)
LEMMA CreateIsLedgerStep ==
    ASSUME StoreOK, NEW kind \in Kinds, NEW max \in Costs, Create(kind, max)
    PROVE  Ledger!Next
<1>1. PICK t \in Tasks :
        /\ task[t] = NoTask
        /\ task' = [task EXCEPT ![t] = [NoTask EXCEPT !.status = "queued",
                                            !.kind = kind, !.max = max]]
  BY NextRow
<1>2. /\ task'[t].status = "queued" /\ task'[t].max = max /\ task'[t].consumed = 0
      /\ task[t].status = "absent" /\ task[t].max = 0 /\ task[t].consumed = 0
      /\ \A u \in Tasks : u # t => task'[u] = task[u]
  BY <1>1 DEF StoreOK, NoTask
<1>3. team'.other = team.other
  BY DEF Create, StoreOK
<1>4. Ledger!Affordable(max)
  <2>1. /\ team.consumed \in Nat /\ team.reserved \in Nat /\ max \in Nat /\ Limit \in Nat
    BY ConstantsAssumption DEF StoreOK
  <2>2. HardLimit => team.consumed + team.reserved + max <= Limit
    BY <2>1 DEF Create, StoreOK, WithinLimit
  <2> QED
    BY <2>2, CommittedIsBooked DEF Ledger!Affordable
<1>5. Ledger!Open(t, max)
  BY <1>2, <1>3, <1>4 DEF Ledger!Open, Terminal
<1> QED
  BY <1>5 DEF Ledger!Next

(* Every change of the store is a step of the ledger, or unseen by it.      *)
LEMMA StoreStepIsLedgerStep ==
    ASSUME StoreOK, StoreStep
    PROVE  [Ledger!Next]_(Ledger!ledger)
<1>1. CASE UNCHANGED store
  BY <1>1, Unseen DEF store
<1>2. CASE \E t \in Tasks : \E r \in Rows, q \in Reservations : RowStep(t, r, q)
  BY <1>2, RowIsLedgerStep
<1>3. CASE Creates
  BY <1>3, CreateIsLedgerStep DEF Creates
<1>4. CASE Consumes
  <2>1. PICK n \in Costs : Consume(n)
    BY <1>4 DEF Consumes
  <2>2. task' = task /\ team'.other = team.other + n
    BY <2>1 DEF Consume, StoreOK
  <2>3. Ledger!Affordable(n)
    BY <2>1, CommittedIsBooked DEF Consume, Ledger!Affordable
  <2>4. Ledger!Spend(n)
    BY <2>2, <2>3 DEF Ledger!Spend
  <2> QED
    BY <2>4 DEF Ledger!Next
<1>5. CASE Switches
  <2>1. PICK enabled \in BOOLEAN : SetEnabled(enabled)
    BY <1>5 DEF Switches
  <2>2. team'.other = team.other
    BY <2>1, SwitchRows
  <2>3. CASE enabled
    <3>1. \A t \in Tasks : task'[t] = task[t]
      BY <2>1, <2>3, SwitchRows
    <3> QED
      BY <2>2, <3>1, Unseen
  <2>4. CASE ~enabled
    <3>1. \A t \in Tasks : IF task[t].status \in Terminal \cup {"absent"} THEN task'[t] = task[t]
                           ELSE /\ task'[t].status = "cancelled" /\ task'[t].max = task[t].max
                                /\ task'[t].consumed = task[t].consumed
      BY <2>1, <2>4, SwitchRows
    <3>2. Ledger!CloseAll
      BY <2>2, <3>1 DEF Ledger!CloseAll, Terminal
    <3> QED
      BY <3>2 DEF Ledger!Next
  <2> QED
    BY <2>3, <2>4
<1> QED
  BY <1>1, <1>2, <1>3, <1>4, <1>5 DEF StoreStep

(* The store, with its leases, retries, reservation rows and totals kept by *)
(* increments, implements the ledger of BudgetLedger: in particular, under  *)
(* a hard limit no work is opened and nothing is spent directly unless all  *)
(* that may still be spent fits (create_durable_task, consume_team_budget). *)
THEOREM StoreKeepsLedger == Spec => KeepsLedger
<1>1. Init => Ledger!Init
  BY DEF Init, Ledger!Init, NoTask
<1>2. IInv /\ [Next]_vars => [Ledger!Next]_(Ledger!ledger)
  BY NextIsStep, StoreStepIsLedgerStep DEF IInv, StepOK
<1> QED
  BY <1>1, <1>2, AlwaysIInv, PTL DEF Spec, KeepsLedger, Ledger!Spec
=============================================================================
