------------------------- MODULE ToolScheduleProofs -------------------------
(***************************************************************************)
(* Proofs about ToolSchedule for any number of calls, any claims and any   *)
(* resources: conflicting calls keep the order of the response, and the    *)
(* concurrent execution is indistinguishable from the sequential one.      *)
(***************************************************************************)
EXTENDS ToolSchedule, TLAPS

-----------------------------------------------------------------------------
(* The conflict relation.                                                  *)

\* It does not matter which of two calls the scheduler asks about the other.
LEMMA ConflictSymmetric ==
    ASSUME NEW A, NEW B
    PROVE  ToolsConflict(A, B) <=> ToolsConflict(B, A)
BY DEF ToolsConflict, ConflictsWith, KeysOverlap

\* Two keys that both name or contain the key of one resource overlap.
LEMMA CommonResourceOverlaps ==
    ASSUME NEW l \in ClaimType(STRING), NEW r \in ClaimType(STRING),
           NEW k \in Seq(STRING),
           l.key = k \/ (l.recursive /\ ContainsKey(l.key, k)),
           r.key = k \/ (r.recursive /\ ContainsKey(r.key, k))
    PROVE  KeysOverlap(l, r)
<1> DEFINE lk == l.key  rk == r.key
<1>1. lk \in Seq(STRING) /\ rk \in Seq(STRING)
      BY DEF ClaimType
<1>2. CASE lk = k \/ rk = k
      BY <1>2 DEF KeysOverlap
<1>3. CASE lk # k /\ rk # k
  <2>1. l.recursive /\ r.recursive /\ ContainsKey(lk, k) /\ ContainsKey(rk, k)
        BY <1>3
  <2>2. CASE lk = <<>> \/ rk = <<>>
        BY <2>1, <2>2 DEF KeysOverlap, ContainsKey
  <2>3. CASE lk # <<>> /\ rk # <<>>
    <3>1. /\ \A i \in 1..Len(lk) : lk[i] = k[i]
          /\ \A i \in 1..Len(rk) : rk[i] = k[i]
          /\ Len(lk) < Len(k) /\ Len(rk) < Len(k)
          BY <2>1, <2>3 DEF ContainsKey
    <3>2. CASE Len(lk) < Len(rk)
      <4>1. \A i \in 1..Len(lk) : lk[i] = rk[i]
            BY <3>1, <3>2, <1>1
      <4>2. QED BY <4>1, <3>2, <2>1 DEF KeysOverlap, ContainsKey
    <3>3. CASE Len(rk) < Len(lk)
      <4>1. \A i \in 1..Len(rk) : rk[i] = lk[i]
            BY <3>1, <3>3, <1>1
      <4>2. QED BY <4>1, <3>3, <2>1 DEF KeysOverlap, ContainsKey
    <3>4. CASE Len(lk) = Len(rk)
      <4>1. \A i \in 1..Len(lk) : lk[i] = rk[i]
            BY <3>1, <3>4, <1>1
      <4>2. lk = rk
            BY <4>1, <3>4, <1>1
      <4>3. QED BY <4>2 DEF KeysOverlap
    <3>5. QED BY <3>2, <3>3, <3>4, <1>1
  <2>4. QED BY <2>2, <2>3
<1>4. QED BY <1>2, <1>3

\* Calls that touch the same resource, one of them writing, conflict.
LEMMA SharedResourceConflicts ==
    ASSUME NEW A \in SUBSET ClaimType(STRING), NEW B \in SUBSET ClaimType(STRING),
           NEW res \in [namespace : Namespaces \ {"global"}, key : Seq(STRING)],
           \E c \in A : Writes(c.mode) /\ ClaimCovers(c, res),
           \E c \in B : ClaimCovers(c, res)
    PROVE  ToolsConflict(A, B)
<1>1. PICK a \in A : Writes(a.mode) /\ ClaimCovers(a, res)
      OBVIOUS
<1>2. PICK b \in B : ClaimCovers(b, res)
      OBVIOUS
<1>3. CASE a.namespace = "global" \/ b.namespace = "global"
      BY <1>3 DEF ToolsConflict, ConflictsWith
<1>4. CASE a.namespace # "global" /\ b.namespace # "global"
  <2>1. a.namespace = b.namespace
        BY <1>1, <1>2, <1>4 DEF ClaimCovers
  <2>2. KeysOverlap(a, b)
    <3>1. res.key \in Seq(STRING)
          OBVIOUS
    <3>2. a \in ClaimType(STRING) /\ b \in ClaimType(STRING)
          OBVIOUS
    <3>3. a.key = res.key \/ (a.recursive /\ ContainsKey(a.key, res.key))
          BY <1>1, <1>4 DEF ClaimCovers
    <3>4. b.key = res.key \/ (b.recursive /\ ContainsKey(b.key, res.key))
          BY <1>2, <1>4 DEF ClaimCovers
    <3>5. QED BY ONLY <3>1, <3>2, <3>3, <3>4, CommonResourceOverlaps
  <2>3. QED BY <1>1, <2>1, <2>2 DEF ToolsConflict, ConflictsWith
<1>5. QED BY <1>3, <1>4

-----------------------------------------------------------------------------
(* The inductive invariant.                                                *)

\* The scan goes through the calls in the order they were pushed: what it has
\* set aside comes before what it has still to look at, both in that order.
Increasing(s) == \A i, j \in 1..Len(s) : i < j => s[i] < s[j]

Before(s, u) == \A i \in 1..Len(s), j \in 1..Len(u) : s[i] < u[j]

InOrder == Increasing(waiting) /\ Increasing(blocked) /\ Before(blocked, waiting)

\* Only pushed calls have a status, a waiting call is queued, and the wave is
\* made of the calls that are ready or run, and of those that just finished.
StatusOK ==
    /\ \A t \in Tool : t > pushed <=> status[t] = "unknown"
    /\ \A t \in Tool : status[t] = "waiting" =>
          \/ \E i \in 1..Len(waiting) : waiting[i] = t
          \/ \E i \in 1..Len(blocked) : blocked[i] = t
    /\ \A i \in 1..Len(waiting) : status[waiting[i]] = "waiting"
    /\ \A i \in 1..Len(blocked) : status[blocked[i]] = "waiting"
    /\ \A t \in Tool : status[t] \in {"ready", "running"} => t \in wave
    /\ \A t \in wave : status[t] \in {"ready", "running", "done"}

PhaseOK ==
    /\ phase = "prepare" => wave = {} /\ \A t \in Tool : status[t] \in {"unknown", "waiting"}
    /\ phase # "scan" => blocked = <<>>
    /\ phase = "scan" => \A t \in Tool : status[t] # "running"
    /\ \A t \in Tool : status[t] \in {"deferred", "dropped"} => phase = "end"

\* A call is admitted to a wave only after the earlier calls it conflicts with.
AdmittedInOrder ==
    \A t, u \in Tool :
        /\ t < u /\ Conflict(t, u)
        /\ status[u] \in {"ready", "running", "done"}
        => status[t] = "done"

IInv == TypeOK /\ InOrder /\ StatusOK /\ PhaseOK /\ AdmittedInOrder /\ NoConflictingWave

\* normalized_claims yields claims whatever the call declared: the ones declared,
\* or the claim of everything.
LEMMA NormalizedType ==
    ASSUME NEW c \in ClaimSets
    PROVE  NormalizedClaims(c) \in SUBSET ClaimType(STRING)
<1>1. <<>> \in Seq(STRING)
      OBVIOUS
<1>2. "global" \in Namespaces /\ "read_write" \in Modes
      BY DEF Namespaces, Modes
<1>3. GlobalExclusive \in ClaimType(STRING)
      BY <1>1, <1>2 DEF GlobalExclusive, ClaimType
<1>4. QED BY <1>3, ResourcesAssumption DEF NormalizedClaims

\* What Push and the scan's set-aside do to a queue: one element more, at the end.
LEMMA AppendFacts ==
    ASSUME NEW S, NEW s \in Seq(S), NEW e \in S
    PROVE  /\ Append(s, e) \in Seq(S)
           /\ Len(Append(s, e)) = Len(s) + 1
           /\ \A i \in 1..Len(s) : Append(s, e)[i] = s[i]
           /\ Append(s, e)[Len(s) + 1] = e
OBVIOUS

\* What the scan leaves of the waiting calls once it has taken the first.
LEMMA TailFacts ==
    ASSUME NEW S, NEW s \in Seq(S), s # <<>>
    PROVE  /\ Head(s) \in S /\ s[1] = Head(s) /\ Len(s) \in Nat /\ Len(s) > 0
           /\ Tail(s) \in Seq(S)
           /\ Len(Tail(s)) = Len(s) - 1
           /\ \A i \in 1..Len(Tail(s)) : Tail(s)[i] = s[i + 1]
OBVIOUS

\* A queue stays in response order when a later call is put at its end.
LEMMA AppendIncreasing ==
    ASSUME NEW S, \A x \in S : x \in Int, NEW s \in Seq(S), NEW e \in S,
           Increasing(s), \A i \in 1..Len(s) : s[i] < e
    PROVE  Increasing(Append(s, e))
<1>1. \A i \in 1..Len(s) : s[i] \in S
      OBVIOUS
<1>2. Len(s) \in Nat
      OBVIOUS
<1>3. QED BY <1>1, <1>2, AppendFacts DEF Increasing

\* Moving the head of the queue to the calls set aside keeps the order.
LEMMA ScanOrder ==
    ASSUME NEW S, \A x \in S : x \in Int,
           NEW w \in Seq(S), NEW b \in Seq(S), w # <<>>,
           Increasing(w), Increasing(b), Before(b, w)
    PROVE  /\ Increasing(Tail(w)) /\ Before(b, Tail(w))
           /\ Increasing(Append(b, Head(w))) /\ Before(Append(b, Head(w)), Tail(w))
           /\ \A i \in 1..Len(Tail(w)) : Head(w) < Tail(w)[i]
           /\ \A i \in 1..Len(b) : b[i] < Head(w)
<1>1. /\ Head(w) \in S /\ w[1] = Head(w) /\ Len(w) \in Nat /\ Len(w) > 0
      /\ Len(Tail(w)) = Len(w) - 1
      /\ \A i \in 1..Len(Tail(w)) : Tail(w)[i] = w[i + 1]
      BY TailFacts
<1>2. \A i \in 1..Len(Tail(w)) : i + 1 \in 1..Len(w) /\ i \in Int
      BY <1>1
<1>3. Increasing(Tail(w))
      BY <1>1, <1>2 DEF Increasing
<1>4. Before(b, Tail(w))
      BY <1>1, <1>2 DEF Before
<1>5. \A i \in 1..Len(Tail(w)) : Head(w) < Tail(w)[i]
      BY <1>1, <1>2 DEF Increasing
<1>6. \A i \in 1..Len(b) : b[i] < Head(w)
      BY <1>1 DEF Before
<1>7. Increasing(Append(b, Head(w)))
      BY <1>1, <1>6, AppendIncreasing
<1>8. Before(Append(b, Head(w)), Tail(w))
  <2>1. /\ Len(Append(b, Head(w))) = Len(b) + 1 /\ Len(b) \in Nat
        /\ \A i \in 1..Len(b) : Append(b, Head(w))[i] = b[i]
        /\ Append(b, Head(w))[Len(b) + 1] = Head(w)
        BY <1>1, AppendFacts
  <2>2. QED BY <2>1, <1>4, <1>5 DEF Before
<1>9. QED BY <1>3, <1>4, <1>5, <1>6, <1>7, <1>8

\* What a queue holds after its head is taken, and after one more is added.
LEMMA TailMembers ==
    ASSUME NEW S, NEW w \in Seq(S), w # <<>>, NEW u,
           \E i \in 1..Len(w) : w[i] = u
    PROVE  u = Head(w) \/ \E i \in 1..Len(Tail(w)) : Tail(w)[i] = u
<1>1. PICK i \in 1..Len(w) : w[i] = u
      OBVIOUS
<1>2. i # 1 => i - 1 \in 1..Len(Tail(w)) /\ Tail(w)[i - 1] = u
      BY <1>1, TailFacts
<1>3. QED BY <1>1, <1>2, TailFacts

\* A queue to which a call was added holds that call and what it held before.
LEMMA AppendMembers ==
    ASSUME NEW S, NEW b \in Seq(S), NEW e \in S, NEW u,
           u = e \/ \E i \in 1..Len(b) : b[i] = u
    PROVE  \E i \in 1..Len(Append(b, e)) : Append(b, e)[i] = u
<1>1. Len(b) \in Nat
      OBVIOUS
<1>2. QED BY <1>1, AppendFacts

\* The empty schedule satisfies the invariant.
LEMMA InitIInv == Init => IInv
BY NToolsAssumption DEF Init, IInv, TypeOK, InOrder, StatusOK, PhaseOK, AdmittedInOrder,
   NoConflictingWave, Tool, Statuses, Increasing, Before

\* No step of the scheduler or of the wave loop breaks the types.
LEMMA TypeStep ==
    ASSUME TypeOK, [Next]_vars
    PROVE  TypeOK'
<1> USE NToolsAssumption DEF TypeOK, Tool, Statuses
<1>1. ASSUME NEW c \in ClaimSets, Push(c) PROVE TypeOK'
      BY <1>1, NormalizedType DEF Push
<1>2. ASSUME Prepared PROVE TypeOK'
      BY <1>2 DEF Prepared
<1>3. ASSUME Scan PROVE TypeOK'
  <2>1. Head(waiting) \in Tool /\ Tail(waiting) \in Seq(Tool)
        BY <1>3, TailFacts DEF Scan
  <2>2. Append(blocked, Head(waiting)) \in Seq(Tool)
        BY <2>1, AppendFacts
  <2>3. CASE MustWait(Head(waiting))
        BY <1>3, <2>1, <2>2, <2>3 DEF Scan
  <2>4. CASE ~MustWait(Head(waiting))
        BY <1>3, <2>1, <2>4 DEF Scan
  <2>5. QED BY <2>3, <2>4
<1>4. ASSUME Launch PROVE TypeOK'
      BY <1>4 DEF Launch
<1>5. ASSUME NEW t \in Tool, Start(t) PROVE TypeOK'
      BY <1>5 DEF Start
<1>6. ASSUME NEW t \in Tool, Finish(t) PROVE TypeOK'
      BY <1>6 DEF Finish
<1>7. ASSUME NextWave PROVE TypeOK'
      BY <1>7 DEF NextWave
<1>8. ASSUME Defer PROVE TypeOK'
      BY <1>8 DEF Defer
<1>9. ASSUME Drop PROVE TypeOK'
      BY <1>9 DEF Drop
<1>10. ASSUME UNCHANGED vars PROVE TypeOK'
      BY <1>10 DEF vars
<1>11. QED BY <1>1, <1>2, <1>3, <1>4, <1>5, <1>6, <1>7, <1>8, <1>9, <1>10 DEF Next

\* No step of the scheduler or of the wave loop breaks the inductive invariant.
LEMMA IInvStep ==
    ASSUME IInv, [Next]_vars
    PROVE  IInv'
<1>0. TypeOK' BY TypeStep DEF IInv
<1>1. ASSUME NEW c \in ClaimSets, Push(c) PROVE IInv'
  <2> DEFINE n == pushed + 1
  <2> USE <1>1 DEF IInv, Push, TypeOK
  <2>a. n \in Tool /\ n \in Int /\ pushed \in Int /\ \A t \in Tool : t \in Int
        BY NToolsAssumption DEF Tool
  <2>b. /\ Len(waiting') = Len(waiting) + 1 /\ Len(waiting) \in Nat
        /\ \A i \in 1..Len(waiting) : waiting'[i] = waiting[i]
        /\ waiting'[Len(waiting) + 1] = n
        BY <2>a, AppendFacts
  <2>c. \A i \in 1..Len(waiting) : waiting[i] \in Tool /\ waiting[i] < n
        BY <2>a DEF StatusOK
  <2>d. blocked = <<>> /\ wave = {}
        BY DEF PhaseOK
  <2>1. InOrder'
    <3>1. Increasing(waiting')
          BY <2>a, <2>c, AppendIncreasing DEF InOrder
    <3>2. QED BY <3>1, <2>d DEF InOrder, Increasing, Before
  <2>2. StatusOK'
    <3>1. \A t \in Tool : t > n <=> status'[t] = "unknown"
          BY <2>a DEF StatusOK
    <3>2. \A t \in Tool : status'[t] = "waiting" =>
              \E i \in 1..Len(waiting') : waiting'[i] = t
          BY <2>a, <2>b, <2>d DEF StatusOK
    <3>3. \A i \in 1..Len(waiting') : status'[waiting'[i]] = "waiting"
          BY <2>a, <2>b, <2>c DEF StatusOK
    <3>4. QED BY <3>1, <3>2, <3>3, <2>a, <2>d DEF StatusOK
  <2>3. PhaseOK' BY <2>a DEF PhaseOK
  <2>4. AdmittedInOrder' BY <2>3 DEF PhaseOK, AdmittedInOrder
  <2>5. NoConflictingWave' BY DEF PhaseOK, NoConflictingWave
  <2>6. QED BY <1>0, <2>1, <2>2, <2>3, <2>4, <2>5
<1>2. ASSUME Prepared PROVE IInv'
      BY <1>0, <1>2 DEF IInv, Prepared, InOrder, StatusOK, PhaseOK,
         AdmittedInOrder, NoConflictingWave, Conflict
<1>3. ASSUME Scan PROVE IInv'
  <2> DEFINE t == Head(waiting)
  <2> USE <1>3 DEF IInv, TypeOK
  <2>0. (\A u \in Tool : u \in Int) /\ pushed \in Int
        BY DEF Tool
  <2>1. t \in Tool /\ waiting[1] = t /\ Len(waiting) > 0 /\ Len(waiting) \in Nat
        BY TailFacts DEF Scan
  <2>2. /\ Len(waiting') = Len(waiting) - 1
        /\ \A i \in 1..Len(waiting') : waiting'[i] = waiting[i + 1]
        BY TailFacts DEF Scan
  <2>5. \A i \in 1..Len(waiting) : waiting[i] \in Tool
        OBVIOUS
  <2>6. (\A i \in 1..Len(blocked) : blocked[i] \in Tool) /\ Len(blocked) \in Nat
        OBVIOUS
  <2>7. /\ Increasing(waiting') /\ Before(blocked, waiting')
        /\ Increasing(Append(blocked, t)) /\ Before(Append(blocked, t), waiting')
        /\ \A i \in 1..Len(waiting') : t < waiting'[i]
        /\ \A i \in 1..Len(blocked) : blocked[i] < t
        /\ Increasing(blocked)
        BY <2>0, ScanOrder DEF Scan, InOrder
  <2>3. CASE MustWait(t)
    <3> USE <2>3 DEF Scan
    <3>a. /\ Len(blocked') = Len(blocked) + 1 /\ blocked'[Len(blocked) + 1] = t
          /\ \A i \in 1..Len(blocked) : blocked'[i] = blocked[i]
          BY <2>1, AppendFacts
    <3>1. InOrder' BY <2>7 DEF InOrder
    <3>2. StatusOK'
      <4>1. \A u \in Tool : (\E i \in 1..Len(waiting) : waiting[i] = u) =>
                u = t \/ \E i \in 1..Len(waiting') : waiting'[i] = u
            BY TailMembers
      <4>2. \A u \in Tool : u = t \/ (\E i \in 1..Len(blocked) : blocked[i] = u) =>
                \E i \in 1..Len(blocked') : blocked'[i] = u
        <5>1. blocked \in Seq(Tool) /\ blocked' = Append(blocked, t) OBVIOUS
        <5>2. QED BY ONLY <5>1, <2>1, AppendMembers
      <4>3. \A u \in Tool : status'[u] = "waiting" =>
                \/ \E i \in 1..Len(waiting') : waiting'[i] = u
                \/ \E i \in 1..Len(blocked') : blocked'[i] = u
            BY <4>1, <4>2, ZenonT(60) DEF StatusOK
      <4>4. \A i \in 1..Len(waiting') : status'[waiting'[i]] = "waiting"
            BY <2>1, <2>2 DEF StatusOK
      <4>5. \A i \in 1..Len(blocked') : status'[blocked'[i]] = "waiting"
        <5>1. status[t] = "waiting" BY <2>1 DEF StatusOK
        <5>2. \A i \in 1..Len(blocked) : status[blocked[i]] = "waiting" BY DEF StatusOK
        <5>3. status' = status OBVIOUS
        <5>4. QED BY ONLY <5>1, <5>2, <5>3, <2>6, <3>a
      <4>6. QED BY <4>3, <4>4, <4>5, ZenonT(60) DEF StatusOK
    <3>3. PhaseOK' BY DEF PhaseOK
    <3>4. AdmittedInOrder' BY DEF AdmittedInOrder, Conflict
    <3>5. NoConflictingWave' BY DEF NoConflictingWave, Conflict
    <3>6. QED BY <1>0, <3>1, <3>2, <3>3, <3>4, <3>5
  <2>4. CASE ~MustWait(t)
    <3> USE <2>4 DEF Scan
    <3>1. InOrder' BY <2>7 DEF InOrder
    <3>2. StatusOK'
      <4>1. \A u \in Tool : (\E i \in 1..Len(waiting) : waiting[i] = u) =>
                u = t \/ \E i \in 1..Len(waiting') : waiting'[i] = u
        <5>1. waiting \in Seq(Tool) /\ waiting # <<>> /\ waiting' = Tail(waiting)
              BY DEF Scan
        <5>2. QED BY ONLY <5>1, TailMembers
      <4>2. \A i \in 1..Len(waiting') : waiting'[i] # t /\ waiting'[i] \in Tool
            BY <2>0, <2>1, <2>7, TailFacts
      <4>3. \A i \in 1..Len(blocked) : blocked[i] # t
            BY <2>0, <2>1, <2>6, <2>7
      <4>4. \A u \in Tool : status'[u] = IF u = t THEN "ready" ELSE status[u]
            BY <2>1
      <4>5. \A u \in Tool : status'[u] = "waiting" =>
                \/ \E i \in 1..Len(waiting') : waiting'[i] = u
                \/ \E i \in 1..Len(blocked') : blocked'[i] = u
        <5>1. \A u \in Tool : status'[u] = "waiting" => u # t /\ status[u] = "waiting"
              BY <4>4
        <5>2. \A u \in Tool : status[u] = "waiting" =>
                  \/ \E i \in 1..Len(waiting) : waiting[i] = u
                  \/ \E i \in 1..Len(blocked) : blocked[i] = u
              BY DEF StatusOK
        <5>3. blocked' = blocked OBVIOUS
        <5>4. QED BY ONLY <5>1, <5>2, <5>3, <4>1
      <4>6. \A i \in 1..Len(waiting') : status'[waiting'[i]] = "waiting"
            BY <2>1, <2>2, <4>2, <4>4 DEF StatusOK
      <4>7. \A i \in 1..Len(blocked') : status'[blocked'[i]] = "waiting"
            BY <2>6, <4>3, <4>4 DEF StatusOK
      <4>8. status[t] = "waiting"
            BY <2>1 DEF StatusOK
      <4>9. (\A u \in Tool : u > pushed' <=> status'[u] = "unknown")
            BY <4>4, <4>8 DEF StatusOK
      <4>10. /\ \A u \in Tool : status'[u] \in {"ready", "running"} => u \in wave'
             /\ \A u \in wave' : status'[u] \in {"ready", "running", "done"}
            BY <2>1, <4>4 DEF StatusOK
      <4>11. QED BY <4>5, <4>6, <4>7, <4>9, <4>10 DEF StatusOK
    <3>3. PhaseOK' BY <2>1 DEF PhaseOK
    <3>4. AdmittedInOrder'
      <4> SUFFICES ASSUME NEW s \in Tool, NEW u \in Tool, s < u, Conflict(s, u),
                          status'[u] \in {"ready", "running", "done"}
                   PROVE  status'[s] = "done"
          BY DEF AdmittedInOrder, Conflict
      <4>1. CASE u # t
        <5>1. status[u] = status'[u] BY <4>1
        <5>2. status[s] = "done" BY <5>1 DEF AdmittedInOrder
        <5>3. status[t] = "waiting" BY <2>1 DEF StatusOK
        <5>4. QED BY <5>2, <5>3
      <4>2. CASE u = t
        <5>1. Conflict(t, s) BY <4>2, ConflictSymmetric DEF Conflict
        <5>2. s \notin wave BY <5>1 DEF MustWait
        <5>3. \A i \in 1..Len(blocked) : blocked[i] # s BY <5>1 DEF MustWait
        <5>4. \A i \in 1..Len(waiting) : waiting[i] # s
          <6>1. waiting \in Seq(Tool) /\ waiting # <<>> /\ waiting' = Tail(waiting)
                BY DEF Scan
          <6>2. \A i \in 1..Len(waiting') : waiting'[i] # s
                BY <2>0, <2>1, <2>7, <4>2, TailFacts
          <6>3. s # t BY <2>0, <4>2
          <6>4. QED BY ONLY <6>1, <6>2, <6>3, TailMembers, ZenonT(60)
        <5>5. status[s] # "waiting" BY <5>3, <5>4 DEF StatusOK
        <5>6. status[s] \notin {"ready", "running"} BY <5>2 DEF StatusOK
        <5>7. status[s] # "unknown"
          <6>1. status[t] = "waiting" BY <2>1 DEF StatusOK
          <6>2. ~(t > pushed) BY <6>1, <2>1 DEF StatusOK
          <6>3. ~(s > pushed) BY <6>2, <2>0, <2>1, <4>2
          <6>4. QED BY <6>3 DEF StatusOK
        <5>8. status[s] \notin {"deferred", "dropped"} BY DEF PhaseOK
        <5>9. status[s] = "done"
              BY <5>5, <5>6, <5>7, <5>8 DEF Statuses
        <5>10. s # t BY <2>0, <4>2
        <5>11. QED BY <5>9, <5>10
      <4>3. QED BY <4>1, <4>2
    <3>5. NoConflictingWave'
      <4>1. \A u \in wave : ~Conflict(t, u) /\ ~Conflict(u, t)
            BY ConflictSymmetric DEF MustWait, Conflict
      <4>2. QED BY <4>1 DEF NoConflictingWave, Conflict
    <3>6. QED BY <1>0, <3>1, <3>2, <3>3, <3>4, <3>5
  <2>8. QED BY <2>3, <2>4
<1>4. ASSUME Launch PROVE IInv'
  <2> USE <1>4 DEF IInv, Launch, TypeOK
  <2>1. InOrder' BY DEF InOrder, Increasing, Before
  <2>2. StatusOK' BY DEF StatusOK
  <2>3. PhaseOK' BY DEF PhaseOK
  <2>4. AdmittedInOrder' /\ NoConflictingWave'
        BY DEF AdmittedInOrder, NoConflictingWave, Conflict
  <2>5. QED BY <1>0, <2>1, <2>2, <2>3, <2>4
<1>5. ASSUME NEW t \in Tool, Start(t) PROVE IInv'
  <2> USE <1>5 DEF IInv, Start, TypeOK
  <2>1. InOrder' BY DEF InOrder
  <2>2. StatusOK' BY DEF StatusOK
  <2>3. PhaseOK' BY DEF PhaseOK
  <2>4. AdmittedInOrder' BY DEF AdmittedInOrder, Conflict
  <2>5. NoConflictingWave' BY DEF NoConflictingWave, Conflict
  <2>6. QED BY <1>0, <2>1, <2>2, <2>3, <2>4, <2>5
<1>6. ASSUME NEW t \in Tool, Finish(t) PROVE IInv'
  <2> USE <1>6 DEF IInv, Finish, TypeOK
  <2>1. InOrder' BY DEF InOrder
  <2>2. StatusOK' BY DEF StatusOK
  <2>3. PhaseOK' BY DEF PhaseOK
  <2>4. AdmittedInOrder' BY DEF AdmittedInOrder, Conflict
  <2>5. NoConflictingWave' BY DEF NoConflictingWave, Conflict
  <2>6. QED BY <1>0, <2>1, <2>2, <2>3, <2>4, <2>5
<1>7. ASSUME NextWave PROVE IInv'
      BY <1>0, <1>7 DEF IInv, NextWave, WaveDone, InOrder, StatusOK, PhaseOK,
         AdmittedInOrder, NoConflictingWave, Conflict, TypeOK, Increasing, Before
<1>8. ASSUME Defer PROVE IInv'
      BY <1>0, <1>8 DEF IInv, Defer, WaveDone, InOrder, StatusOK, PhaseOK,
         AdmittedInOrder, NoConflictingWave, Conflict, TypeOK, Increasing, Before
<1>9. ASSUME Drop PROVE IInv'
      BY <1>0, <1>9 DEF IInv, Drop, InOrder, StatusOK, PhaseOK,
         AdmittedInOrder, NoConflictingWave, Conflict, TypeOK, Increasing, Before
<1>10. ASSUME UNCHANGED vars PROVE IInv'
      BY <1>0, <1>10 DEF vars, IInv, InOrder, StatusOK, PhaseOK,
         AdmittedInOrder, NoConflictingWave, Conflict
<1>11. QED BY <1>1, <1>2, <1>3, <1>4, <1>5, <1>6, <1>7, <1>8, <1>9, <1>10 DEF Next

\* The inductive invariant holds in every state of a run.
LEMMA InvariantHolds == Spec => []IInv
BY InitIInv, IInvStep, PTL DEF Spec

\* Every variable keeps its type.
THEOREM TypeCorrect == Spec => []TypeOK
BY InvariantHolds, PTL DEF IInv

\* take_ready_wave never puts two conflicting calls into one wave.
THEOREM WavesAreConflictFree == Spec => []NoConflictingWave
BY InvariantHolds, PTL DEF IInv

\* No call passes an earlier call it conflicts with, whatever the claims.
THEOREM ConflictingCallsStayOrdered == Spec => []ConflictingCallsKeepOrder
<1>1. IInv => ConflictingCallsKeepOrder
      BY DEF IInv, AdmittedInOrder, ConflictingCallsKeepOrder
<1>2. QED BY InvariantHolds, <1>1, PTL

-----------------------------------------------------------------------------
(* Serial equivalence.                                                     *)

\* A resource holds the effect of the last finished call that writes it.
ContentOK ==
    \A r \in Resources :
        /\ content[r] # 0 => /\ content[r] \in Tool
                             /\ status[content[r]] = "done"
                             /\ WritesTo(content[r], r)
        /\ \A t \in Tool : status[t] = "done" /\ WritesTo(t, r) => t <= content[r]

SInv == IInv /\ ContentOK /\ SerialEquivalence

\* Calls that share a resource one of them writes are ordered by AdmittedInOrder.
LEMMA SharingOrders ==
    ASSUME IInv, NEW t \in Tool, NEW u \in Tool, NEW r \in Resources, t < u,
           (WritesTo(t, r) /\ Touches(u, r)) \/ (Touches(t, r) /\ WritesTo(u, r)),
           status[u] \in {"ready", "running", "done"}
    PROVE  status[t] = "done"
<1>1. /\ claims[t] \in SUBSET ClaimType(STRING) /\ claims[u] \in SUBSET ClaimType(STRING)
      /\ r \in [namespace : Namespaces \ {"global"}, key : Seq(STRING)]
      BY ResourcesAssumption DEF IInv, TypeOK
<1>2. ToolsConflict(claims[t], claims[u])
  <2>1. CASE WritesTo(t, r) /\ Touches(u, r)
        BY <1>1, <2>1, SharedResourceConflicts DEF WritesTo, Touches
  <2>2. CASE Touches(t, r) /\ WritesTo(u, r)
    <3>1. ToolsConflict(claims[u], claims[t])
          BY <1>1, <2>2, SharedResourceConflicts DEF WritesTo, Touches
    <3>2. QED BY <3>1, ConflictSymmetric
  <2>3. QED BY <2>1, <2>2
<1>3. QED BY <1>2 DEF IInv, AdmittedInOrder, Conflict

\* A call that writes a resource is one of those that touch it.
LEMMA WriterTouches ==
    ASSUME NEW t, NEW r, WritesTo(t, r)
    PROVE  Touches(t, r)
BY DEF WritesTo, Touches

\* What the store holds when a call starts is what a sequential run would leave.
LEMMA StartSeesSerialView ==
    ASSUME IInv, ContentOK, NEW t \in Tool, status[t] = "ready",
           NEW r \in Resources, Touches(t, r)
    PROVE  content[r] = SerialView(t, r)
<1> DEFINE writers == {u \in 1..(t - 1) : WritesTo(u, r)}
<1>0. /\ t \in Int /\ t >= 1 /\ \A u \in Tool : u \in Int
      /\ \A u \in 1..(t - 1) : u \in Tool /\ u < t /\ u \in Int
      /\ \A u \in Tool : u < t => u \in 1..(t - 1)
      BY NToolsAssumption DEF Tool
<1>1. \A u \in writers : status[u] = "done"
      BY <1>0, SharingOrders
<1>2. \A u \in Tool : status[u] = "done" /\ WritesTo(u, r) => u < t
  <2> SUFFICES ASSUME NEW u \in Tool, status[u] = "done", WritesTo(u, r), ~(u < t)
               PROVE  FALSE
      OBVIOUS
  <2>1. u # t OBVIOUS
  <2>2. t < u BY <2>1, <1>0
  <2>3. status[t] = "done" BY <2>2, SharingOrders
  <2>4. QED BY <2>3
<1>3. content[r] \in Int
      BY NToolsAssumption DEF IInv, TypeOK
<1>4. CASE content[r] = 0
  <2>1. writers = {}
        BY <1>0, <1>1, <1>4 DEF ContentOK
  <2>2. QED BY <1>4, <2>1 DEF SerialView
<1>5. CASE content[r] # 0
  <2>1. content[r] \in Tool /\ status[content[r]] = "done" /\ WritesTo(content[r], r)
        BY <1>5 DEF ContentOK
  <2>2. content[r] \in writers
        BY <2>1, <1>0, <1>2
  <2>3. \A u \in writers : u <= content[r] /\ u \in Int
        BY <1>0, <1>1 DEF ContentOK
  <2>4. \A u \in writers : (\A v \in writers : v <= u) => u = content[r]
        BY <2>2, <2>3, <1>3
  <2>5. (CHOOSE u \in writers : \A v \in writers : v <= u) = content[r]
        BY ONLY <2>2, <2>3, <2>4
  <2>6. SerialView(t, r) = CHOOSE u \in writers : \A v \in writers : v <= u
        BY <2>2 DEF SerialView
  <2>7. QED BY <2>5, <2>6
<1>6. QED BY <1>4, <1>5

\* Steps that leave the claims, the store, the snapshots and the set of started
\* calls alone preserve the two new conjuncts.
LEMMA SerialFrame ==
    ASSUME ContentOK, SerialEquivalence, TypeOK,
           claims' = claims, content' = content, seen' = seen,
           \A t \in Tool : status'[t] \in {"running", "done"} => status'[t] = status[t],
           \A t \in Tool : status[t] = "done" => status'[t] = "done"
    PROVE  ContentOK' /\ SerialEquivalence'
<1>1. ContentOK'
      BY DEF ContentOK, WritesTo
<1>2. SerialEquivalence'
      BY DEF SerialEquivalence, Touches, SerialView, WritesTo
<1>3. QED BY <1>1, <1>2

\* No step breaks the agreement of the store with a sequential run.
LEMMA SInvStep ==
    ASSUME SInv, [Next]_vars
    PROVE  SInv'
<1>0. IInv' BY IInvStep DEF SInv
<1> USE DEF SInv
<1>1. ASSUME NEW c \in ClaimSets, Push(c) PROVE ContentOK' /\ SerialEquivalence'
  <2>1. \A t \in Tool : status[t] \in {"unknown", "waiting"}
        BY <1>1 DEF Push, IInv, PhaseOK
  <2>2. \A t \in Tool : status'[t] \in {"unknown", "waiting"}
        BY <1>0, <1>1 DEF Push, IInv, PhaseOK
  <2>3. SerialEquivalence'
        BY <2>2 DEF SerialEquivalence
  <2>4. \A r \in Resources : content[r] = 0
        BY <2>1 DEF ContentOK
  <2>5. ContentOK'
        BY <2>2, <2>4, <1>1 DEF ContentOK, Push
  <2>6. QED BY <2>3, <2>5
<1>2. ASSUME Prepared PROVE ContentOK' /\ SerialEquivalence'
      BY <1>2, SerialFrame DEF Prepared, IInv
<1>3. ASSUME Scan PROVE ContentOK' /\ SerialEquivalence'
  <2>1. Head(waiting) \in Tool /\ status[Head(waiting)] = "waiting"
        BY <1>3, TailFacts DEF Scan, IInv, StatusOK, TypeOK
  <2>2. \A t \in Tool : /\ status'[t] \in {"running", "done"} => status'[t] = status[t]
                        /\ status[t] = "done" => status'[t] = "done"
        BY <1>3, <2>1 DEF Scan, IInv, TypeOK
  <2>3. QED BY <1>3, <2>2, SerialFrame DEF Scan, IInv
<1>4. ASSUME Launch PROVE ContentOK' /\ SerialEquivalence'
      BY <1>4, SerialFrame DEF Launch, IInv
<1>5. ASSUME NEW t \in Tool, Start(t) PROVE ContentOK' /\ SerialEquivalence'
  <2>1. \A u \in Tool : u # t => status'[u] = status[u] /\ seen'[u] = seen[u]
        BY <1>5 DEF Start, IInv, TypeOK
  <2>2. status[t] = "ready" /\ status'[t] = "running" /\ seen'[t] = content
        BY <1>5 DEF Start, IInv, TypeOK
  <2>3. ContentOK'
        BY <1>5, <2>1, <2>2 DEF Start, ContentOK, WritesTo
  <2>4. \A u \in Tool, r \in Resources : SerialView(u, r)' = SerialView(u, r)
        BY <1>5 DEF Start, SerialView, WritesTo
  <2>5. \A r \in Resources : Touches(t, r) => seen'[t][r] = SerialView(t, r)
        BY <2>2, StartSeesSerialView
  <2>6. SerialEquivalence'
    <3> SUFFICES ASSUME NEW u \in Tool, status'[u] \in {"running", "done"},
                        NEW r \in Resources, Touches(u, r)'
                 PROVE  seen'[u][r] = SerialView(u, r)'
        BY DEF SerialEquivalence
    <3>1. Touches(u, r) BY <1>5 DEF Start, Touches
    <3>2. CASE u = t BY <3>1, <3>2, <2>4, <2>5
    <3>3. CASE u # t BY <3>1, <3>3, <2>1, <2>4 DEF SerialEquivalence
    <3>4. QED BY <3>2, <3>3
  <2>7. QED BY <2>3, <2>6
<1>6. ASSUME NEW t \in Tool, Finish(t) PROVE ContentOK' /\ SerialEquivalence'
  <2>0. status[t] = "running" /\ claims' = claims /\ seen' = seen
        BY <1>6 DEF Finish
  <2>1. \A u \in Tool : status'[u] = IF u = t THEN "done" ELSE status[u]
        BY <1>6 DEF Finish, IInv, TypeOK
  <2>2. \A u \in Tool, r \in Resources : SerialView(u, r)' = SerialView(u, r)
        BY <2>0 DEF SerialView, WritesTo
  <2>3. SerialEquivalence'
    <3>1. \A u \in Tool : status'[u] \in {"running", "done"} =>
              status[u] \in {"running", "done"}
          BY <2>0, <2>1
    <3>2. \A u \in Tool, r \in Resources : Touches(u, r)' <=> Touches(u, r)
          BY <2>0 DEF Touches
    <3>3. QED BY <3>1, <3>2, <2>0, <2>2 DEF SerialEquivalence
  <2>4. ContentOK'
    <3> SUFFICES ASSUME NEW r \in Resources
                 PROVE  /\ content'[r] # 0 => /\ content'[r] \in Tool
                                              /\ status'[content'[r]] = "done"
                                              /\ WritesTo(content[r], r)'
                        /\ \A u \in Tool : status'[u] = "done" /\ WritesTo(u, r)'
                                              => u <= content'[r]
        BY DEF ContentOK
    <3>0. \A u \in Tool : (WritesTo(u, r)' <=> WritesTo(u, r)) /\ u \in Int
          BY <2>0 DEF WritesTo, Tool
    <3>1. CASE WritesTo(t, r)
      <4>1. content'[r] = t BY <1>6, <3>1 DEF Finish
      <4>2. \A u \in Tool : status[u] = "done" /\ WritesTo(u, r) => u <= t
        <5> SUFFICES ASSUME NEW u \in Tool, status[u] = "done", WritesTo(u, r), t < u
                     PROVE  FALSE
            BY <3>0
        <5>1. status[t] = "done" BY <3>1, SharingOrders, WriterTouches
        <5>2. QED BY <5>1, <2>0
      <4>3. QED BY <3>0, <3>1, <4>1, <4>2, <2>1
    <3>2. CASE ~WritesTo(t, r)
      <4>1. content'[r] = content[r] BY <1>6, <3>2 DEF Finish
      <4>2. QED BY <3>0, <3>2, <4>1, <2>1 DEF ContentOK
    <3>3. QED BY <3>1, <3>2
  <2>5. QED BY <2>3, <2>4
<1>7. ASSUME NextWave PROVE ContentOK' /\ SerialEquivalence'
      BY <1>7, SerialFrame DEF NextWave, IInv
<1>8. ASSUME Defer PROVE ContentOK' /\ SerialEquivalence'
  <2>1. \A t \in Tool : /\ status'[t] \in {"running", "done"} => status'[t] = status[t]
                        /\ status[t] = "done" => status'[t] = "done"
        BY <1>8 DEF Defer, IInv, TypeOK, StatusOK
  <2>2. QED BY <1>8, <2>1, SerialFrame DEF Defer, IInv
<1>9. ASSUME Drop PROVE ContentOK' /\ SerialEquivalence'
  <2>1. \A t \in Tool : /\ status'[t] \in {"running", "done"} => status'[t] = status[t]
                        /\ status[t] = "done" => status'[t] = "done"
        BY <1>9 DEF Drop, IInv, TypeOK
  <2>2. QED BY <1>9, <2>1, SerialFrame DEF Drop, IInv
<1>10. ASSUME UNCHANGED vars PROVE ContentOK' /\ SerialEquivalence'
      BY <1>10, SerialFrame DEF vars, IInv
<1>11. QED BY <1>0, <1>1, <1>2, <1>3, <1>4, <1>5, <1>6, <1>7, <1>8, <1>9, <1>10 DEF Next

\* The agreement with a sequential run holds before anything has run.
LEMMA InitSInv == Init => SInv
<1> SUFFICES ASSUME Init PROVE SInv
    OBVIOUS
<1>1. \A t \in Tool : status[t] = "unknown"
      BY DEF Init
<1>2. \A r \in Resources : content[r] = 0
      BY DEF Init
<1>3. QED BY <1>1, <1>2, InitIInv DEF SInv, ContentOK, SerialEquivalence

\* Running a wave concurrently is invisible: each call finds in every resource
\* it claimed what the calls before it in the response would have left there.
THEOREM WavesAreSerializable == Spec => []SerialEquivalence
<1>1. Spec => []SInv
      BY InitSInv, SInvStep, PTL DEF Spec
<1>2. QED BY <1>1, PTL DEF SInv
=============================================================================
