-------------------------- MODULE AgentRunnerProofs --------------------------
(***************************************************************************)
(* Proofs about AgentRunner, for every budget, retry limit, capacity, set  *)
(* of inputs and number of calls per response: every call of the model is  *)
(* answered once before the model is called again, input that was consumed *)
(* reaches the conversation once and in order, and the turn machine never  *)
(* refuses a transition.                                                   *)
(***************************************************************************)
EXTENDS AgentRunner, FiniteSetTheorems, SequenceTheorems, WellFoundedInduction, TLAPS

-----------------------------------------------------------------------------
(* The inductive invariant.                                                *)

MsgSorts == {"user", "assistant", "frame", "result", "step", "nudge", "reminder"}

Messages == [k : MsgSorts, calls : SUBSET Nat, step : Seq(STRING)]

RequestKinds == {"user_input", "steer_input", "queued_input", "tool_result", "tool_results_ready",
                 "model_stream_retry", "empty_model_retry", "incomplete_model_retry"}

Requests == [kind : RequestKinds, msgs : Seq(Messages), admission : Admissions,
             mergeable : BOOLEAN, turnScoped : BOOLEAN]

Proposals == [id : Nat, fp : Fingerprints, malformed : BOOLEAN]

Tasks == [id : Nat, fp : Fingerprints, claims : {NormalizedClaims(c) : c \in ToolClaims}]

Pcs == {"loop", "start", "stream", "closing", "prepare", "wave", "end"}

\* What TypeOK says, and the types of what it leaves out.
Typed ==
    /\ TypeOK
    /\ messages \in Seq(Messages) /\ queue \in Seq(Requests) /\ chan \in Seq(Requests)
    /\ schedule \in Seq(Tasks) /\ wave \in Seq(Tasks)
    /\ reply \in [text : {"none", "blank", "full"}, calls : Seq(Proposals)]
    /\ proposed \in Nat /\ failures \in [Fingerprints -> Nat]
    /\ consumed \subseteq STRING /\ inputs \in Inputs
    /\ cancelled \in BOOLEAN /\ closed \in BOOLEAN /\ reminded \in BOOLEAN

\* A message is in the conversation, or is carried by a request of a queue.
In(msgs, x) == \E m \in DOMAIN msgs : msgs[m] = x
Held(q, x)  == \E m \in DOMAIN q : q[m].msgs = <<x>>

\* Wherever x and y are, in the conversation or still in the queue, y is not
\* before x; x and x are at one place at most.
Aligned(msgs, q, x, y) ==
    /\ \A m, n \in DOMAIN msgs : msgs[m] = x /\ msgs[n] = y => m <= n
    /\ \A m, n \in DOMAIN q : q[m].msgs = <<x>> /\ q[n].msgs = <<y>> => m <= n
    /\ Held(q, x) => ~In(msgs, y)

\* A request carries one message at most, never a frame; a step request merges
\* if it steers, and a result merges.
Plain(q) ==
    \A n \in DOMAIN q :
       /\ Len(q[n].msgs) <= 1
       /\ \A x : q[n].msgs = <<x>> => x.k # "frame"
       /\ \A s \in STRING : q[n].msgs = <<StepMsg(s)>> => (q[n].mergeable <=> s \in Steers)
       /\ \A c \in Nat : q[n].msgs = <<ResultMsg(c)>> => q[n].mergeable

\* The steps of two inputs of one mode, the first submitted no later.
SameMode(i, j) == i <= j /\ (inputs[i] \in Steers <=> inputs[j] \in Steers)

\* The steps of the inputs are in their order, every step and every result is
\* there once.
Order(msgs, q) ==
    /\ Plain(q)
    /\ \A i, j \in DOMAIN inputs :
          SameMode(i, j) => Aligned(msgs, q, StepMsg(inputs[i]), StepMsg(inputs[j]))
    /\ \A c \in Nat : Aligned(msgs, q, ResultMsg(c), ResultMsg(c))

\* The requests on their way to the conversation.
Flow == queue \o chan

Known(x) == In(messages, x) \/ Held(Flow, x)

\* The channel has the requests of inputs that the bridge has dealt with, it
\* has sent no other, and the channel has room for what it holds a permit for.
BridgeOK ==
    /\ \A n \in DOMAIN chan : \E i \in DOMAIN inputs : i < next /\ chan[n] = StepRequest(inputs[i])
    /\ \A i \in DOMAIN inputs : i >= next => ~Known(StepMsg(inputs[i]))
    /\ bridge # "idle" => next <= Len(inputs) /\ Len(chan) < Capacity

\* A consumed input is somewhere.
ConsumedOK ==
    \A s \in consumed : Known(StepMsg(s)) \/ (bridge = "consumed" /\ inputs[next] = s)

Ids(s) == {s[i].id : i \in DOMAIN s}

Distinct(s) == \A i, j \in DOMAIN s : s[i].id = s[j].id => i = j

\* The calls that wait for their answer: they are prepared, scheduled or run.
Waits(c) ==
    c \in Ids(schedule) \/ c \in Ids(wave) \/ (pc = "prepare" /\ c \in Ids(reply.calls))

Asked(msgs, c) == \E m \in DOMAIN msgs : msgs[m].k = "frame" /\ c \in msgs[m].calls

\* The calls of the conversation are those the model has made.
FramesOK == \A c : Asked(messages, c) <=> c \in 1..proposed

\* Every call waits or has an answer, which may still be in the queue while
\* the runner is between the tools and the next model call.
ResultsOK ==
    /\ \A c \in Nat : Known(ResultMsg(c)) <=> c \in 1..proposed /\ ~Waits(c)
    /\ \A c \in Nat : Waits(c) => c \in 1..proposed
    /\ pc \in {"start", "stream", "closing", "prepare"} => \A c \in Nat : ~Held(Flow, ResultMsg(c))

\* A call waits at one place.
WaitingOK ==
    /\ Distinct(schedule) /\ Distinct(wave) /\ Ids(schedule) \cap Ids(wave) = {}
    /\ pc \in {"loop", "start", "stream", "closing"} => schedule = <<>> /\ wave = <<>>
    /\ pc = "prepare" =>
          /\ wave = <<>> /\ reply.calls # <<>> /\ Distinct(reply.calls)
          /\ Ids(schedule) \cap Ids(reply.calls) = {}
          /\ toolCalls + (Len(reply.calls) - 1) <= MaxToolCalls
    /\ pc = "stream" => \A i \in DOMAIN reply.calls : reply.calls[i].id = proposed + i
    /\ pc \in {"loop", "start", "closing", "wave"} => reply.calls = <<>>
    /\ pc # "stream" => reply.text = "none"

\* The runner and the turn machine agree, and no failure repeats too often.
ControlOK ==
    /\ outcome = "none" /\ toolCalls <= MaxToolCalls
    /\ status = IF pc \in {"prepare", "wave"} THEN "running_tool" ELSE "calling_model"
    /\ pc = "loop" => queue # <<>>
    /\ \A f \in Fingerprints : failures[f] < RepeatedFailures

\* While the run goes on.
Running ==
    /\ ControlOK /\ Order(messages, Flow) /\ BridgeOK /\ ConsumedOK
    /\ FramesOK /\ ResultsOK /\ WaitingOK

\* When it is over.
Over ==
    /\ outcome \in {"error", "cancelled"} \cup Outcomes /\ toolCalls <= MaxToolCalls
    /\ Order(messages, <<>>) /\ FramesOK
    /\ outcome = "completed" =>
          /\ \A c \in 1..proposed : In(messages, ResultMsg(c))
          /\ \A s \in consumed : In(messages, StepMsg(s))
    /\ outcome \in {"awaiting_input", "awaiting_approval"} =>
          \A c \in 1..proposed : In(messages, ResultMsg(c)) \/ c \in Ids(wave)
    /\ outcome = "awaiting_approval" => \E c \in 1..proposed : ~In(messages, ResultMsg(c))
    /\ outcome \in Outcomes =>
          \A s \in consumed : \/ In(messages, StepMsg(s)) \/ Held(chan, StepMsg(s))
                              \/ (bridge = "consumed" /\ inputs[next] = s)

Inv == Typed /\ (pc # "end" => Running) /\ (pc = "end" => Over)

(* Elements at places, in order.                                           *)

(* A sequence of one element.                                               *)
LEMMA OneIn ==
    ASSUME NEW S, NEW s \in S
    PROVE  <<s>> \in Seq(S) /\ DOMAIN <<s>> = 1..1 /\ <<s>>[1] = s /\ Len(<<s>>) = 1
OBVIOUS

(* Appending is joining with a sequence of one element.                     *)
LEMMA AppendJoins ==
    ASSUME NEW S, NEW s \in Seq(S), NEW x \in S
    PROVE  Append(s, x) = s \o <<x>> /\ Append(s, x) \in Seq(S) /\ Append(s, x) # <<>>
OBVIOUS

(* Subtraction is the inverse of addition.                                  *)
LEMMA Difference == \A a, b, c \in Int : a - b = c => a = b + c
OBVIOUS

(* A set of natural numbers that is not empty has a least element.          *)
LEMMA LeastElement ==
    ASSUME NEW N \in SUBSET Nat, N # {}
    PROVE  \E n \in N : \A m \in N : n <= m
<1> DEFINE R == OpToRel(<, Nat)
<1>1. IsWellFoundedOn(R, Nat) /\ N \subseteq Nat
  BY NatLessThanWellFounded
<1>2. PICK n \in N : \A m \in N : ~ (<<m, n>> \in R)
  <2> HIDE DEF R
  <2> QED
    BY <1>1, WFMin
<1>3. ASSUME NEW m \in N PROVE n <= m
  <2>1. m \in Nat /\ n \in Nat /\ ~ (<<m, n>> \in R)
    BY <1>2
  <2>2. m < n => <<m, n>> \in R
    BY <2>1 DEF OpToRel
  <2> HIDE DEF R
  <2>3. ~(m < n)
    BY <2>1, <2>2
  <2> QED
    BY <2>1, <2>3
<1> QED
  BY <1>3

(* Induction over the natural numbers, for a set of them.                  *)
LEMMA SetOfNaturals ==
    ASSUME NEW N \in SUBSET Nat, 0 \in N, \A n \in N : n + 1 \in N
    PROVE  N = Nat
<1> DEFINE Bad == Nat \ N
<1>1. SUFFICES ASSUME Bad # {} PROVE FALSE
  OBVIOUS
<1>2. PICK n \in Bad : \A m \in Bad : n <= m
  BY <1>1, LeastElement
<1>3. n \in Nat /\ n \notin N /\ n # 0
  OBVIOUS
<1>4. n - 1 \in Nat /\ (n - 1) + 1 = n /\ ~(n <= n - 1)
  BY <1>3
<1>5. n - 1 \in N
  BY <1>2, <1>4
<1> QED
  BY <1>3, <1>4, <1>5

(* The running concatenations `g` of the first n parts, those at `places`.  *)
Concats(g, parts, places, n) ==
    g = [i \in 0..n |-> IF i = 0 THEN <<>>
                        ELSE IF i \in places THEN g[i - 1] \o parts[i] ELSE g[i - 1]]

(* They exist: those of the first n parts give those of n + 1.              *)
LEMMA ConcatsExist ==
    ASSUME NEW parts, NEW places
    PROVE  \A n \in Nat : \E g : Concats(g, parts, places, n)
<1> DEFINE N == {n \in Nat : \E g : Concats(g, parts, places, n)}
<1>1. 0 \in N
  <2> DEFINE g == [i \in 0..0 |-> <<>>]
  <2>1. \A i \in 0..0 : i = 0
    OBVIOUS
  <2>2. g = [i \in 0..0 |-> IF i = 0 THEN <<>>
                            ELSE IF i \in places THEN g[i - 1] \o parts[i] ELSE g[i - 1]]
    BY <2>1
  <2>3. Concats(g, parts, places, 0)
    BY <2>2 DEF Concats
  <2> QED
    BY <2>3
<1>2. ASSUME NEW n \in N PROVE n + 1 \in N
  <2>1. PICK h : Concats(h, parts, places, n)
    OBVIOUS
  <2> DEFINE g == [i \in 0..(n + 1) |-> IF i = 0 THEN <<>>
                     ELSE IF i \in places THEN h[i - 1] \o parts[i] ELSE h[i - 1]]
  <2>2. \A i \in 0..n : h[i] = IF i = 0 THEN <<>>
                     ELSE IF i \in places THEN h[i - 1] \o parts[i] ELSE h[i - 1]
    BY <2>1 DEF Concats
  <2>3. \A i \in 0..n : g[i] = h[i]
    BY <2>2
  <2>4. \A i \in 0..(n + 1) : i # 0 => i - 1 \in 0..n
    OBVIOUS
  <2>5. \A i \in 0..(n + 1) : g[i] = IF i = 0 THEN <<>>
                     ELSE IF i \in places THEN g[i - 1] \o parts[i] ELSE g[i - 1]
    BY <2>3, <2>4
  <2>6. g = [i \in 0..(n + 1) |-> g[i]]
    OBVIOUS
  <2> HIDE DEF g
  <2>7. Concats(g, parts, places, n + 1)
    BY <2>5, <2>6 DEF Concats
  <2> QED
    BY <2>7
<1>3. N = Nat
  <2> HIDE DEF N
  <2>1. N \in SUBSET Nat
    BY DEF N
  <2> QED
    BY <1>1, <1>2, <2>1, SetOfNaturals
<1> QED
  BY <1>3

(* A sequence of one element at most that is not empty has one.             *)
LEMMA OneElement ==
    ASSUME NEW T, NEW p \in Seq(T), Len(p) <= 1, p # <<>>
    PROVE  Len(p) = 1 /\ p = <<p[1]>> /\ p[1] \in T
<1>1. PICK n \in Nat : n = Len(p)
  OBVIOUS
<1>2. n # 0 /\ n <= 1
  BY <1>1
<1>3. Len(p) = 1
  BY <1>1, <1>2
<1>4. p[1] \in T
  BY <1>3
<1>5. <<p[1]>> \in Seq(T) /\ Len(<<p[1]>>) = 1 /\ <<p[1]>>[1] = p[1]
  BY <1>4
<1>6. \A i \in 1..1 : i = 1
  OBVIOUS
<1>7. p = <<p[1]>>
  BY <1>3, <1>5, <1>6
<1> QED
  BY <1>3, <1>4, <1>7

\* d is made of the parts at the places up to n, each of one element or none:
\* element k comes from the place at[k].
From(d, at, parts, places, n) ==
    /\ at \in [1..Len(d) -> places] /\ \A k \in 1..Len(d) : at[k] <= n
    /\ \A k \in 1..Len(d) : parts[at[k]] = <<d[k]>>
    /\ \A k, l \in 1..Len(d) : k < l => at[k] < at[l]
    /\ \A i \in places : i <= n /\ parts[i] # <<>> => \E k \in 1..Len(d) : at[k] = i

(* What the running concatenation is made of.                               *)
LEMMA ConcatFrom ==
    ASSUME NEW T, NEW parts \in Seq(Seq(T)), NEW places \in SUBSET (DOMAIN parts),
           \A i \in DOMAIN parts : Len(parts[i]) <= 1,
           NEW g, Concats(g, parts, places, Len(parts))
    PROVE  /\ g[Len(parts)] \in Seq(T)
           /\ \E at : From(g[Len(parts)], at, parts, places, Len(parts))
<1> DEFINE Good(i) == g[i] \in Seq(T) /\ \E at : From(g[i], at, parts, places, i)
           N == {i \in Nat : i <= Len(parts) => Good(i)}
<1>0. Len(parts) \in Nat /\ DOMAIN parts = 1..Len(parts)
  OBVIOUS
<1>1. \A i \in 0..Len(parts) : g[i] = IF i = 0 THEN <<>>
                     ELSE IF i \in places THEN g[i - 1] \o parts[i] ELSE g[i - 1]
  BY DEF Concats
<1>2. 0 \in N
  <2>1. g[0] = <<>>
    BY <1>0, <1>1
  <2>2. <<>> \in [1..Len(<<>>) -> places] /\ \A k \in 1..Len(<<>>) : FALSE
    OBVIOUS
  <2>3. \A i \in places : ~(i <= 0)
    BY <1>0
  <2>4. From(<<>>, <<>>, parts, places, 0)
    BY <2>2, <2>3 DEF From
  <2>5. Good(0)
    BY <2>1, <2>4
  <2> QED
    BY <2>5
<1>3. ASSUME NEW i \in N PROVE i + 1 \in N
  <2>1. SUFFICES ASSUME i + 1 <= Len(parts) PROVE Good(i + 1)
    OBVIOUS
  <2>2. i \in Nat /\ i <= Len(parts) /\ i + 1 \in 1..Len(parts) /\ i + 1 \in 0..Len(parts)
        /\ i + 1 # 0 /\ (i + 1) - 1 = i
    BY <1>0, <2>1
  <2>3. g[i] \in Seq(T) /\ \E at : From(g[i], at, parts, places, i)
    BY <2>2
  <2>4. PICK d \in Seq(T) : d = g[i]
    BY <2>3
  <2>5. PICK at : From(d, at, parts, places, i)
    BY <2>3, <2>4
  <2>6. g[i + 1] = IF i + 1 \in places THEN d \o parts[i + 1] ELSE d
    BY <1>1, <2>2, <2>4
  <2>7. PICK n \in Nat : n = Len(d) /\ DOMAIN d = 1..n
    OBVIOUS
  <2>8. /\ at \in [1..n -> places] /\ \A k \in 1..n : at[k] <= i
        /\ \A k \in 1..n : parts[at[k]] = <<d[k]>>
        /\ \A k, l \in 1..n : k < l => at[k] < at[l]
        /\ \A j \in places : j <= i /\ parts[j] # <<>> => \E k \in 1..n : at[k] = j
    BY <2>5, <2>7 DEF From
  <2>9. \A j \in places : j \in Nat /\ (j <= i + 1 => j <= i \/ j = i + 1) /\ (j <= i => j <= i + 1)
    BY <1>0, <2>2
  <2>10. CASE i + 1 \in places /\ parts[i + 1] # <<>>
    <3>1. PICK p \in Seq(T) : p = parts[i + 1] /\ Len(p) = 1 /\ p = <<p[1]>> /\ p[1] \in T
      <4>1. parts[i + 1] \in Seq(T) /\ Len(parts[i + 1]) <= 1 /\ parts[i + 1] # <<>>
        BY <1>0, <2>2, <2>10
      <4> QED
        BY <4>1, OneElement
    <3> DEFINE e == Append(d, p[1])
               bt == [k \in 1..(n + 1) |-> IF k = n + 1 THEN i + 1 ELSE at[k]]
    <3>2. g[i + 1] = e /\ e \in Seq(T)
      <4>1. d \o <<p[1]>> = Append(d, p[1])
        BY <3>1
      <4> QED
        BY <2>6, <2>10, <3>1, <4>1
    <3>3. Len(e) = n + 1 /\ e[n + 1] = p[1] /\ \A k \in 1..n : e[k] = d[k]
      BY <2>7, <3>1
    <3>4. \A k \in 1..(n + 1) : k = n + 1 \/ (k # n + 1 /\ k \in 1..n)
      BY ONLY n \in Nat
    <3>5. bt \in [1..(n + 1) -> places]
      BY <2>8, <2>10, <3>4
    <3>6. /\ n + 1 \in 1..(n + 1) /\ bt[n + 1] = i + 1
          /\ \A k \in 1..n : k \in 1..(n + 1) /\ k # n + 1 /\ bt[k] = at[k]
      <4>1. n + 1 \in 1..(n + 1) /\ \A k \in 1..n : k \in 1..(n + 1) /\ k # n + 1
        BY ONLY n \in Nat
      <4> QED
        BY <4>1
    <3> HIDE DEF e, bt
    <3>7. \A k \in 1..n : at[k] \in places /\ at[k] \in Nat /\ at[k] <= i /\ at[k] < i + 1 /\ at[k] <= i + 1
      <4>1. SUFFICES ASSUME NEW k \in 1..n
                     PROVE  /\ at[k] \in places /\ at[k] \in Nat
                            /\ at[k] <= i /\ at[k] < i + 1 /\ at[k] <= i + 1
        OBVIOUS
      <4>2. at[k] \in places /\ at[k] <= i
        BY <2>8
      <4>3. at[k] \in Nat /\ i \in Nat
        BY <2>2, <2>9, <4>2
      <4>4. at[k] < i + 1 /\ at[k] <= i + 1
        BY ONLY <4>2, <4>3
      <4> QED
        BY <4>2, <4>3, <4>4
    <3>8. \A k \in 1..(n + 1) : bt[k] <= i + 1
      BY <2>2, <3>4, <3>6, <3>7
    <3>9. \A k \in 1..(n + 1) : parts[bt[k]] = <<e[k]>>
      BY <2>8, <3>1, <3>3, <3>4, <3>6
    <3>10. \A k, l \in 1..(n + 1) : k < l => bt[k] < bt[l]
      <4>1. \A k, l \in 1..(n + 1) : k < l => k \in 1..n /\ (l = n + 1 \/ l \in 1..n)
        BY ONLY n \in Nat
      <4>2. ASSUME NEW k \in 1..(n + 1), NEW l \in 1..(n + 1), k < l PROVE bt[k] < bt[l]
        <5>1. k \in 1..n /\ bt[k] = at[k] /\ at[k] < i + 1
          BY <3>6, <3>7, <4>1, <4>2
        <5>2. CASE l = n + 1
          BY <3>6, <5>1, <5>2
        <5>3. CASE l \in 1..n
          BY <2>8, <3>6, <4>2, <5>1, <5>3
        <5> QED
          BY <4>1, <4>2, <5>2, <5>3
      <4> QED
        BY <4>2
    <3>11. \A j \in places : j <= i + 1 /\ parts[j] # <<>> => \E k \in 1..(n + 1) : bt[k] = j
      BY <2>8, <2>9, <3>6
    <3>12. From(e, bt, parts, places, i + 1)
      BY <3>3, <3>5, <3>8, <3>9, <3>10, <3>11 DEF From
    <3> QED
      BY <3>2, <3>12
  <2>11. CASE ~(i + 1 \in places /\ parts[i + 1] # <<>>)
    <3>1. g[i + 1] = d
      <4>1. d \o <<>> = d
        OBVIOUS
      <4> QED
        BY <2>6, <2>11, <4>1
    <3>2. \A k \in 1..n : at[k] \in Nat /\ at[k] <= i + 1
      BY <2>2, <2>8, <2>9
    <3>3. \A j \in places : j <= i + 1 /\ parts[j] # <<>> => \E k \in 1..n : at[k] = j
      BY <2>8, <2>9, <2>11
    <3>4. From(d, at, parts, places, i + 1)
      BY <2>7, <2>8, <3>2, <3>3 DEF From
    <3> QED
      BY <3>1, <3>4
  <2> QED
    BY <2>10, <2>11
<1>4. N = Nat
  <2> HIDE DEF N
  <2>1. N \in SUBSET Nat
    BY DEF N
  <2> QED
    BY <1>2, <1>3, <2>1, SetOfNaturals
<1> QED
  BY <1>0, <1>4

\* s is made of the elements of q at the given places: element k is the one at
\* place at[k].
Picked(s, at, q, places) ==
    /\ at \in [1..Len(s) -> places] /\ \A k \in 1..Len(s) : s[k] = q[at[k]]
    /\ \A k, l \in 1..Len(s) : k < l => at[k] < at[l]
    /\ \A i \in places : \E k \in 1..Len(s) : at[k] = i

(* Kept picks the elements at the places.                                   *)
LEMMA KeptIs ==
    ASSUME NEW T, NEW q \in Seq(T), NEW places \in SUBSET (DOMAIN q)
    PROVE  Kept(q, places) \in Seq(T) /\ \E at : Picked(Kept(q, places), at, q, places)
<1> DEFINE parts == [i \in 1..Len(q) |-> <<q[i]>>]
           Keeps(g) == g = [i \in 0..Len(q) |-> IF i = 0 THEN <<>>
                              ELSE IF i \in places THEN g[i - 1] \o <<q[i]>> ELSE g[i - 1]]
<1>1. /\ Len(q) \in Nat /\ DOMAIN q = 1..Len(q) /\ \A i \in 1..Len(q) : q[i] \in T
      /\ \A i \in 0..Len(q) : i # 0 => i \in 1..Len(q)
  OBVIOUS
<1>2. \A i \in 1..Len(q) : /\ parts[i] = <<q[i]>> /\ <<q[i]>> \in Seq(T)
                          /\ Len(parts[i]) = 1 /\ parts[i] # <<>>
  <2> SUFFICES ASSUME NEW i \in 1..Len(q)
               PROVE  /\ parts[i] = <<q[i]>> /\ <<q[i]>> \in Seq(T)
                      /\ Len(parts[i]) = 1 /\ parts[i] # <<>>
    OBVIOUS
  <2>1. Len(<<q[i]>>) = 1 /\ <<q[i]>> # <<>> /\ <<q[i]>> \in Seq(T) /\ parts[i] = <<q[i]>>
    BY <1>1
  <2> HIDE DEF parts
  <2> QED
    BY <2>1
<1>3. parts \in Seq(Seq(T)) /\ Len(parts) = Len(q) /\ DOMAIN parts = 1..Len(q)
  <2>1. parts \in [1..Len(q) -> Seq(T)]
    BY <1>2
  <2> HIDE DEF parts
  <2> DEFINE S == Seq(T)
  <2>2. parts \in [1..Len(q) -> S]
    BY <2>1
  <2> HIDE DEF S
  <2>3. parts \in Seq(S) /\ Len(parts) = Len(q) /\ DOMAIN parts = 1..Len(q)
    BY <1>1, <2>2
  <2> QED
    BY <2>3 DEF S
<1> HIDE DEF parts
<1>4. \A g : Keeps(g) <=> Concats(g, parts, places, Len(q))
  <2> SUFFICES ASSUME NEW g PROVE Keeps(g) <=> Concats(g, parts, places, Len(q))
    OBVIOUS
  <2>1. [i \in 0..Len(q) |-> IF i = 0 THEN <<>>
                     ELSE IF i \in places THEN g[i - 1] \o <<q[i]>> ELSE g[i - 1]]
        = [i \in 0..Len(q) |-> IF i = 0 THEN <<>>
                     ELSE IF i \in places THEN g[i - 1] \o parts[i] ELSE g[i - 1]]
    BY <1>1, <1>2
  <2> QED
    BY <2>1 DEF Concats
<1>5. Kept(q, places) = (CHOOSE g : Keeps(g))[Len(q)]
  BY DEF Kept
<1> HIDE DEF Keeps
<1>6. \E g : Keeps(g)
  BY <1>1, <1>4, ConcatsExist
<1>7. PICK g : g = (CHOOSE h : Keeps(h)) /\ Keeps(g)
  BY <1>6
<1>8. Concats(g, parts, places, Len(parts)) /\ Kept(q, places) = g[Len(parts)]
  BY <1>3, <1>4, <1>5, <1>7
<1>9. /\ g[Len(parts)] \in Seq(T)
      /\ \E at : From(g[Len(parts)], at, parts, places, Len(parts))
  <2>1. ASSUME NEW i \in DOMAIN parts PROVE Len(parts[i]) <= 1
    <3>1. Len(parts[i]) = 1 /\ 1 <= 1
      BY <1>2, <1>3
    <3> QED
      BY <3>1
  <2>2. places \in SUBSET (DOMAIN parts)
    BY <1>1, <1>3
  <2> QED
    BY <1>3, <1>8, <2>1, <2>2, ConcatFrom
<1>10. PICK s \in Seq(T) : s = Kept(q, places)
  BY <1>8, <1>9
<1>11. PICK at : From(s, at, parts, places, Len(parts))
  BY <1>8, <1>9, <1>10
<1>12. Picked(s, at, q, places)
  <2>1. /\ at \in [1..Len(s) -> places] /\ \A k \in 1..Len(s) : parts[at[k]] = <<s[k]>>
        /\ \A k, l \in 1..Len(s) : k < l => at[k] < at[l]
        /\ \A i \in places : i <= Len(parts) /\ parts[i] # <<>> => \E k \in 1..Len(s) : at[k] = i
    BY <1>11 DEF From
  <2>2. ASSUME NEW k \in 1..Len(s) PROVE s[k] = q[at[k]]
    <3>1. at[k] \in 1..Len(q)
      BY <1>1, <2>1
    <3>2. <<s[k]>> = <<q[at[k]]>>
      BY <1>2, <2>1, <3>1
    <3> QED
      BY <3>2
  <2>3. \A i \in places : i <= Len(parts) /\ parts[i] # <<>>
    BY <1>1, <1>2, <1>3
  <2> QED
    BY <2>1, <2>2, <2>3 DEF Picked
<1> QED
  BY <1>10, <1>12

\* d is made of the messages of the requests of q at the given places, which
\* carry one each or none: message k comes from the request at place at[k].
Carried(d, at, q, places) ==
    /\ at \in [1..Len(d) -> places] /\ \A k \in 1..Len(d) : q[at[k]].msgs = <<d[k]>>
    /\ \A k, l \in 1..Len(d) : k < l => at[k] < at[l]
    /\ \A i \in places : q[i].msgs # <<>> => \E k \in 1..Len(d) : at[k] = i

(* Materialize takes the messages of the requests at the places.            *)
LEMMA MaterializeIs ==
    ASSUME NEW q \in Seq(Requests), NEW places \in SUBSET (DOMAIN q),
           \A i \in DOMAIN q : Len(q[i].msgs) <= 1
    PROVE  /\ Materialize(q, places) \in Seq(Messages)
           /\ \E at : Carried(Materialize(q, places), at, q, places)
<1> DEFINE parts == [i \in 1..Len(q) |-> q[i].msgs]
           Flows(g) == g = [i \in 0..Len(q) |-> IF i = 0 THEN <<>>
                              ELSE IF i \in places THEN g[i - 1] \o q[i].msgs ELSE g[i - 1]]
<1>1. /\ Len(q) \in Nat /\ DOMAIN q = 1..Len(q) /\ \A i \in 1..Len(q) : q[i] \in Requests
      /\ \A i \in 0..Len(q) : i # 0 => i \in 1..Len(q)
  OBVIOUS
<1>2. \A i \in 1..Len(q) : parts[i] = q[i].msgs /\ q[i].msgs \in Seq(Messages)
  BY <1>1 DEF Requests
<1>3. parts \in Seq(Seq(Messages)) /\ Len(parts) = Len(q) /\ DOMAIN parts = 1..Len(q)
  <2>1. parts \in [1..Len(q) -> Seq(Messages)]
    BY <1>2
  <2> HIDE DEF parts
  <2> DEFINE S == Seq(Messages)
  <2>2. parts \in [1..Len(q) -> S]
    BY <2>1
  <2> HIDE DEF S
  <2>3. parts \in Seq(S) /\ Len(parts) = Len(q) /\ DOMAIN parts = 1..Len(q)
    BY <1>1, <2>2
  <2> QED
    BY <2>3 DEF S
<1> HIDE DEF parts
<1>4. \A g : Flows(g) <=> Concats(g, parts, places, Len(q))
  <2> SUFFICES ASSUME NEW g PROVE Flows(g) <=> Concats(g, parts, places, Len(q))
    OBVIOUS
  <2>1. [i \in 0..Len(q) |-> IF i = 0 THEN <<>>
                     ELSE IF i \in places THEN g[i - 1] \o q[i].msgs ELSE g[i - 1]]
        = [i \in 0..Len(q) |-> IF i = 0 THEN <<>>
                     ELSE IF i \in places THEN g[i - 1] \o parts[i] ELSE g[i - 1]]
    BY <1>1, <1>2
  <2> QED
    BY <2>1 DEF Concats
<1>5. Materialize(q, places) = (CHOOSE g : Flows(g))[Len(q)]
  BY DEF Materialize
<1> HIDE DEF Flows
<1>6. \E g : Flows(g)
  BY <1>1, <1>4, ConcatsExist
<1>7. PICK g : g = (CHOOSE h : Flows(h)) /\ Flows(g)
  BY <1>6
<1>8. Concats(g, parts, places, Len(parts)) /\ Materialize(q, places) = g[Len(parts)]
  BY <1>3, <1>4, <1>5, <1>7
<1>9. /\ g[Len(parts)] \in Seq(Messages)
      /\ \E at : From(g[Len(parts)], at, parts, places, Len(parts))
  <2>1. places \in SUBSET (DOMAIN parts) /\ \A i \in DOMAIN parts : Len(parts[i]) <= 1
    BY <1>1, <1>2, <1>3
  <2> QED
    BY <1>3, <1>8, <2>1, ConcatFrom
<1>10. PICK d \in Seq(Messages) : d = Materialize(q, places)
  BY <1>8, <1>9
<1>11. PICK at : From(d, at, parts, places, Len(parts))
  BY <1>8, <1>9, <1>10
<1>12. Carried(d, at, q, places)
  <2>1. /\ at \in [1..Len(d) -> places] /\ \A k \in 1..Len(d) : parts[at[k]] = <<d[k]>>
        /\ \A k, l \in 1..Len(d) : k < l => at[k] < at[l]
        /\ \A i \in places : i <= Len(parts) /\ parts[i] # <<>> => \E k \in 1..Len(d) : at[k] = i
    BY <1>11 DEF From
  <2>2. \A k \in 1..Len(d) : q[at[k]].msgs = <<d[k]>>
    BY <1>1, <1>2, <2>1
  <2>3. \A i \in places : i <= Len(parts) /\ parts[i] = q[i].msgs
    BY <1>1, <1>2, <1>3
  <2> QED
    BY <2>1, <2>2, <2>3 DEF Carried
<1> QED
  BY <1>10, <1>12

(* A concatenation, place by place.                                         *)
LEMMA ConcatIs ==
    ASSUME NEW T, NEW s \in Seq(T), NEW t \in Seq(T)
    PROVE  /\ s \o t \in Seq(T) /\ Len(s \o t) = Len(s) + Len(t)
           /\ Len(s) \in Nat /\ Len(t) \in Nat /\ DOMAIN s = 1..Len(s) /\ DOMAIN t = 1..Len(t)
           /\ \A i \in 1..Len(s) : i \in DOMAIN (s \o t) /\ (s \o t)[i] = s[i]
           /\ \A i \in 1..Len(t) : Len(s) + i \in DOMAIN (s \o t) /\ (s \o t)[Len(s) + i] = t[i]
           /\ \A i \in DOMAIN (s \o t) :
                 i \in 1..Len(s) \/ (i > Len(s) /\ i - Len(s) \in 1..Len(t) /\ (s \o t)[i] = t[i - Len(s)])
<1>1. s \o t \in Seq(T) /\ Len(s \o t) = Len(s) + Len(t) /\ Len(s) \in Nat /\ Len(t) \in Nat
      /\ DOMAIN s = 1..Len(s) /\ DOMAIN t = 1..Len(t) /\ DOMAIN (s \o t) = 1..(Len(s) + Len(t))
  OBVIOUS
<1>2. \A i \in 1..(Len(s) + Len(t)) : (s \o t)[i] = IF i <= Len(s) THEN s[i] ELSE t[i - Len(s)]
  BY SMTT(40)
<1>3. PICK m \in Nat, n \in Nat : m = Len(s) /\ n = Len(t)
  BY <1>1, Zenon
<1>4. /\ \A i \in 1..m : i \in 1..(m + n) /\ i <= m
      /\ \A i \in 1..n : m + i \in 1..(m + n) /\ ~(m + i <= m) /\ (m + i) - m = i
      /\ \A i \in 1..(m + n) : i \in 1..m \/ (i > m /\ i - m \in 1..n /\ ~(i <= m))
  BY ONLY m \in Nat, n \in Nat
<1> QED
  BY <1>1, <1>2, <1>3, <1>4

\* d is made of the messages of the requests of q at the places P, which carry
\* one each or none: message k comes from the request at place at[k], and those
\* that merge keep their order, and those that do not.
Took(d, at, q, P) ==
    /\ at \in [1..Len(d) -> P] /\ \A k \in 1..Len(d) : q[at[k]].msgs = <<d[k]>>
    /\ \A k, l \in 1..Len(d) :
          k < l /\ (q[at[k]].mergeable <=> q[at[l]].mergeable) => at[k] < at[l]
    /\ \A i \in P : q[i].msgs # <<>> => \E k \in 1..Len(d) : at[k] = i

Takes(d, q, P) == d \in Seq(Messages) /\ \E at : Took(d, at, q, P)

\* The requests at the places P go before those at the places R.
Precede(q, P, R) ==
    \A i \in P, j \in R : (q[i].mergeable <=> q[j].mergeable) => i < j

(* What is taken first and what is taken then.                              *)
LEMMA TakesBoth ==
    ASSUME NEW q \in Seq(Requests), NEW P \in SUBSET (DOMAIN q), NEW R \in SUBSET (DOMAIN q),
           NEW c, NEW d, Takes(c, q, P), Takes(d, q, R), Precede(q, P, R)
    PROVE  Takes(c \o d, q, P \cup R)
<1>1. PICK a : Took(c, a, q, P)
  BY DEF Takes
<1>2. PICK b : Took(d, b, q, R)
  BY DEF Takes
<1>3. PICK m \in Nat, n \in Nat : m = Len(c) /\ n = Len(d) /\ DOMAIN c = 1..m /\ DOMAIN d = 1..n
  BY DEF Takes
<1>4. PICK e \in Seq(Messages) : e = c \o d /\ Len(e) = m + n /\ DOMAIN e = 1..(m + n)
  <2>1. c \in Seq(Messages) /\ d \in Seq(Messages)
    BY DEF Takes
  <2>2. c \o d \in Seq(Messages) /\ Len(c \o d) = m + n
    BY <1>3, <2>1, ConcatIs
  <2>3. DOMAIN (c \o d) = 1..Len(c \o d)
    BY <2>2
  <2> QED
    BY <2>2, <2>3
<1>5. /\ \A i \in 1..m : i \in 1..(m + n) /\ e[i] = c[i]
      /\ \A i \in 1..n : m + i \in 1..(m + n) /\ e[m + i] = d[i]
  BY <1>3, <1>4, ConcatIs DEF Takes
<1> DEFINE at == [k \in 1..(m + n) |-> IF k <= m THEN a[k] ELSE b[k - m]]
<1>6. /\ \A k \in 1..m : k \in 1..(m + n) /\ k <= m
      /\ \A k \in 1..n : m + k \in 1..(m + n) /\ ~(m + k <= m) /\ (m + k) - m = k
      /\ \A k \in 1..(m + n) : k \in 1..m \/ (k \notin 1..m /\ \E i \in 1..n : k = m + i)
  <2>1. \A k \in 1..(m + n) : k \in 1..m \/ (k \notin 1..m /\ k - m \in 1..n /\ k = m + (k - m))
    BY ONLY m \in Nat, n \in Nat
  <2>2. /\ \A k \in 1..m : k \in 1..(m + n) /\ k <= m
        /\ \A k \in 1..n : m + k \in 1..(m + n) /\ ~(m + k <= m) /\ (m + k) - m = k
    BY ONLY m \in Nat, n \in Nat
  <2> QED
    BY <2>1, <2>2
<1>7. /\ \A k \in 1..m : at[k] = a[k]
      /\ \A k \in 1..n : at[m + k] = b[k]
  BY <1>6
<1>8. /\ \A k \in 1..m : a[k] \in P /\ q[a[k]].msgs = <<c[k]>>
      /\ \A k \in 1..n : b[k] \in R /\ q[b[k]].msgs = <<d[k]>>
      /\ \A k, l \in 1..m : k < l /\ (q[a[k]].mergeable <=> q[a[l]].mergeable) => a[k] < a[l]
      /\ \A k, l \in 1..n : k < l /\ (q[b[k]].mergeable <=> q[b[l]].mergeable) => b[k] < b[l]
      /\ \A i \in P : q[i].msgs # <<>> => \E k \in 1..m : a[k] = i
      /\ \A i \in R : q[i].msgs # <<>> => \E k \in 1..n : b[k] = i
  BY <1>1, <1>2, <1>3 DEF Took
<1>9. at \in [1..(m + n) -> P \cup R]
  BY <1>6, <1>8
<1> HIDE DEF at
<1>10. \A k \in 1..(m + n) : q[at[k]].msgs = <<e[k]>>
  <2>1. \A k \in 1..m : q[at[k]].msgs = <<e[k]>>
    BY <1>5, <1>7, <1>8
  <2>2. \A k \in 1..n : q[at[m + k]].msgs = <<e[m + k]>>
    <3>1. ASSUME NEW k \in 1..n PROVE q[at[m + k]].msgs = <<e[m + k]>>
      <4>1. at[m + k] = b[k] /\ e[m + k] = d[k] /\ q[b[k]].msgs = <<d[k]>>
        BY <1>5, <1>7, <1>8
      <4> QED
        BY <4>1
    <3> QED
      BY <3>1
  <2> QED
    BY ZenonT(60), <1>6, <2>1, <2>2
<1>11. \A k, l \in 1..(m + n) :
          k < l /\ (q[at[k]].mergeable <=> q[at[l]].mergeable) => at[k] < at[l]
  <2>1. SUFFICES ASSUME NEW k \in 1..(m + n), NEW l \in 1..(m + n), k < l,
                        q[at[k]].mergeable <=> q[at[l]].mergeable
                 PROVE  at[k] < at[l]
    OBVIOUS
  <2>2. CASE k \in 1..m /\ l \in 1..m
    BY <1>7, <1>8, <2>1, <2>2
  <2>3. CASE k \in 1..m /\ l \notin 1..m
    <3>1. PICK i \in 1..n : l = m + i
      BY <1>6, <2>3
    <3>2. at[k] \in P /\ at[l] \in R
      BY <1>7, <1>8, <2>3, <3>1
    <3> QED
      BY <2>1, <3>2 DEF Precede
  <2>4. CASE k \notin 1..m /\ l \notin 1..m
    <3>1. PICK i \in 1..n, j \in 1..n : k = m + i /\ l = m + j
      BY <1>6, <2>4
    <3>2. i < j
      BY <2>1, <3>1
    <3> QED
      <4>1. at[k] = b[i] /\ at[l] = b[j]
        BY <1>7, <3>1
      <4>2. q[b[i]].mergeable <=> q[b[j]].mergeable
        BY <2>1, <4>1
      <4> QED
        BY <1>8, <3>2, <4>1, <4>2
  <2>5. ~(k \notin 1..m /\ l \in 1..m)
    BY <2>1
  <2> QED
    BY <2>2, <2>3, <2>4, <2>5
<1>12. \A i \in P \cup R : q[i].msgs # <<>> => \E k \in 1..(m + n) : at[k] = i
  <2>1. ASSUME NEW i \in P, q[i].msgs # <<>> PROVE \E k \in 1..(m + n) : at[k] = i
    BY <1>6, <1>7, <1>8, <2>1
  <2>2. ASSUME NEW i \in R, q[i].msgs # <<>> PROVE \E k \in 1..(m + n) : at[k] = i
    <3>1. PICK k \in 1..n : b[k] = i
      BY <1>8, <2>2
    <3>2. m + k \in 1..(m + n) /\ at[m + k] = i
      BY <1>6, <1>7, <3>1
    <3> QED
      BY <3>2
  <2> QED
    BY <2>1, <2>2
<1> QED
  <2>1. Took(e, at, q, P \cup R)
    <3>1. Len(e) = m + n
      BY <1>4
    <3> QED
      BY <1>9, <1>10, <1>11, <1>12, <3>1 DEF Took
  <2>2. Takes(e, q, P \cup R)
    BY <2>1 DEF Takes
  <2> QED
    BY <1>4, <2>2

(* The messages of one request.                                             *)
LEMMA TakesOne ==
    ASSUME NEW q \in Seq(Requests), NEW i \in DOMAIN q, Len(q[i].msgs) <= 1
    PROVE  Takes(q[i].msgs, q, {i})
<1>1. PICK d \in Seq(Messages) : d = q[i].msgs /\ i \in Nat
  <2>1. q[i] \in Requests /\ i \in Nat
    OBVIOUS
  <2>2. q[i].msgs \in Seq(Messages)
    BY <2>1 DEF Requests
  <2> QED
    BY <2>1, <2>2
<1>2. CASE d = <<>>
  <2>1. Len(d) = 0 /\ <<>> \in [1..0 -> {i}] /\ \A k \in 1..0 : FALSE
    BY <1>2
  <2>2. Took(d, <<>>, q, {i})
    BY <1>1, <1>2, <2>1 DEF Took
  <2> QED
    BY <1>1, <2>2 DEF Takes
<1>3. CASE d # <<>>
  <2>1. Len(d) = 1 /\ d = <<d[1]>>
    BY <1>1, <1>3, OneElement
  <2> DEFINE at == [k \in 1..1 |-> i]
  <2>2. at \in [1..1 -> {i}] /\ at[1] = i /\ \A k \in 1..1 : k = 1 /\ ~(k < k)
    OBVIOUS
  <2> HIDE DEF at
  <2>3. 1 \in 1..1
    OBVIOUS
  <2>4. /\ \A k \in 1..1 : q[at[k]].msgs = <<d[k]>>
        /\ \A k, l \in 1..1 : ~(k < l)
    BY <1>1, <2>1, <2>2
  <2>5. \E k \in 1..1 : at[k] = i
    BY <2>2, <2>3
  <2>6. Took(d, at, q, {i})
    BY <2>1, <2>2, <2>4, <2>5 DEF Took
  <2> QED
    BY <1>1, <2>6 DEF Takes
<1> QED
  BY <1>2, <1>3

(* Materialize takes the messages of the requests at the places.            *)
LEMMA TakesPlaces ==
    ASSUME NEW q \in Seq(Requests), NEW places \in SUBSET (DOMAIN q),
           \A i \in DOMAIN q : Len(q[i].msgs) <= 1
    PROVE  Takes(Materialize(q, places), q, places)
<1>1. PICK at : Carried(Materialize(q, places), at, q, places)
  BY MaterializeIs
<1>2. Took(Materialize(q, places), at, q, places)
  BY <1>1 DEF Carried, Took
<1> QED
  BY <1>2, MaterializeIs DEF Takes

(* A batch takes the requests that do not stay; those that stay come after. *)
LEMMA BatchTakes ==
    ASSUME NEW q \in Seq(Requests), q # <<>>, \A i \in DOMAIN q : Len(q[i].msgs) <= 1
    PROVE  /\ Rest(q) \in SUBSET (DOMAIN q) /\ Takes(Batch(q), q, DOMAIN q \ Rest(q))
           /\ Precede(q, DOMAIN q \ Rest(q), Rest(q))
<1>1. PICK n \in Nat : n = Len(q) /\ DOMAIN q = 1..n /\ n # 0 /\ 1 \in 1..n
  OBVIOUS
<1>2. \A i \in 1..n : q[i].mergeable \in BOOLEAN
  <2>1. \A i \in 1..n : q[i] \in Requests
    BY <1>1
  <2> QED
    BY <2>1 DEF Requests
<1>3. Drivers(q) \in SUBSET (1..n) /\ \A i \in 1..n : i \in Drivers(q) <=> ~q[i].mergeable
  BY <1>1 DEF Drivers
<1>4. /\ DriverIndex(q) \in 1..n /\ (Drivers(q) = {} => DriverIndex(q) = 1)
      /\ Drivers(q) # {} => DriverIndex(q) \in Drivers(q)
      /\ \A i \in Drivers(q) : DriverIndex(q) <= i
  <2>1. CASE Drivers(q) = {}
    BY <1>1, <2>1 DEF DriverIndex
  <2>2. CASE Drivers(q) # {}
    <3>1. \E i \in Drivers(q) : \A j \in Drivers(q) : i <= j
      BY SMTT(40), <1>3, <2>2, LeastElement
    <3>2. Min(Drivers(q)) \in Drivers(q) /\ \A j \in Drivers(q) : Min(Drivers(q)) <= j
      BY <3>1 DEF Min
    <3> QED
      BY <1>3, <2>2, <3>2 DEF DriverIndex
  <2> QED
    BY <2>1, <2>2
<1> DEFINE D == DriverIndex(q)
<1>5. Merged(q) \in SUBSET (DOMAIN q) /\ \A i \in DOMAIN q \ Rest(q) : i \in {D} \cup Merged(q)
  BY <1>1, <1>3 DEF Merged, Rest
<1>6. {D} \cup Merged(q) = DOMAIN q \ Rest(q) /\ Rest(q) \in SUBSET (DOMAIN q)
  BY <1>1, <1>3, <1>4, <1>5 DEF Merged, Rest
<1>7. Takes(q[D].msgs, q, {D})
  BY <1>1, <1>4, TakesOne
<1>8. Takes(Materialize(q, Merged(q)), q, Merged(q))
  BY <1>5, TakesPlaces
<1>9. Precede(q, {D}, Merged(q))
  <2>1. ASSUME NEW j \in Merged(q), q[D].mergeable <=> q[j].mergeable PROVE D < j
    <3>1. j \in 1..n /\ j \notin Drivers(q) /\ j # D
      BY <1>1, <2>1 DEF Merged
    <3>2. Drivers(q) = {}
      BY <1>3, <1>4, <2>1, <3>1
    <3> QED
      BY <1>4, <3>1, <3>2
  <2> QED
    BY <2>1 DEF Precede
<1>10. Takes(Batch(q), q, DOMAIN q \ Rest(q))
  <2>1. {D} \in SUBSET (DOMAIN q)
    BY <1>1, <1>4
  <2> HIDE DEF D
  <2>2. Takes(q[D].msgs \o Materialize(q, Merged(q)), q, {D} \cup Merged(q))
    BY <1>5, <1>7, <1>8, <1>9, <2>1, TakesBoth
  <2> QED
    BY <1>6, <2>2 DEF Batch, D
<1>11. Precede(q, DOMAIN q \ Rest(q), Rest(q))
  <2>1. ASSUME NEW i \in DOMAIN q \ Rest(q), NEW j \in Rest(q), q[i].mergeable <=> q[j].mergeable
        PROVE  i < j
    <3>1. j \in Drivers(q) /\ j # D /\ D <= j /\ j \in 1..n
      BY <1>3, <1>4 DEF Rest
    <3>2. i \in Drivers(q) /\ i = D
      BY <1>1, <1>3, <2>1, <3>1 DEF Rest
    <3> QED
      BY <1>4, <3>1, <3>2
  <2> QED
    BY <2>1 DEF Precede
<1> QED
  BY <1>6, <1>10, <1>11

(* Draining takes all of it.                                                *)
LEMMA DrainTakes ==
    ASSUME NEW q \in Seq(Requests), \A i \in DOMAIN q : Len(q[i].msgs) <= 1
    PROVE  Takes(DrainMaterialized(q), q, DOMAIN q)
<1>1. CASE q = <<>>
  <2>1. DrainMaterialized(q) = <<>> /\ DOMAIN q = {} /\ Len(<<>>) = 0 /\ <<>> \in Seq(Messages)
    BY <1>1 DEF DrainMaterialized
  <2>2. <<>> \in [1..0 -> {}] /\ \A k \in 1..0 : FALSE
    OBVIOUS
  <2>3. Took(<<>>, <<>>, q, {})
    BY <2>1, <2>2 DEF Took
  <2> QED
    BY <2>1, <2>3 DEF Takes
<1>2. CASE q # <<>>
  <2>1. /\ Rest(q) \in SUBSET (DOMAIN q) /\ Takes(Batch(q), q, DOMAIN q \ Rest(q))
        /\ Precede(q, DOMAIN q \ Rest(q), Rest(q))
    BY <1>2, BatchTakes
  <2>2. Takes(Materialize(q, Rest(q)), q, Rest(q))
    BY <2>1, TakesPlaces
  <2>3. (DOMAIN q \ Rest(q)) \cup Rest(q) = DOMAIN q
    BY <2>1
  <2>4. Takes(Batch(q) \o Materialize(q, Rest(q)), q, (DOMAIN q \ Rest(q)) \cup Rest(q))
    BY <2>1, <2>2, TakesBoth
  <2> QED
    BY <1>2, <2>3, <2>4 DEF DrainMaterialized
<1> QED
  BY <1>1, <1>2

(* All of them are the sequence itself.                                     *)
LEMMA KeptAll ==
    ASSUME NEW T, NEW q \in Seq(T)
    PROVE  Kept(q, DOMAIN q) = q
<1>1. PICK n \in Nat : n = Len(q) /\ DOMAIN q = 1..n
  OBVIOUS
<1>2. PICK s \in Seq(T) : s = Kept(q, DOMAIN q) /\ \E at : Picked(s, at, q, DOMAIN q)
  BY KeptIs
<1>0. PICK at : Picked(s, at, q, DOMAIN q)
  BY <1>2
<1>3. PICK m \in Nat : m = Len(s) /\ DOMAIN s = 1..m
  OBVIOUS
<1>4. /\ at \in [1..m -> 1..n] /\ \A k \in 1..m : s[k] = q[at[k]]
      /\ \A k, l \in 1..m : k < l => at[k] < at[l]
      /\ \A i \in 1..n : \E k \in 1..m : at[k] = i
  BY <1>0, <1>1, <1>3 DEF Picked
<1> DEFINE N == {k \in Nat : \A j \in 1..k : j <= n => j \in 1..m /\ at[j] = j}
<1>5. 0 \in N
  OBVIOUS
<1>6. ASSUME NEW k \in N PROVE k + 1 \in N
  <2>1. SUFFICES ASSUME k + 1 <= n PROVE k + 1 \in 1..m /\ at[k + 1] = k + 1
    <3>1. \A j \in 1..(k + 1) : j \in 1..k \/ j = k + 1
      OBVIOUS
    <3> QED
      BY <3>1
  <2>2. k \in Nat /\ k + 1 \in 1..n /\ \A j \in 1..k : j <= n /\ j \in 1..m /\ at[j] = j
    BY <1>1, <2>1
  <2>3. PICK l \in 1..m : at[l] = k + 1
    BY <1>4, <2>2
  <2>4. l \notin 1..k
    BY <2>2, <2>3
  <2>5. l >= k + 1 /\ k + 1 \in 1..m
    BY <2>2, <2>4
  <2>6. at[k + 1] \in 1..n /\ at[k + 1] <= k + 1
    BY SMTT(40), <1>4, <2>3, <2>5
  <2>7. k = 0 \/ (k \in 1..m /\ at[k] = k /\ at[k] < at[k + 1])
    BY <1>4, <2>2, <2>5
  <2> QED
    BY <2>2, <2>5, <2>6, <2>7
<1>7. N = Nat
  <2> HIDE DEF N
  <2>1. N \in SUBSET Nat
    BY DEF N
  <2> QED
    BY <1>5, <1>6, <2>1, SetOfNaturals
<1>8. \A j \in 1..n : j \in 1..m /\ at[j] = j
  <2>1. n \in N
    BY <1>7
  <2> QED
    BY <2>1
<1>9. m = n
  <2>1. n <= m
    <3>1. n = 0 \/ n \in 1..n
      OBVIOUS
    <3> QED
      BY <1>8, <3>1
  <2>2. ~(m > n)
    <3>1. SUFFICES ASSUME m > n PROVE FALSE
      OBVIOUS
    <3>2. n + 1 \in 1..m /\ at[n + 1] \in 1..n
      BY <1>4, <3>1
    <3>3. n \in 1..m /\ at[n] = n /\ n < n + 1
      BY <1>8, <3>2
    <3>4. at[n] < at[n + 1]
      BY <1>4, <3>2, <3>3
    <3> QED
      BY <3>2, <3>3, <3>4
  <2> QED
    BY <2>1, <2>2
<1>10. \A j \in 1..n : s[j] = q[j]
  BY <1>4, <1>8
<1> QED
  BY <1>1, <1>2, <1>3, <1>9, <1>10

(* What is in a concatenation.                                              *)
LEMMA InBoth ==
    ASSUME NEW T, NEW s \in Seq(T), NEW t \in Seq(T)
    PROVE  /\ \A x : In(s \o t, x) <=> In(s, x) \/ In(t, x)
           /\ \A x : Held(s \o t, x) <=> Held(s, x) \/ Held(t, x)
<1>1. /\ DOMAIN s = 1..Len(s) /\ DOMAIN t = 1..Len(t)
      /\ \A i \in 1..Len(s) : i \in DOMAIN (s \o t) /\ (s \o t)[i] = s[i]
      /\ \A i \in 1..Len(t) : Len(s) + i \in DOMAIN (s \o t) /\ (s \o t)[Len(s) + i] = t[i]
      /\ \A i \in DOMAIN (s \o t) :
            i \in 1..Len(s) \/ (i - Len(s) \in 1..Len(t) /\ (s \o t)[i] = t[i - Len(s)])
  BY ConcatIs
<1>2. PICK e : e = s \o t
  OBVIOUS
<1>3. /\ \A i \in DOMAIN s : i \in DOMAIN e /\ e[i] = s[i]
      /\ \A i \in DOMAIN t : \E j \in DOMAIN e : e[j] = t[i]
      /\ \A j \in DOMAIN e : (j \in DOMAIN s /\ e[j] = s[j]) \/ \E i \in DOMAIN t : e[j] = t[i]
  BY <1>1, <1>2
<1>4. \A x : In(e, x) <=> In(s, x) \/ In(t, x)
  BY <1>3 DEF In
<1>5. ASSUME NEW x PROVE Held(e, x) <=> Held(s, x) \/ Held(t, x)
  <2>1. ASSUME NEW j \in DOMAIN e, e[j].msgs = <<x>> PROVE Held(s, x) \/ Held(t, x)
    BY <1>3, <2>1 DEF Held
  <2>2. ASSUME NEW i \in DOMAIN s, s[i].msgs = <<x>> PROVE Held(e, x)
    BY <1>3, <2>2 DEF Held
  <2>3. ASSUME NEW i \in DOMAIN t, t[i].msgs = <<x>> PROVE Held(e, x)
    <3>1. PICK j \in DOMAIN e : e[j] = t[i]
      BY <1>3
    <3> QED
      BY <2>3, <3>1 DEF Held
  <2> QED
    BY <2>1, <2>2, <2>3 DEF Held
<1> QED
  BY <1>2, <1>4, <1>5

\* A request at one of these places carries x.
HasFrom(q, P, x) == \E i \in P : q[i].msgs = <<x>>

(* What was taken is in the conversation.                                   *)
LEMMA TakenIn ==
    ASSUME NEW msgs \in Seq(Messages), NEW q \in Seq(Requests), NEW P, NEW d, Takes(d, q, P), NEW x
    PROVE  In(msgs \o d, x) <=> (In(msgs, x) \/ HasFrom(q, P, x))
<1>1. PICK at : Took(d, at, q, P)
  BY DEF Takes
<1>2. d \in Seq(Messages) /\ DOMAIN d = 1..Len(d)
  BY DEF Takes
<1>3. In(d, x) <=> HasFrom(q, P, x)
  <2>1. ASSUME In(d, x) PROVE HasFrom(q, P, x)
    BY <1>1, <1>2, <2>1 DEF In, Took, HasFrom
  <2>2. ASSUME HasFrom(q, P, x) PROVE In(d, x)
    <3>1. PICK i \in P : q[i].msgs = <<x>>
      BY <2>2 DEF HasFrom
    <3>2. q[i].msgs # <<>>
      BY <3>1
    <3>3. PICK k \in 1..Len(d) : at[k] = i
      BY <1>1, <3>2 DEF Took
    <3>4. <<x>> = <<d[k]>>
      BY <1>1, <3>1, <3>3 DEF Took
    <3>5. x = d[k]
      BY <3>4
    <3> QED
      BY <1>2, <3>5 DEF In
  <2> QED
    BY <2>1, <2>2
<1> QED
  BY <1>2, <1>3, InBoth

(* What was picked is what the queue holds.                                 *)
LEMMA HeldPicked ==
    ASSUME NEW q \in Seq(Requests), NEW R, NEW r \in Seq(Requests), NEW pt, Picked(r, pt, q, R), NEW x
    PROVE  Held(r, x) <=> \E i \in R : q[i].msgs = <<x>>
<1>1. DOMAIN r = 1..Len(r)
  OBVIOUS
<1>2. /\ \A k \in 1..Len(r) : pt[k] \in R /\ r[k] = q[pt[k]]
      /\ \A i \in R : \E k \in 1..Len(r) : pt[k] = i
  BY DEF Picked
<1>3. ASSUME Held(r, x) PROVE \E i \in R : q[i].msgs = <<x>>
  BY <1>1, <1>2, <1>3 DEF Held
<1>4. ASSUME NEW i \in R, q[i].msgs = <<x>> PROVE Held(r, x)
  <2>1. PICK k \in 1..Len(r) : pt[k] = i
    BY <1>2
  <2> QED
    BY <1>1, <1>2, <1>4, <2>1 DEF Held
<1> QED
  BY <1>3, <1>4

(* Messages move from the queue to the conversation.                        *)
LEMMA AlignedMoves ==
    ASSUME NEW msgs \in Seq(Messages), NEW q \in Seq(Requests), NEW x, NEW y, Aligned(msgs, q, x, y),
           \A i, j \in DOMAIN q :
              q[i].msgs = <<x>> /\ q[j].msgs = <<y>> => (q[i].mergeable <=> q[j].mergeable),
           NEW P \in SUBSET (DOMAIN q), NEW R \in SUBSET (DOMAIN q), Precede(q, P, R),
           NEW d, Takes(d, q, P), NEW r \in Seq(Requests), NEW pt, Picked(r, pt, q, R)
    PROVE  Aligned(msgs \o d, r, x, y)
<1>1. PICK at : Took(d, at, q, P)
  BY DEF Takes
<1>2. PICK m \in Nat, n \in Nat : m = Len(msgs) /\ n = Len(d) /\ d \in Seq(Messages)
                                  /\ DOMAIN msgs = 1..m /\ DOMAIN d = 1..n
  BY DEF Takes
<1>3. PICK l \in Nat : l = Len(r) /\ DOMAIN r = 1..l
  OBVIOUS
<1>4. PICK e \in Seq(Messages) : e = msgs \o d
  <2>1. msgs \o d \in Seq(Messages)
    BY <1>2, ConcatIs
  <2> QED
    BY <2>1
<1>5. \A i \in DOMAIN e : i \in Nat /\ ((i \in 1..m /\ e[i] = msgs[i])
                                       \/ (i > m /\ i - m \in 1..n /\ e[i] = d[i - m]))
  <2>1. /\ \A i \in 1..m : e[i] = msgs[i]
        /\ \A i \in DOMAIN e : i \in 1..m \/ (i > m /\ i - m \in 1..n /\ e[i] = d[i - m])
    BY <1>2, <1>4, ConcatIs
  <2>2. \A i \in DOMAIN e : i \in Nat
    OBVIOUS
  <2> QED
    BY <2>1, <2>2
<1>6. /\ \A k \in 1..n : at[k] \in P /\ at[k] \in DOMAIN q /\ q[at[k]].msgs = <<d[k]>>
      /\ \A j, k \in 1..n : j < k /\ (q[at[j]].mergeable <=> q[at[k]].mergeable) => at[j] < at[k]
  BY <1>1, <1>2 DEF Took
<1>7. /\ \A k \in 1..l : pt[k] \in R /\ pt[k] \in DOMAIN q /\ r[k] = q[pt[k]]
      /\ \A j, k \in 1..l : j < k => pt[j] < pt[k]
  BY <1>3 DEF Picked
<1>8. DOMAIN q \in SUBSET Nat
  OBVIOUS
<1>9. /\ \A i, j \in 1..m : msgs[i] = x /\ msgs[j] = y => i <= j
      /\ \A i, j \in DOMAIN q : q[i].msgs = <<x>> /\ q[j].msgs = <<y>> => i <= j
      /\ \A i \in DOMAIN q, j \in 1..m : ~(q[i].msgs = <<x>> /\ msgs[j] = y)
  BY <1>2 DEF Aligned, Held, In
<1>10. ASSUME NEW i \in DOMAIN e, NEW j \in DOMAIN e, e[i] = x, e[j] = y PROVE i <= j
  <2>1. CASE i \in 1..m /\ j \in 1..m /\ e[i] = msgs[i] /\ e[j] = msgs[j]
    BY <1>9, <1>10, <2>1
  <2>2. CASE i \in 1..m /\ j > m
    BY <1>5, <2>2
  <2>3. CASE i - m \in 1..n /\ e[i] = d[i - m] /\ j \in 1..m /\ e[j] = msgs[j]
    BY <1>6, <1>9, <1>10, <2>3
  <2>4. CASE i > m /\ j > m /\ i - m \in 1..n /\ e[i] = d[i - m] /\ j - m \in 1..n /\ e[j] = d[j - m]
    <3>1. SUFFICES ASSUME j - m < i - m PROVE FALSE
      BY <1>5
    <3>2. q[at[i - m]].msgs = <<x>> /\ q[at[j - m]].msgs = <<y>>
      BY <1>6, <1>10, <2>4
    <3>3. at[j - m] < at[i - m] /\ at[i - m] <= at[j - m]
      BY <1>6, <1>9, <2>4, <3>1, <3>2
    <3> QED
      BY SMTT(40), <1>6, <1>8, <2>4, <3>3
  <2> QED
    BY <1>5, <2>1, <2>2, <2>3, <2>4
<1>11. ASSUME NEW i \in 1..l, NEW j \in 1..l, r[i].msgs = <<x>>, r[j].msgs = <<y>> PROVE i <= j
  <2>1. SUFFICES ASSUME j < i PROVE FALSE
    OBVIOUS
  <2>2. pt[j] < pt[i] /\ pt[i] <= pt[j]
    BY <1>7, <1>9, <1>11, <2>1
  <2> QED
    BY <1>7, <1>8, <2>2
<1>12. ASSUME NEW i \in 1..l, r[i].msgs = <<x>>, NEW j \in DOMAIN e, e[j] = y PROVE FALSE
  <2>1. pt[i] \in R /\ pt[i] \in DOMAIN q /\ q[pt[i]].msgs = <<x>>
    BY <1>7, <1>12
  <2>2. j - m \in 1..n /\ e[j] = d[j - m]
    BY <1>5, <1>9, <1>12, <2>1
  <2>3. at[j - m] \in P /\ at[j - m] \in DOMAIN q /\ q[at[j - m]].msgs = <<y>>
    BY <1>6, <1>12, <2>2
  <2>4. at[j - m] < pt[i] /\ pt[i] <= at[j - m]
    BY <1>9, <2>1, <2>3 DEF Precede
  <2> QED
    BY <1>8, <2>1, <2>3, <2>4
<1> QED
  BY <1>3, <1>4, <1>10, <1>11, <1>12 DEF Aligned, Held, In

-----------------------------------------------------------------------------
(* The order of the steps and the results.                                  *)

(* The kinds of messages, and what they are about.                          *)
LEMMA MsgKinds ==
    /\ \A s : StepMsg(s).k = "step"
    /\ \A s, t : StepMsg(s) = StepMsg(t) => s = t
    /\ \A c : ResultMsg(c).k = "result" /\ ResultMsg(c).calls = {c}
    /\ \A b, c : ResultMsg(b) = ResultMsg(c) => b = c
    /\ \A s \in STRING : StepMsg(s) \in Messages
    /\ \A c \in Nat : ResultMsg(c) \in Messages
<1>1. ASSUME NEW s, NEW t, StepMsg(s) = StepMsg(t) PROVE s = t
  <2>1. <<s>> = <<t>>
    BY <1>1 DEF StepMsg, Msg
  <2> QED
    BY <2>1
<1>2. ASSUME NEW b, NEW c, ResultMsg(b) = ResultMsg(c) PROVE b = c
  <2>1. {b} = {c}
    BY <1>2 DEF ResultMsg, Msg
  <2> QED
    BY <2>1
<1>3. /\ \A s : StepMsg(s).k = "step"
      /\ \A c : ResultMsg(c).k = "result" /\ ResultMsg(c).calls = {c}
  BY DEF StepMsg, ResultMsg, Msg
<1>4. \A s \in STRING : StepMsg(s) \in Messages
  <2>1. ASSUME NEW s \in STRING PROVE StepMsg(s) \in Messages
    <3>1. <<s>> \in Seq(STRING)
      BY OneIn
    <3> QED
      BY <3>1 DEF StepMsg, Msg, Messages, MsgSorts
  <2> QED
    BY <2>1
<1>5. \A c \in Nat : ResultMsg(c) \in Messages
  <2>1. ASSUME NEW c \in Nat PROVE ResultMsg(c) \in Messages
    <3>1. <<>> \in Seq(STRING) /\ {c} \in SUBSET Nat
      OBVIOUS
    <3> QED
      BY <3>1 DEF ResultMsg, Msg, Messages, MsgSorts
  <2> QED
    BY <2>1
<1> QED
  BY <1>1, <1>2, <1>3, <1>4, <1>5

(* The inputs are sequences of distinct names.                              *)
LEMMA InputsAre ==
    ASSUME inputs \in Inputs
    PROVE  /\ inputs \in Seq(STRING) /\ \A i \in DOMAIN inputs : inputs[i] \in STRING
           /\ \A i, j \in DOMAIN inputs : inputs[i] = inputs[j] => i = j
<1>1. inputs \in Seq(STRING) /\ IsInjective(inputs)
  BY BoundsAssumption
<1> QED
  BY <1>1 DEF IsInjective

(* Inputs of one mode make requests of one kind.                            *)
LEMMA SameFlag ==
    ASSUME inputs \in Inputs, NEW msgs, NEW q \in Seq(Requests), Order(msgs, q)
    PROVE  /\ \A i, j \in DOMAIN inputs, m, n \in DOMAIN q :
                 SameMode(i, j) /\ q[m].msgs = <<StepMsg(inputs[i])>> /\ q[n].msgs = <<StepMsg(inputs[j])>>
                    => (q[m].mergeable <=> q[n].mergeable)
           /\ \A c \in Nat, m, n \in DOMAIN q :
                 q[m].msgs = <<ResultMsg(c)>> /\ q[n].msgs = <<ResultMsg(c)>>
                    => (q[m].mergeable <=> q[n].mergeable)
<1>1. \A i \in DOMAIN inputs, m \in DOMAIN q :
         q[m].msgs = <<StepMsg(inputs[i])>> => (q[m].mergeable <=> inputs[i] \in Steers)
  BY InputsAre DEF Order, Plain
<1>2. \A c \in Nat, m \in DOMAIN q : q[m].msgs = <<ResultMsg(c)>> => q[m].mergeable
  BY DEF Order, Plain
<1> QED
  BY <1>1, <1>2 DEF SameMode

(* A part of a plain queue is plain.                                        *)
LEMMA PlainPicked ==
    ASSUME NEW q \in Seq(Requests), Plain(q), NEW R \in SUBSET (DOMAIN q),
           NEW r \in Seq(Requests), NEW pt, Picked(r, pt, q, R)
    PROVE  Plain(r)
<1>1. ASSUME NEW n \in DOMAIN r PROVE \E i \in DOMAIN q : r[n] = q[i]
  <2>1. n \in 1..Len(r)
    OBVIOUS
  <2> QED
    BY <2>1 DEF Picked
<1> QED
  BY SMTT(40), <1>1 DEF Plain

(* Messages move from the queue to the conversation.                        *)
LEMMA OrderMoves ==
    ASSUME inputs \in Inputs, NEW msgs \in Seq(Messages), NEW q \in Seq(Requests), Order(msgs, q),
           NEW P \in SUBSET (DOMAIN q), NEW R \in SUBSET (DOMAIN q), Precede(q, P, R),
           NEW d, Takes(d, q, P), NEW r \in Seq(Requests), NEW pt, Picked(r, pt, q, R)
    PROVE  Order(msgs \o d, r)
<1>1. Plain(r)
  BY PlainPicked DEF Order
<1>2. ASSUME NEW i \in DOMAIN inputs, NEW j \in DOMAIN inputs, SameMode(i, j)
      PROVE  Aligned(msgs \o d, r, StepMsg(inputs[i]), StepMsg(inputs[j]))
  <2>1. Aligned(msgs, q, StepMsg(inputs[i]), StepMsg(inputs[j]))
    BY <1>2 DEF Order
  <2>2. \A m, n \in DOMAIN q :
           q[m].msgs = <<StepMsg(inputs[i])>> /\ q[n].msgs = <<StepMsg(inputs[j])>>
              => (q[m].mergeable <=> q[n].mergeable)
    BY <1>2, SameFlag
  <2> QED
    BY <2>1, <2>2, AlignedMoves
<1>3. ASSUME NEW c \in Nat PROVE Aligned(msgs \o d, r, ResultMsg(c), ResultMsg(c))
  <2>1. Aligned(msgs, q, ResultMsg(c), ResultMsg(c))
    BY DEF Order
  <2>2. \A m, n \in DOMAIN q :
           q[m].msgs = <<ResultMsg(c)>> /\ q[n].msgs = <<ResultMsg(c)>>
              => (q[m].mergeable <=> q[n].mergeable)
    BY SameFlag
  <2> QED
    BY <2>1, <2>2, AlignedMoves
<1> QED
  BY <1>1, <1>2, <1>3 DEF Order

(* Nothing is taken and a part is kept.                                     *)
LEMMA OrderPart ==
    ASSUME inputs \in Inputs, NEW msgs \in Seq(Messages), NEW q \in Seq(Requests), Order(msgs, q),
           NEW R \in SUBSET (DOMAIN q), NEW r \in Seq(Requests), NEW pt, Picked(r, pt, q, R)
    PROVE  Order(msgs, r)
<1>1. <<>> \in [1..0 -> {}] /\ Len(<<>>) = 0 /\ <<>> \in Seq(Messages) /\ \A k \in 1..0 : FALSE
  OBVIOUS
<1>2. Takes(<<>>, q, {})
  <2>1. Took(<<>>, <<>>, q, {})
    BY <1>1 DEF Took
  <2> QED
    BY <1>1, <2>1 DEF Takes
<1>3. Precede(q, {}, R) /\ {} \in SUBSET (DOMAIN q)
  BY DEF Precede
<1>4. Order(msgs \o <<>>, r)
  BY <1>2, <1>3, OrderMoves
<1>5. msgs \o <<>> = msgs
  OBVIOUS
<1> QED
  BY <1>4, <1>5

(* The first part of a queue, or none of it.                                *)
LEMMA OrderFirst ==
    ASSUME inputs \in Inputs, NEW msgs \in Seq(Messages), NEW p \in Seq(Requests), NEW q \in Seq(Requests),
           Order(msgs, p \o q)
    PROVE  Order(msgs, p)
<1>1. /\ p \o q \in Seq(Requests) /\ DOMAIN p = 1..Len(p) /\ Len(p) \in Nat
      /\ \A i \in 1..Len(p) : i \in DOMAIN (p \o q) /\ (p \o q)[i] = p[i]
  BY ConcatIs
<1> DEFINE pt == [i \in 1..Len(p) |-> i]
<1>2. Picked(p, pt, p \o q, 1..Len(p))
  BY <1>1 DEF Picked
<1>3. 1..Len(p) \in SUBSET (DOMAIN (p \o q))
  BY <1>1
<1> HIDE DEF pt
<1> QED
  BY <1>1, <1>2, <1>3, OrderPart

(* The queue is thrown away.                                                *)
LEMMA OrderNone ==
    ASSUME inputs \in Inputs, NEW msgs \in Seq(Messages), NEW q \in Seq(Requests), Order(msgs, q)
    PROVE  Order(msgs, <<>>)
<1>1. <<>> \o q = q /\ <<>> \in Seq(Requests)
  OBVIOUS
<1> QED
  BY <1>1, OrderFirst

(* The queue drained of it all, and of what outlives the turn.              *)
LEMMA OrderDrained ==
    ASSUME inputs \in Inputs, NEW msgs \in Seq(Messages), NEW q \in Seq(Requests), Order(msgs, q)
    PROVE  /\ msgs \o DrainMaterialized(q) \in Seq(Messages)
           /\ Order(msgs \o DrainMaterialized(q), <<>>)
           /\ \A x : In(msgs \o DrainMaterialized(q), x) <=> In(msgs, x) \/ Held(q, x)
<1>1. Takes(DrainMaterialized(q), q, DOMAIN q)
  BY DrainTakes DEF Order, Plain
<1>2. msgs \o DrainMaterialized(q) \in Seq(Messages)
  BY <1>1 DEF Takes
<1>3. Picked(<<>>, <<>>, q, {})
  <2>1. <<>> \in [1..0 -> {}] /\ Len(<<>>) = 0 /\ \A k \in 1..0 : FALSE
    OBVIOUS
  <2> QED
    BY <2>1 DEF Picked
<1>4. Order(msgs \o DrainMaterialized(q), <<>>)
  <2>1. Precede(q, DOMAIN q, {}) /\ <<>> \in Seq(Requests)
    BY DEF Precede
  <2> QED
    BY <1>1, <1>3, <2>1, OrderMoves
<1>5. \A x : In(msgs \o DrainMaterialized(q), x) <=> In(msgs, x) \/ Held(q, x)
  <2>1. ASSUME NEW x PROVE In(msgs \o DrainMaterialized(q), x) <=> (In(msgs, x) \/ HasFrom(q, DOMAIN q, x))
    BY <1>1, TakenIn
  <2> QED
    BY <2>1 DEF HasFrom, Held
<1> QED
  BY <1>2, <1>4, <1>5

(* What belongs to the turn is thrown away, the rest is kept.               *)
LEMMA OrderAborted ==
    ASSUME inputs \in Inputs, NEW msgs \in Seq(Messages), NEW q \in Seq(Requests), Order(msgs, q)
    PROVE  AbortTurnScoped(q) \in Seq(Requests) /\ Order(msgs, AbortTurnScoped(q))
<1> DEFINE R == {i \in DOMAIN q : ~q[i].turnScoped}
<1>1. R \in SUBSET (DOMAIN q)
  OBVIOUS
<1> HIDE DEF R
<1>0. PICK r \in Seq(Requests) : r = Kept(q, R) /\ \E pt : Picked(r, pt, q, R)
  BY <1>1, KeptIs
<1>2. PICK pt : r = Kept(q, R) /\ Picked(r, pt, q, R)
  BY <1>0
<1> QED
  BY <1>1, <1>2, OrderPart DEF AbortTurnScoped, R

\* Every result among these messages is new and there once, none is a step.
NewResults(e, msgs, q) ==
    \A k \in DOMAIN e :
       /\ e[k].k # "step"
       /\ \A c \in Nat : e[k] = ResultMsg(c) =>
             ~In(msgs, e[k]) /\ ~Held(q, e[k]) /\ \A l \in DOMAIN e : e[l] = e[k] => l = k

(* The conversation goes on.                                                *)
LEMMA OrderSays ==
    ASSUME inputs \in Inputs, NEW msgs \in Seq(Messages), NEW q \in Seq(Requests), Order(msgs, q),
           NEW e \in Seq(Messages), NewResults(e, msgs, q)
    PROVE  Order(msgs \o e, q)
<1>1. PICK m \in Nat, n \in Nat : m = Len(msgs) /\ n = Len(e) /\ DOMAIN msgs = 1..m /\ DOMAIN e = 1..n
  OBVIOUS
<1>2. PICK s \in Seq(Messages) : s = msgs \o e
  <2>1. msgs \o e \in Seq(Messages)
    OBVIOUS
  <2> QED
    BY <2>1
<1>3. \A i \in DOMAIN s : i \in Nat /\ ((i \in 1..m /\ s[i] = msgs[i])
                                       \/ (i > m /\ i - m \in 1..n /\ s[i] = e[i - m]))
  <2>1. /\ \A i \in 1..m : s[i] = msgs[i]
        /\ \A i \in DOMAIN s : i \in 1..m \/ (i > m /\ i - m \in 1..n /\ s[i] = e[i - m])
    BY <1>1, <1>2, ConcatIs
  <2>2. \A i \in DOMAIN s : i \in Nat
    OBVIOUS
  <2> QED
    BY <2>1, <2>2
<1>4. ASSUME NEW x, NEW y, Aligned(msgs, q, x, y), \A k \in 1..n : e[k] # x /\ e[k] # y
      PROVE  Aligned(s, q, x, y)
  <2>1. \A i \in DOMAIN s : s[i] = x \/ s[i] = y => i \in 1..m /\ s[i] = msgs[i]
    BY <1>3, <1>4
  <2> QED
    BY <1>1, <1>4, <2>1 DEF Aligned, In
<1>5. ASSUME NEW i \in DOMAIN inputs, NEW j \in DOMAIN inputs, SameMode(i, j)
      PROVE  Aligned(s, q, StepMsg(inputs[i]), StepMsg(inputs[j]))
  <2>1. Aligned(msgs, q, StepMsg(inputs[i]), StepMsg(inputs[j]))
    BY <1>5 DEF Order
  <2>2. \A k \in 1..n : e[k] # StepMsg(inputs[i]) /\ e[k] # StepMsg(inputs[j])
    BY <1>1, MsgKinds DEF NewResults
  <2> QED
    BY <1>4, <2>1, <2>2
<1>6. ASSUME NEW c \in Nat PROVE Aligned(s, q, ResultMsg(c), ResultMsg(c))
  <2>1. Aligned(msgs, q, ResultMsg(c), ResultMsg(c))
    BY DEF Order
  <2>2. CASE \A k \in 1..n : e[k] # ResultMsg(c)
    BY <1>4, <2>1, <2>2
  <2>3. CASE \E k \in 1..n : e[k] = ResultMsg(c)
    <3>1. PICK k \in 1..n : e[k] = ResultMsg(c)
      BY <2>3
    <3>2. ~In(msgs, ResultMsg(c)) /\ ~Held(q, ResultMsg(c)) /\ \A l \in 1..n : e[l] = ResultMsg(c) => l = k
      BY <1>1, <3>1 DEF NewResults
    <3>3. \A i \in DOMAIN s : s[i] = ResultMsg(c) => i = m + k
      <4>1. ASSUME NEW i \in DOMAIN s, s[i] = ResultMsg(c) PROVE i = m + k
        <5>1. i \in Nat /\ i - m \in 1..n /\ s[i] = e[i - m]
          BY <1>1, <1>3, <3>2, <4>1 DEF In
        <5>2. i - m = k
          BY <3>2, <4>1, <5>1
        <5>3. i \in Int /\ m \in Int /\ k \in Int
          BY <1>1, <3>1, <5>1
        <5> QED
          BY ZenonT(60), <5>2, <5>3, Difference
      <4> QED
        BY <4>1
    <3>4. \A i, j \in DOMAIN s : s[i] = ResultMsg(c) /\ s[j] = ResultMsg(c) => i <= j
      <4>1. m + k <= m + k
        BY <1>1
      <4> QED
        BY <3>3, <4>1
    <3> QED
      BY <2>1, <3>2, <3>4 DEF Aligned
  <2> QED
    BY <2>2, <2>3
<1>7. Plain(q)
  BY DEF Order
<1> QED
  BY <1>2, <1>5, <1>6, <1>7 DEF Order

\* Every result these requests carry is new and there once, none is a step.
NewRequests(n, msgs, q) ==
    /\ Plain(n)
    /\ \A k \in DOMAIN n : \A x : n[k].msgs = <<x>> =>
          /\ x.k # "step"
          /\ \A c \in Nat : x = ResultMsg(c) =>
                ~In(msgs, x) /\ ~Held(q, x) /\ \A l \in DOMAIN n : n[l].msgs = <<x>> => l = k

(* Requests join the queue, before what is in the channel.                  *)
LEMMA OrderJoins ==
    ASSUME inputs \in Inputs, NEW msgs \in Seq(Messages), NEW p \in Seq(Requests), NEW q \in Seq(Requests),
           Order(msgs, p \o q), NEW n \in Seq(Requests), NewRequests(n, msgs, p \o q)
    PROVE  /\ Order(msgs, (p \o n) \o q)
           /\ \A x : Held((p \o n) \o q, x) <=> Held(p \o q, x) \/ Held(n, x)
<1>1. PICK M \in Nat, N \in Nat, L \in Nat :
         /\ M = Len(p) /\ N = Len(n) /\ L = Len(q)
         /\ DOMAIN p = 1..M /\ DOMAIN n = 1..N /\ DOMAIN q = 1..L
  OBVIOUS
<1>2. PICK t \in Seq(Requests) : t = p \o q /\ DOMAIN t = 1..(M + L)
  <2>1. p \o q \in Seq(Requests) /\ Len(p \o q) = M + L
    BY <1>1
  <2>2. DOMAIN (p \o q) = 1..(M + L)
    BY <2>1
  <2> QED
    BY <2>1, <2>2
<1>3. PICK s \in Seq(Requests) : s = (p \o n) \o q /\ DOMAIN s = 1..(M + N + L)
  <2>1. p \o n \in Seq(Requests) /\ Len(p \o n) = M + N
    BY <1>1
  <2>2. (p \o n) \o q \in Seq(Requests) /\ Len((p \o n) \o q) = M + N + L
    BY <1>1, <2>1
  <2>3. DOMAIN ((p \o n) \o q) = 1..(M + N + L)
    BY <2>2
  <2> QED
    BY <2>2, <2>3
<1>4. /\ \A i \in 1..M : s[i] = p[i] /\ t[i] = p[i]
      /\ \A i \in 1..N : s[M + i] = n[i]
      /\ \A i \in 1..L : s[M + N + i] = q[i] /\ t[M + i] = q[i]
  <2>1. /\ \A i \in 1..M : t[i] = p[i] /\ (p \o n)[i] = p[i]
        /\ \A i \in 1..L : t[M + i] = q[i]
        /\ \A i \in 1..N : (p \o n)[M + i] = n[i]
        /\ p \o n \in Seq(Requests) /\ Len(p \o n) = M + N
    BY <1>1, <1>2, ConcatIs
  <2>2. /\ \A i \in 1..(M + N) : s[i] = (p \o n)[i]
        /\ \A i \in 1..L : s[(M + N) + i] = q[i]
    BY <1>1, <1>3, <2>1, ConcatIs
  <2>3. /\ \A i \in 1..M : i \in 1..(M + N)
        /\ \A i \in 1..N : M + i \in 1..(M + N)
        /\ \A i \in 1..L : (M + N) + i = M + N + i
    BY ONLY M \in Nat, N \in Nat, L \in Nat
  <2> QED
    BY <2>1, <2>2, <2>3
\* Where a place of the new queue was before.
<1> DEFINE was(i) == IF i <= M THEN i ELSE i - N
<1>5. \A i \in 1..(M + N + L) :
         \/ i - M \in 1..N /\ s[i] = n[i - M]
         \/ was(i) \in 1..(M + L) /\ s[i] = t[was(i)] /\ (i <= M \/ i > M + N)
  <2>1. ASSUME NEW i \in 1..(M + N + L)
        PROVE  \/ i - M \in 1..N /\ s[i] = n[i - M]
               \/ was(i) \in 1..(M + L) /\ s[i] = t[was(i)] /\ (i <= M \/ i > M + N)
    <3>1. CASE i <= M
      <4>1. i \in 1..M /\ i \in 1..(M + L) /\ was(i) = i
        BY <3>1
      <4> QED
        BY <1>4, <3>1, <4>1
    <3>2. CASE i > M /\ i <= M + N
      <4>1. i - M \in 1..N /\ M + (i - M) = i
        BY <3>2
      <4>2. s[M + (i - M)] = n[i - M]
        BY <1>4, <4>1
      <4> QED
        BY <4>1, <4>2
    <3>3. CASE i > M + N
      <4>1. i - M - N \in 1..L /\ M + N + (i - M - N) = i /\ M + (i - M - N) = i - N
            /\ i - N \in 1..(M + L) /\ ~(i <= M)
        BY <3>3
      <4>2. s[M + N + (i - M - N)] = q[i - M - N] /\ t[M + (i - M - N)] = q[i - M - N]
        BY <1>4, <4>1
      <4> QED
        BY <3>3, <4>1, <4>2
    <3> QED
      BY <3>1, <3>2, <3>3
  <2> QED
    BY <2>1
<1>6. \A i, j \in 1..(M + N + L) :
         (i <= M \/ i > M + N) /\ (j <= M \/ j > M + N) /\ was(i) <= was(j) => i <= j
  <2>1. \A i, j \in 1..(M + N + L) :
           (i <= M \/ i > M + N) /\ (j <= M \/ j > M + N)
             /\ (IF i <= M THEN i ELSE i - N) <= (IF j <= M THEN j ELSE j - N) => i <= j
    BY ONLY M \in Nat, N \in Nat, L \in Nat
  <2> QED
    BY <2>1
<1> HIDE DEF was
<1>7. \A x : Held(s, x) <=> Held(t, x) \/ Held(n, x)
  <2>1. p \o n \in Seq(Requests)
    OBVIOUS
  <2>2. \A x : /\ Held(s, x) <=> Held(p \o n, x) \/ Held(q, x)
               /\ Held(p \o n, x) <=> Held(p, x) \/ Held(n, x)
               /\ Held(t, x) <=> Held(p, x) \/ Held(q, x)
    BY <1>2, <1>3, <2>1, InBoth
  <2> QED
    BY <2>2
<1>8. ASSUME NEW x, NEW y, Aligned(msgs, t, x, y),
             \A k \in 1..N : n[k].msgs # <<x>> /\ n[k].msgs # <<y>>
      PROVE  Aligned(msgs, s, x, y)
  <2>1. ASSUME NEW i \in DOMAIN s, NEW j \in DOMAIN s, s[i].msgs = <<x>>, s[j].msgs = <<y>> PROVE i <= j
    <3>1. /\ was(i) \in 1..(M + L) /\ s[i] = t[was(i)] /\ (i <= M \/ i > M + N)
          /\ was(j) \in 1..(M + L) /\ s[j] = t[was(j)] /\ (j <= M \/ j > M + N)
      BY <1>3, <1>5, <1>8, <2>1
    <3>2. was(i) <= was(j)
      BY <1>2, <1>8, <2>1, <3>1 DEF Aligned
    <3> QED
      BY <1>3, <1>6, <3>1, <3>2
  <2>2. Held(s, x) => Held(t, x)
    BY <1>1, <1>7, <1>8 DEF Held
  <2> QED
    BY <1>8, <2>1, <2>2 DEF Aligned
<1>9. ASSUME NEW i \in DOMAIN inputs, NEW j \in DOMAIN inputs, SameMode(i, j)
      PROVE  Aligned(msgs, s, StepMsg(inputs[i]), StepMsg(inputs[j]))
  <2>1. Aligned(msgs, t, StepMsg(inputs[i]), StepMsg(inputs[j]))
    BY <1>2, <1>9 DEF Order
  <2>2. \A k \in 1..N : n[k].msgs # <<StepMsg(inputs[i])>> /\ n[k].msgs # <<StepMsg(inputs[j])>>
    <3>1. ASSUME NEW k \in 1..N, NEW a PROVE n[k].msgs # <<StepMsg(a)>>
      <4>1. StepMsg(a).k = "step"
        BY MsgKinds
      <4> QED
        BY <1>1, <4>1 DEF NewRequests
    <3> QED
      BY <3>1
  <2> QED
    BY <1>8, <2>1, <2>2
<1>10. ASSUME NEW c \in Nat PROVE Aligned(msgs, s, ResultMsg(c), ResultMsg(c))
  <2>1. Aligned(msgs, t, ResultMsg(c), ResultMsg(c))
    BY <1>2 DEF Order
  <2>2. CASE \A k \in 1..N : n[k].msgs # <<ResultMsg(c)>>
    BY <1>8, <2>1, <2>2
  <2>3. CASE \E k \in 1..N : n[k].msgs = <<ResultMsg(c)>>
    <3>1. PICK k \in 1..N : n[k].msgs = <<ResultMsg(c)>>
      BY <2>3
    <3>2. ~In(msgs, ResultMsg(c)) /\ ~Held(t, ResultMsg(c)) /\ \A l \in 1..N : n[l].msgs = <<ResultMsg(c)>> => l = k
      BY <1>1, <1>2, <3>1 DEF NewRequests
    <3>3. ASSUME NEW i \in DOMAIN s, s[i].msgs = <<ResultMsg(c)>> PROVE i = M + k
      <4>1. i \in Nat /\ i - M \in 1..N /\ s[i] = n[i - M]
        <5>1. i \in 1..(M + N + L) /\ ~(\E l \in 1..(M + L) : s[i] = t[l])
          BY <1>2, <1>3, <3>2, <3>3 DEF Held
        <5>2. i \in Nat
          BY <5>1
        <5> QED
          BY <1>5, <5>1, <5>2
      <4>2. i - M = k
        BY <3>2, <3>3, <4>1
      <4> QED
        BY <1>1, <3>1, <4>1, <4>2
    <3>4. \A i, j \in DOMAIN s : s[i].msgs = <<ResultMsg(c)>> /\ s[j].msgs = <<ResultMsg(c)>> => i <= j
      <4>1. M + k <= M + k
        BY <1>1
      <4> QED
        BY <3>3, <4>1
    <3> QED
      BY <2>1, <3>2, <3>4 DEF Aligned
  <2> QED
    BY <2>2, <2>3
<1>11. Plain(s)
  <2>1. Plain(t) /\ Plain(n)
    BY <1>2 DEF Order, NewRequests
  <2>2. \A i \in DOMAIN s : (\E j \in DOMAIN t : s[i] = t[j]) \/ (\E j \in DOMAIN n : s[i] = n[j])
    BY ZenonT(60), <1>1, <1>2, <1>3, <1>5
  <2> QED
    BY ZenonT(60), <2>1, <2>2 DEF Plain
<1> QED
  BY <1>2, <1>3, <1>7, <1>9, <1>10, <1>11 DEF Order

(* The bridge sends the request of an input that is nowhere yet.            *)
LEMMA OrderSends ==
    ASSUME inputs \in Inputs, NEW msgs \in Seq(Messages), NEW q \in Seq(Requests), Order(msgs, q),
           NEW v \in DOMAIN inputs,
           \A i \in DOMAIN inputs : i >= v => ~In(msgs, StepMsg(inputs[i])) /\ ~Held(q, StepMsg(inputs[i]))
    PROVE  /\ Append(q, StepRequest(inputs[v])) \in Seq(Requests)
           /\ Order(msgs, Append(q, StepRequest(inputs[v])))
           /\ \A x : Held(Append(q, StepRequest(inputs[v])), x) <=> Held(q, x) \/ x = StepMsg(inputs[v])
<1> DEFINE r == StepRequest(inputs[v])
<1>1. /\ inputs[v] \in STRING /\ DOMAIN inputs \in SUBSET Nat
      /\ \A i \in DOMAIN inputs : inputs[i] \in STRING
      /\ \A i, j \in DOMAIN inputs : inputs[i] = inputs[j] => i = j
  BY InputsAre
<1>2. r.msgs = <<StepMsg(inputs[v])>> /\ (r.mergeable <=> inputs[v] \in Steers)
  BY DEF StepRequest, Request
<1>3. r \in Requests
  <2>1. <<StepMsg(inputs[v])>> \in Seq(Messages)
    <3>1. StepMsg(inputs[v]) \in Messages
      BY <1>1, MsgKinds
    <3> QED
      BY <3>1, OneIn
  <2> QED
    BY <2>1 DEF StepRequest, Request, Requests, RequestKinds, Admissions
<1> HIDE DEF r
<1>4. PICK s \in Seq(Requests) : s = Append(q, r)
  <2>1. Append(q, r) \in Seq(Requests)
    BY <1>3
  <2> QED
    BY <2>1
<1>5. PICK n \in Nat : n = Len(q) /\ DOMAIN q = 1..n /\ DOMAIN s = 1..(n + 1)
  BY <1>3, <1>4
<1>6. s[n + 1] = r /\ \A i \in 1..n : i \in 1..(n + 1) /\ s[i] = q[i]
  BY <1>3, <1>4, <1>5
<1>7. n + 1 \in 1..(n + 1) /\ \A i \in 1..(n + 1) : i <= n + 1 /\ (i \in 1..n \/ i = n + 1)
  BY ONLY n \in Nat
<1>8. \A x : r.msgs = <<x>> <=> x = StepMsg(inputs[v])
  <2>1. \A x : <<StepMsg(inputs[v])>> = <<x>> <=> x = StepMsg(inputs[v])
    OBVIOUS
  <2> QED
    BY <1>2, <2>1
<1>9. \A x : Held(s, x) <=> Held(q, x) \/ x = StepMsg(inputs[v])
  BY <1>5, <1>6, <1>7, <1>8 DEF Held
<1>10. Plain(s)
  <2>1. Plain(q)
    BY DEF Order
  <2>2. /\ Len(r.msgs) <= 1 /\ \A x : r.msgs = <<x>> => x.k # "frame"
    <3>1. Len(<<StepMsg(inputs[v])>>) = 1 /\ 1 <= 1
      OBVIOUS
    <3> QED
      BY <1>2, <1>8, <3>1, MsgKinds
  <2>3. /\ \A t \in STRING : r.msgs = <<StepMsg(t)>> => (r.mergeable <=> t \in Steers)
        /\ \A c \in Nat : r.msgs = <<ResultMsg(c)>> => r.mergeable
    <3>1. \A t : r.msgs = <<StepMsg(t)>> => t = inputs[v]
      BY SMTT(40), <1>8, MsgKinds
    <3>2. \A c : r.msgs # <<ResultMsg(c)>>
      BY SMTT(40), <1>8, MsgKinds
    <3> QED
      BY <1>2, <3>1, <3>2
  <2> QED
    BY <1>5, <1>6, <1>7, <2>1, <2>2, <2>3 DEF Plain
<1>11. ASSUME NEW x, NEW y, Aligned(msgs, q, x, y), x = StepMsg(inputs[v]) => ~In(msgs, y) /\ ~Held(q, y)
       PROVE  Aligned(msgs, s, x, y)
  <2>1. ASSUME NEW i \in 1..(n + 1), NEW j \in 1..(n + 1), s[i].msgs = <<x>>, s[j].msgs = <<y>> PROVE i <= j
    <3>1. CASE j = n + 1
      BY <1>7, <3>1
    <3>2. CASE j \in 1..n /\ i \in 1..n
      BY <1>5, <1>6, <1>11, <2>1, <3>2 DEF Aligned
    <3>3. CASE j \in 1..n /\ i = n + 1
      BY <1>5, <1>6, <1>8, <1>11, <2>1, <3>3 DEF Held
    <3> QED
      BY <1>7, <3>1, <3>2, <3>3
  <2> QED
    BY <1>5, <1>9, <1>11, <2>1 DEF Aligned
<1>12. ASSUME NEW i \in DOMAIN inputs, NEW j \in DOMAIN inputs, SameMode(i, j)
       PROVE  Aligned(msgs, s, StepMsg(inputs[i]), StepMsg(inputs[j]))
  <2>1. Aligned(msgs, q, StepMsg(inputs[i]), StepMsg(inputs[j]))
    BY <1>12 DEF Order
  <2>2. StepMsg(inputs[i]) = StepMsg(inputs[v]) => i = v /\ j >= v
    BY <1>1, <1>12, MsgKinds DEF SameMode
  <2> QED
    BY <1>11, <2>1, <2>2
<1>13. ASSUME NEW c \in Nat PROVE Aligned(msgs, s, ResultMsg(c), ResultMsg(c))
  <2>1. Aligned(msgs, q, ResultMsg(c), ResultMsg(c)) /\ ResultMsg(c) # StepMsg(inputs[v])
    BY MsgKinds DEF Order
  <2> QED
    BY <1>11, <2>1
<1> QED
  BY <1>4, <1>9, <1>10, <1>12, <1>13 DEF Order, r

(* What a conversation asks for, when it goes on.                           *)
LEMMA AskedBoth ==
    ASSUME NEW s \in Seq(Messages), NEW t \in Seq(Messages), NEW c
    PROVE  Asked(s \o t, c) <=> Asked(s, c) \/ Asked(t, c)
<1>1. /\ DOMAIN s = 1..Len(s) /\ DOMAIN t = 1..Len(t)
      /\ \A i \in 1..Len(s) : i \in DOMAIN (s \o t) /\ (s \o t)[i] = s[i]
      /\ \A i \in 1..Len(t) : Len(s) + i \in DOMAIN (s \o t) /\ (s \o t)[Len(s) + i] = t[i]
      /\ \A i \in DOMAIN (s \o t) :
            i \in 1..Len(s) \/ (i - Len(s) \in 1..Len(t) /\ (s \o t)[i] = t[i - Len(s)])
  BY ConcatIs
<1>2. ASSUME Asked(s \o t, c) PROVE Asked(s, c) \/ Asked(t, c)
  BY <1>1, <1>2 DEF Asked
<1>3. ASSUME Asked(s, c) PROVE Asked(s \o t, c)
  BY <1>1, <1>3 DEF Asked
<1>4. ASSUME Asked(t, c) PROVE Asked(s \o t, c)
  BY <1>1, <1>4 DEF Asked
<1> QED
  BY <1>2, <1>3, <1>4

(* No frame waits in a queue.                                               *)
LEMMA AskedTaken ==
    ASSUME NEW msgs \in Seq(Messages), NEW q \in Seq(Requests), Plain(q),
           NEW P \in SUBSET (DOMAIN q), NEW d, Takes(d, q, P), NEW c
    PROVE  Asked(msgs \o d, c) <=> Asked(msgs, c)
<1>1. PICK at : Took(d, at, q, P)
  BY DEF Takes
<1>2. d \in Seq(Messages) /\ DOMAIN d = 1..Len(d)
  BY DEF Takes
<1>3. \A k \in DOMAIN d : d[k].k # "frame"
  <2>1. ASSUME NEW k \in DOMAIN d PROVE d[k].k # "frame"
    <3>1. at[k] \in DOMAIN q /\ q[at[k]].msgs = <<d[k]>>
      BY <1>1, <1>2 DEF Took
    <3> QED
      BY <3>1 DEF Plain
  <2> QED
    BY <2>1
<1>4. ~Asked(d, c)
  BY <1>3 DEF Asked
<1> QED
  BY <1>2, <1>4, AskedBoth

(* Draining a queue brings no frame.                                        *)
LEMMA AskedDrained ==
    ASSUME NEW msgs \in Seq(Messages), NEW q \in Seq(Requests), Plain(q), NEW c
    PROVE  Asked(msgs \o DrainMaterialized(q), c) <=> Asked(msgs, c)
<1>1. Takes(DrainMaterialized(q), q, DOMAIN q)
  BY DrainTakes DEF Plain
<1> QED
  BY <1>1, AskedTaken

-----------------------------------------------------------------------------
(* The calls that wait.                                                     *)

(* Some of the calls of a sequence.                                         *)
LEMMA KeptTasks ==
    ASSUME NEW s \in Seq(Tasks), Distinct(s), NEW P \in SUBSET (DOMAIN s)
    PROVE  /\ Kept(s, P) \in Seq(Tasks) /\ Distinct(Kept(s, P))
           /\ Ids(Kept(s, P)) = {s[i].id : i \in P}
<1>0. PICK r \in Seq(Tasks) : r = Kept(s, P) /\ \E at : Picked(r, at, s, P)
  BY KeptIs
<1>1. PICK at : r = Kept(s, P) /\ Picked(r, at, s, P)
  BY <1>0
<1>2. PICK n \in Nat : n = Len(r) /\ DOMAIN r = 1..n
  OBVIOUS
<1>3. /\ \A k \in 1..n : at[k] \in P /\ at[k] \in DOMAIN s /\ r[k] = s[at[k]]
      /\ \A k, l \in 1..n : k < l => at[k] < at[l]
      /\ \A i \in P : \E k \in 1..n : at[k] = i
  BY <1>1, <1>2 DEF Picked
<1>4. DOMAIN s \in SUBSET Nat
  OBVIOUS
<1>5. Distinct(r)
  <2>1. SUFFICES ASSUME NEW k \in 1..n, NEW l \in 1..n, r[k].id = r[l].id PROVE k = l
    BY <1>2 DEF Distinct
  <2>2. at[k] = at[l] /\ at[k] \in Nat
    <3>1. at[k] \in DOMAIN s /\ at[l] \in DOMAIN s /\ s[at[k]].id = s[at[l]].id
      BY <1>3, <2>1
    <3>2. at[k] = at[l]
      BY <3>1 DEF Distinct
    <3> QED
      BY <1>4, <3>1, <3>2
  <2>3. ~(k < l) /\ ~(l < k)
    BY <1>3, <2>2
  <2> QED
    BY <2>3
<1>6. Ids(r) = {s[i].id : i \in P}
  <2>1. ASSUME NEW x \in Ids(r) PROVE x \in {s[i].id : i \in P}
    <3>1. PICK k \in 1..n : x = r[k].id
      BY <1>2 DEF Ids
    <3>2. at[k] \in P /\ r[k] = s[at[k]]
      BY <1>3
    <3> QED
      BY <3>1, <3>2
  <2>2. ASSUME NEW i \in P PROVE s[i].id \in Ids(r)
    <3>1. PICK k \in 1..n : at[k] = i
      BY <1>3
    <3>2. r[k] = s[i] /\ k \in DOMAIN r
      BY <1>2, <1>3, <3>1
    <3> QED
      BY <3>2 DEF Ids
  <2> QED
    BY <2>1, <2>2 DEF Ids
<1> QED
  BY <1>1, <1>5, <1>6

(* A wave and what it leaves are the calls there were.                      *)
LEMMA WaveSplits ==
    ASSUME NEW s \in Seq(Tasks), Distinct(s)
    PROVE  /\ TakeReadyWave(s).ready \in Seq(Tasks) /\ TakeReadyWave(s).blocked \in Seq(Tasks)
           /\ Distinct(TakeReadyWave(s).ready) /\ Distinct(TakeReadyWave(s).blocked)
           /\ Ids(TakeReadyWave(s).ready) \cap Ids(TakeReadyWave(s).blocked) = {}
           /\ Ids(TakeReadyWave(s).ready) \cup Ids(TakeReadyWave(s).blocked) = Ids(s)
<1> DEFINE B == Blocked(s)
           A == DOMAIN s \ B
<1>1. TakeReadyWave(s).ready = Kept(s, A) /\ TakeReadyWave(s).blocked = Kept(s, B)
  BY DEF TakeReadyWave
<1>2. A \in SUBSET (DOMAIN s) /\ B \in SUBSET (DOMAIN s) /\ A \cup B = DOMAIN s /\ A \cap B = {}
  BY DEF Blocked
<1> HIDE DEF A, B
<1>3. /\ Kept(s, A) \in Seq(Tasks) /\ Distinct(Kept(s, A)) /\ Ids(Kept(s, A)) = {s[i].id : i \in A}
      /\ Kept(s, B) \in Seq(Tasks) /\ Distinct(Kept(s, B)) /\ Ids(Kept(s, B)) = {s[i].id : i \in B}
  BY <1>2, KeptTasks
<1>4. {s[i].id : i \in A} \cap {s[i].id : i \in B} = {}
  BY <1>2 DEF Distinct
<1>5. {s[i].id : i \in A} \cup {s[i].id : i \in B} = Ids(s)
  BY <1>2 DEF Ids
<1> QED
  BY <1>1, <1>3, <1>4, <1>5

\* The answers of these calls, one request each.
AnswersOf(tasks) == [i \in DOMAIN tasks |-> ToolResult(ResultMsg(tasks[i].id))]

(* They carry the results of the calls, and new ones if the calls wait.     *)
LEMMA AnswersAre ==
    ASSUME NEW tasks \in Seq(Tasks), Distinct(tasks)
    PROVE  /\ AnswersOf(tasks) \in Seq(Requests)
           /\ \A x : Held(AnswersOf(tasks), x) <=> \E c \in Ids(tasks) : x = ResultMsg(c)
           /\ \A msgs, q :
                 (\A c \in Ids(tasks) : ~In(msgs, ResultMsg(c)) /\ ~Held(q, ResultMsg(c)))
                    => NewRequests(AnswersOf(tasks), msgs, q)
<1>1. PICK n \in Nat : n = Len(tasks) /\ DOMAIN tasks = 1..n
  OBVIOUS
<1>2. \A i \in 1..n : tasks[i].id \in Nat
  <2>1. \A i \in 1..n : tasks[i] \in Tasks
    BY <1>1
  <2> QED
    BY <2>1 DEF Tasks
<1> DEFINE v == AnswersOf(tasks)
<1>3. \A i \in 1..n : v[i] \in Requests /\ v[i].msgs = <<ResultMsg(tasks[i].id)>> /\ v[i].mergeable = TRUE
  <2>1. \A i \in 1..n : v[i] = ToolResult(ResultMsg(tasks[i].id))
    BY <1>1 DEF AnswersOf
  <2>2. ASSUME NEW i \in 1..n
        PROVE  /\ ToolResult(ResultMsg(tasks[i].id)) \in Requests
               /\ ToolResult(ResultMsg(tasks[i].id)).msgs = <<ResultMsg(tasks[i].id)>>
               /\ ToolResult(ResultMsg(tasks[i].id)).mergeable = TRUE
    <3>1. ResultMsg(tasks[i].id) \in Messages
      BY <1>2, MsgKinds
    <3>2. <<ResultMsg(tasks[i].id)>> \in Seq(Messages)
      BY <3>1, OneIn
    <3> QED
      BY <3>2 DEF ToolResult, Request, Requests, RequestKinds, Admissions
  <2> QED
    BY <2>1, <2>2
<1>4. v \in Seq(Requests) /\ DOMAIN v = 1..n
  <2>1. v \in [1..n -> Requests]
    BY <1>1, <1>3 DEF AnswersOf
  <2> HIDE DEF v
  <2> DEFINE S == Requests
  <2>2. v \in [1..n -> S]
    BY <2>1
  <2> HIDE DEF S
  <2>3. v \in Seq(S) /\ DOMAIN v = 1..n
    BY <2>2
  <2> QED
    BY <2>3 DEF S
<1> HIDE DEF v
<1>5. \A x, c : <<ResultMsg(c)>> = <<x>> <=> x = ResultMsg(c)
  OBVIOUS
<1>6. \A x : Held(v, x) <=> \E c \in Ids(tasks) : x = ResultMsg(c)
  BY <1>1, <1>3, <1>4, <1>5 DEF Held, Ids
<1>7. Plain(v)
  <2>1. SUFFICES ASSUME NEW i \in 1..n
                 PROVE  /\ Len(v[i].msgs) <= 1
                        /\ \A x : v[i].msgs = <<x>> => x.k # "frame"
                        /\ \A s \in STRING : v[i].msgs # <<StepMsg(s)>>
                        /\ v[i].mergeable
    BY <1>4 DEF Plain
  <2>2. Len(<<ResultMsg(tasks[i].id)>>) = 1 /\ 1 <= 1
    OBVIOUS
  <2>3. \A x : v[i].msgs = <<x>> => x = ResultMsg(tasks[i].id)
    BY <1>3, <1>5
  <2> QED
    BY <1>3, <2>2, <2>3, MsgKinds
<1>8. ASSUME NEW msgs, NEW q,
             \A c \in Ids(tasks) : ~In(msgs, ResultMsg(c)) /\ ~Held(q, ResultMsg(c))
      PROVE  NewRequests(v, msgs, q)
  <2>1. SUFFICES ASSUME NEW k \in 1..n, NEW x, v[k].msgs = <<x>>
                 PROVE  /\ x.k # "step" /\ ~In(msgs, x) /\ ~Held(q, x)
                        /\ \A l \in 1..n : v[l].msgs = <<x>> => l = k
    BY <1>4, <1>7 DEF NewRequests
  <2>2. x = ResultMsg(tasks[k].id) /\ tasks[k].id \in Ids(tasks)
    BY <1>1, <1>3, <1>5, <2>1 DEF Ids
  <2>3. ASSUME NEW l \in 1..n, v[l].msgs = <<x>> PROVE l = k
    <3>1. ResultMsg(tasks[l].id) = ResultMsg(tasks[k].id)
      BY <1>3, <1>5, <2>2, <2>3
    <3>2. tasks[l].id = tasks[k].id
      BY <3>1, MsgKinds
    <3> QED
      BY <1>1, <3>2 DEF Distinct
  <2> QED
    BY <1>8, <2>2, <2>3, MsgKinds
<1> QED
  BY <1>4, <1>6, <1>8 DEF v

-----------------------------------------------------------------------------
(* What a wave comes to.                                                    *)

(* A set of numbers up to n that is not empty has a greatest element.       *)
LEMMA GreatestElement ==
    ASSUME NEW n \in Nat, NEW S \in SUBSET (1..n), S # {}
    PROVE  \E i \in S : \A j \in S : j <= i
<1> DEFINE U == {m \in Nat : \A j \in S : j <= m}
<1>1. n \in U
  OBVIOUS
<1>2. PICK m \in U : \A k \in U : m <= k
  <2>1. U \in SUBSET Nat /\ U # {}
    BY <1>1
  <2> HIDE DEF U
  <2> QED
    BY <2>1, LeastElement
<1>3. m \in Nat /\ \A j \in S : j <= m
  OBVIOUS
<1>4. m \in S
  <2>1. SUFFICES ASSUME m \notin S PROVE FALSE
    OBVIOUS
  <2>2. m > 0
    <3>1. PICK j \in S : TRUE
      OBVIOUS
    <3>2. j \in 1..n /\ j <= m
      BY <1>3, <3>1
    <3> QED
      BY <1>3, <3>2
  <2>3. \A j \in S : j <= m - 1
    BY <1>3, <2>1
  <2>4. m - 1 \in U
    BY <2>2, <2>3
  <2>5. m <= m - 1
    BY <1>2, <2>4
  <2> QED
    BY <1>3, <2>5
<1> QED
  BY <1>3, <1>4

(* A streak is a number; while no failure repeats too often it is a small   *)
(* one, at the end of the wave as it was after its last failure.            *)
LEMMA StreakIs ==
    ASSUME Typed, NEW outcomes \in [DOMAIN wave -> Results], NEW f \in Fingerprints,
           NEW n \in 0..Len(wave)
    PROVE  /\ Streak(outcomes, f, n) \in Nat
           /\ (/\ failures[f] < RepeatedFailures
               /\ \A i \in DOMAIN wave :
                     outcomes[i] = "failed" => Streak(outcomes, wave[i].fp, i) < RepeatedFailures)
              => Streak(outcomes, f, n) < RepeatedFailures
<1>1. /\ Len(wave) \in Nat /\ DOMAIN wave = 1..Len(wave) /\ n \in Nat
      /\ failures[f] \in Nat /\ RepeatedFailures \in Nat \ {0}
  BY BoundsAssumption DEF Typed
<1>2. \A i \in 1..n : i \in 1..Len(wave)
  BY <1>1
<1> DEFINE with(m, result) == {i \in 1..m : wave[i].fp = f /\ outcomes[i] = result}
           since(m) == {i \in with(m, "failed") : \A j \in with(m, "completed") : j < i}
<1>3. \A m : Streak(outcomes, f, m) = Cardinality(since(m)) + (IF with(m, "completed") = {} THEN failures[f] ELSE 0)
  BY DEF Streak
<1>4. ASSUME NEW m \in Nat PROVE Cardinality(since(m)) \in Nat
  <2>1. IsFiniteSet(1..m)
    BY FS_Interval
  <2>2. since(m) \in SUBSET (1..m)
    OBVIOUS
  <2> HIDE DEF since
  <2>3. IsFiniteSet(since(m))
    BY <2>1, <2>2, FS_Subset
  <2> QED
    BY <2>3, FS_CardinalityType
<1>5. Streak(outcomes, f, n) \in Nat
  <2>1. Streak(outcomes, f, n) = Cardinality(since(n)) + (IF with(n, "completed") = {} THEN failures[f] ELSE 0)
        /\ Cardinality(since(n)) \in Nat
    BY <1>1, <1>3, <1>4
  <2> HIDE DEF since, with
  <2> QED
    BY <1>1, <2>1
<1>6. ASSUME failures[f] < RepeatedFailures,
             \A i \in DOMAIN wave : outcomes[i] = "failed" => Streak(outcomes, wave[i].fp, i) < RepeatedFailures
      PROVE  Streak(outcomes, f, n) < RepeatedFailures
  <2>1. CASE since(n) = {}
    <3>1. Cardinality(since(n)) = 0
      BY <2>1, FS_EmptySet
    <3> QED
      BY <1>1, <1>3, <1>6, <3>1
  <2>2. CASE since(n) # {}
    <3>1. since(n) \in SUBSET (1..n)
      OBVIOUS
    <3>2. PICK i \in since(n) : \A j \in since(n) : j <= i
      <4> HIDE DEF since
      <4> QED
        BY <1>1, <2>2, <3>1, GreatestElement
    <3>3. i \in 1..n /\ i \in Nat /\ wave[i].fp = f /\ outcomes[i] = "failed" /\ i \in 1..Len(wave)
          /\ \A j \in 1..n : wave[j].fp = f /\ outcomes[j] = "completed" => j < i
      BY <1>2
    <3>4. \A j \in 1..n : j < i \/ j = i => j \in 1..i
      BY <3>3
    <3>5. \A j \in 1..i : j \in 1..n
      BY <3>3
    <3>6. with(i, "completed") = with(n, "completed")
      BY <3>3, <3>4, <3>5
    <3>7. since(i) = since(n)
      <4>1. ASSUME NEW j \in since(n) PROVE j \in since(i)
        <5>1. j \in 1..n /\ j <= i
          BY <3>2
        <5>2. j \in 1..i
          BY <3>3, <3>4, <5>1
        <5> QED
          BY <3>6, <4>1, <5>2
      <4>2. ASSUME NEW j \in since(i) PROVE j \in since(n)
        <5>1. j \in 1..n
          BY <3>5
        <5> QED
          BY <3>6, <4>2, <5>1
      <4> QED
        BY <4>1, <4>2
    <3>8. Streak(outcomes, f, n) = Streak(outcomes, f, i)
      BY <1>3, <3>6, <3>7
    <3> QED
      BY <1>1, <1>6, <3>3, <3>8
  <2> QED
    BY <2>1, <2>2
<1> QED
  BY <1>5, <1>6

(* What is answered, what is not, and how the run goes on.                  *)
LEMMA SettleIs ==
    ASSUME Typed, Distinct(wave), NEW outcomes \in [DOMAIN wave -> Results]
    PROVE  \E results \in Seq(Tasks) :
              /\ Distinct(results) /\ Ids(results) \subseteq Ids(wave)
              /\ Settle(outcomes).queue = queue \o AnswersOf(results)
              /\ Settle(outcomes).failures \in [Fingerprints -> Nat]
              /\ Settle(outcomes).paused = "no" => Ids(results) = Ids(wave)
              /\ Settle(outcomes).paused # "no" =>
                    /\ Settle(outcomes).paused \in {"awaiting_input", "awaiting_approval"}
                    /\ \E c \in Ids(wave) : c \notin Ids(results)
              /\ (~Settle(outcomes).repeated /\ \A f \in Fingerprints : failures[f] < RepeatedFailures)
                    => \A f \in Fingerprints : Settle(outcomes).failures[f] < RepeatedFailures
<1> DEFINE answered == {i \in DOMAIN wave : outcomes[i] \in {"completed", "failed"}}
           open     == DOMAIN wave \ answered
           results  == Kept(wave, answered)
           s        == Settle(outcomes)
<1>1. /\ wave \in Seq(Tasks) /\ DOMAIN wave = 1..Len(wave) /\ Len(wave) \in Nat
      /\ \A i \in DOMAIN wave : wave[i].fp \in Fingerprints
  <2>1. wave \in Seq(Tasks)
    BY DEF Typed
  <2>2. DOMAIN wave = 1..Len(wave) /\ Len(wave) \in Nat /\ \A i \in DOMAIN wave : wave[i] \in Tasks
    BY <2>1
  <2> QED
    BY <2>1, <2>2 DEF Tasks
<1>2. /\ s.queue = queue \o [k \in DOMAIN results |-> ToolResult(ResultMsg(results[k].id))]
      /\ s.failures = [f \in Fingerprints |-> Streak(outcomes, f, Len(wave))]
      /\ s.paused = IF open = {} THEN "no" ELSE outcomes[Min(open)]
      /\ s.repeated = (\E i \in DOMAIN wave : /\ outcomes[i] = "failed"
                                               /\ TooManyFailures(Streak(outcomes, wave[i].fp, i)))
  BY DEF Settle
<1>3. results \in Seq(Tasks) /\ Distinct(results) /\ Ids(results) = {wave[i].id : i \in answered}
  <2>1. answered \in SUBSET (DOMAIN wave)
    OBVIOUS
  <2> HIDE DEF answered
  <2> QED
    BY <1>1, <2>1, KeptTasks
<1> HIDE DEF results, s
<1>4. s.queue = queue \o AnswersOf(results) /\ Ids(results) \subseteq Ids(wave)
  BY <1>2, <1>3 DEF AnswersOf, Ids
<1>5. Len(wave) \in 0..Len(wave) /\ \A i \in DOMAIN wave : i \in 0..Len(wave)
  BY <1>1
<1>6. s.failures \in [Fingerprints -> Nat]
  BY <1>2, <1>5, StreakIs
<1>7. s.paused = "no" => Ids(results) = Ids(wave)
  <2>1. open # {} => outcomes[Min(open)] # "no"
    <3>1. SUFFICES ASSUME open # {} PROVE Min(open) \in DOMAIN wave
      BY DEF Results
    <3>2. open \in SUBSET Nat
      BY <1>1
    <3> HIDE DEF open
    <3>3. \E i \in open : \A j \in open : i <= j
      BY <3>1, <3>2, LeastElement
    <3>4. Min(open) \in open
      BY <3>3 DEF Min
    <3> QED
      BY <3>4 DEF open
  <2>2. s.paused = "no" => open = {}
    BY <1>2, <2>1
  <2>3. open = {} => answered = DOMAIN wave
    OBVIOUS
  <2> QED
    BY <1>3, <2>2, <2>3 DEF Ids
<1>8. ASSUME s.paused # "no"
      PROVE  /\ s.paused \in {"awaiting_input", "awaiting_approval"}
             /\ \E c \in Ids(wave) : c \notin Ids(results)
  <2>1. open # {} /\ open \in SUBSET Nat
    BY <1>1, <1>2, <1>8
  <2>2. PICK m \in open : m = Min(open)
    <3> HIDE DEF open
    <3>1. \E i \in open : \A j \in open : i <= j
      BY <2>1, LeastElement
    <3>2. Min(open) \in open
      BY <3>1 DEF Min
    <3> QED
      BY <3>2
  <2>3. outcomes[m] \in {"awaiting_input", "awaiting_approval"} /\ s.paused = outcomes[m]
    BY <1>2, <2>1, <2>2 DEF Results
  <2>4. wave[m].id \in Ids(wave) /\ wave[m].id \notin Ids(results)
    BY <1>3 DEF Ids, Distinct
  <2> QED
    BY <2>3, <2>4
<1>9. ASSUME ~s.repeated, \A f \in Fingerprints : failures[f] < RepeatedFailures
      PROVE  \A f \in Fingerprints : s.failures[f] < RepeatedFailures
  <2>1. \A i \in DOMAIN wave : outcomes[i] = "failed" => ~TooManyFailures(Streak(outcomes, wave[i].fp, i))
    BY <1>2, <1>9
  <2>2. ASSUME NEW i \in DOMAIN wave, outcomes[i] = "failed"
        PROVE  Streak(outcomes, wave[i].fp, i) < RepeatedFailures
    <3>1. Streak(outcomes, wave[i].fp, i) \in Nat
      BY <1>1, <1>5, StreakIs
    <3>2. ~(Streak(outcomes, wave[i].fp, i) >= RepeatedFailures) /\ RepeatedFailures \in Nat
      BY <2>1, <2>2, BoundsAssumption DEF TooManyFailures
    <3> QED
      BY <3>1, <3>2
  <2>3. ASSUME NEW f \in Fingerprints PROVE Streak(outcomes, f, Len(wave)) < RepeatedFailures
    BY <1>5, <1>9, <2>2, StreakIs
  <2> QED
    BY <1>2, <2>3
<1> QED
  BY <1>3, <1>4, <1>6, <1>7, <1>8, <1>9 DEF s

-----------------------------------------------------------------------------
(* Where the invariant is kept.                                             *)

(* All of the channel is for the active turn.                               *)
LEMMA FlowIs ==
    ASSUME Typed, BridgeOK
    PROVE  /\ Flow \in Seq(Requests) /\ Gathered = Flow
           /\ chan # <<>> => Admissible(<<Head(chan)>>) = <<Head(chan)>>
           /\ \A x : Held(Flow, x) <=> Held(queue, x) \/ Held(chan, x)
           /\ \A c : ~Held(chan, ResultMsg(c))
<1>1. queue \in Seq(Requests) /\ chan \in Seq(Requests)
  BY DEF Typed
<1>2. \A n \in DOMAIN chan : \E s : chan[n] = StepRequest(s)
  BY DEF BridgeOK
<1>3. \A s : Target(StepRequest(s).admission, TRUE) = "active_turn"
  BY DEF Target, StepRequest, Request
<1>4. \A n \in DOMAIN chan : Target(chan[n].admission, TRUE) = "active_turn"
  BY <1>2, <1>3
<1>5. Admissible(chan) = chan
  <2>1. {i \in DOMAIN chan : Target(chan[i].admission, TRUE) = "active_turn"} = DOMAIN chan
    BY <1>4
  <2> QED
    BY <1>1, <2>1, KeptAll DEF Admissible
<1>6. ASSUME chan # <<>> PROVE Admissible(<<Head(chan)>>) = <<Head(chan)>>
  <2>1. 1 \in DOMAIN chan /\ Head(chan) = chan[1] /\ Head(chan) \in Requests
    BY <1>1, <1>6
  <2>2. PICK q \in Seq(Requests) : q = <<Head(chan)>> /\ DOMAIN q = 1..1 /\ q[1] = Head(chan)
    <3>1. <<Head(chan)>> \in Seq(Requests)
      BY <2>1, OneIn
    <3>2. DOMAIN <<Head(chan)>> = 1..1 /\ <<Head(chan)>>[1] = Head(chan)
      OBVIOUS
    <3> QED
      BY <3>1, <3>2
  <2>3. \A i \in 1..1 : i = 1
    OBVIOUS
  <2>4. {i \in DOMAIN q : Target(q[i].admission, TRUE) = "active_turn"} = DOMAIN q
    BY <1>4, <2>1, <2>2, <2>3
  <2>5. Admissible(q) = q
    BY <2>4, KeptAll DEF Admissible
  <2> QED
    BY <2>2, <2>5
<1>7. \A x : Held(Flow, x) <=> Held(queue, x) \/ Held(chan, x)
  BY <1>1, InBoth DEF Flow
<1>8. ASSUME NEW c PROVE ~Held(chan, ResultMsg(c))
  <2>1. SUFFICES ASSUME NEW n \in DOMAIN chan, chan[n].msgs = <<ResultMsg(c)>> PROVE FALSE
    BY DEF Held
  <2>2. PICK s : chan[n] = StepRequest(s)
    BY <1>2
  <2>3. chan[n].msgs = <<StepMsg(s)>>
    BY <2>2 DEF StepRequest, Request
  <2>4. ResultMsg(c) = StepMsg(s)
    BY <2>1, <2>3
  <2> QED
    BY <2>4, MsgKinds
<1> QED
  BY <1>1, <1>5, <1>6, <1>7, <1>8 DEF Flow, Gathered

\* What a step between two model calls leaves as it is.
KeepsTools == UNCHANGED <<proposed, schedule, wave, failures, outcome, status, toolCalls,
                          bridge, next, consumed, inputs>>

(* A step that loses nothing between two calls of the model.                *)
LEMMA Quiet ==
    ASSUME Typed, Running, pc \in {"loop", "start", "stream", "closing"},
           pc' \in {"loop", "start", "stream", "closing"}, KeepsTools, Len(chan') <= Len(chan),
           Len(chan) \in Nat, Len(chan') \in Nat,
           \A n \in DOMAIN chan' : \E m \in DOMAIN chan : chan'[n] = chan[m],
           Order(messages', Flow'), \A c : Asked(messages', c) <=> Asked(messages, c),
           \A s : Known(StepMsg(s))' <=> Known(StepMsg(s)),
           \A c : Known(ResultMsg(c))' <=> Known(ResultMsg(c)),
           pc' = "loop" => queue' # <<>>,
           pc' # "loop" => \A c \in Nat : ~Held(Flow', ResultMsg(c)),
           pc' # "stream" => reply' = EmptyReply,
           pc' = "stream" => \A i \in DOMAIN reply'.calls : reply'.calls[i].id = proposed + i
    PROVE  Running'
<1>1. ControlOK'
  BY DEF Running, ControlOK, KeepsTools
<1>2. Order(messages, Flow)'
  BY DEF KeepsTools, Order, SameMode
<1>3. BridgeOK'
  <2>1. \A n \in DOMAIN chan' : \E i \in DOMAIN inputs : i < next /\ chan'[n] = StepRequest(inputs[i])
    BY DEF Running, BridgeOK
  <2>2. bridge # "idle" => next <= Len(inputs) /\ Len(chan') < Capacity
    <3>1. bridge # "idle" => next <= Len(inputs) /\ Len(chan) < Capacity
      BY DEF Running, BridgeOK
    <3>2. Capacity \in Nat
      BY BoundsAssumption
    <3> QED
      BY <3>1, <3>2
  <2>3. \A i \in DOMAIN inputs : i >= next => ~Known(StepMsg(inputs[i]))'
    BY DEF Running, BridgeOK, KeepsTools
  <2> QED
    BY <2>1, <2>2, <2>3 DEF BridgeOK, KeepsTools
<1>4. ConsumedOK'
  BY DEF Running, ConsumedOK, KeepsTools
<1>5. FramesOK'
  BY DEF Running, FramesOK, KeepsTools
<1>6. WaitingOK'
  <2>1. schedule = <<>> /\ wave = <<>>
    BY DEF Running, WaitingOK
  <2>2. EmptyReply.calls = <<>> /\ EmptyReply.text = "none"
    BY DEF EmptyReply
  <2> QED
    BY <2>1, <2>2 DEF Running, WaitingOK, KeepsTools
<1>7. ResultsOK'
  <2>1. \A c : ~Waits(c) /\ ~Waits(c)'
    BY <1>6 DEF Running, WaitingOK, Waits, Ids
  <2> QED
    BY <2>1 DEF Running, ResultsOK, KeepsTools
<1> QED
  BY <1>1, <1>2, <1>3, <1>4, <1>5, <1>6, <1>7 DEF Running

(* The first state.                                                         *)
LEMMA InitOK ==
    ASSUME Init
    PROVE  Inv
<1>1. /\ inputs \in Inputs /\ inputs \in Seq(STRING) /\ Len(inputs) \in Nat /\ DOMAIN inputs = 1..Len(inputs)
      /\ {MaxModelCalls, MaxToolCalls, MaxRetries, MaxProviderRetries} \subseteq Nat
      /\ {RepeatedFailures, MaxCallsPerFrame, Capacity} \subseteq Nat \ {0}
  BY InputsAre, BoundsAssumption DEF Init
<1> DEFINE r == Request("user_input", <<UserMsg>>, "new_turn", FALSE, TRUE)
<1>2. UserMsg \in Messages /\ UserMsg.k = "user"
  <2>1. <<>> \in Seq(STRING)
    OBVIOUS
  <2> QED
    BY <2>1 DEF UserMsg, Msg, Messages, MsgSorts
<1>3. r \in Requests /\ r.msgs = <<UserMsg>>
  <2>1. <<UserMsg>> \in Seq(Messages)
    BY <1>2, OneIn
  <2> QED
    BY <2>1 DEF Request, Requests, RequestKinds, Admissions
<1> HIDE DEF r
<1>4. queue = <<r>> /\ queue \in Seq(Requests) /\ Len(queue) = 1 /\ DOMAIN queue = 1..1 /\ queue[1] = r /\ queue # <<>>
  <2>1. queue = <<r>>
    BY DEF Init, r
  <2>2. <<r>> \in Seq(Requests)
    BY <1>3, OneIn
  <2> QED
    BY <2>1, <2>2
<1>5. chan = <<>> /\ messages = <<>> /\ schedule = <<>> /\ wave = <<>> /\ Flow = queue /\ reply = EmptyReply
  BY <1>4 DEF Init, Flow
<1>6. Typed
  <2>1. TypeOK
    <3>1. start \in [attempt : 0..MaxProviderRetries, compacted : BOOLEAN, media : BOOLEAN]
      <4>1. 0 \in 0..MaxProviderRetries
        BY <1>1
      <4>2. PICK m \in BOOLEAN : start = [attempt |-> 0, compacted |-> FALSE, media |-> m]
        BY DEF Init, FreshStart
      <4> QED
        BY <4>1, <4>2
    <3>2. retries \in [{"empty", "incomplete", "stream"} -> 0..MaxRetries]
      <4>1. 0 \in 0..MaxRetries
        BY <1>1
      <4>2. [empty |-> 0, incomplete |-> 0, stream |-> 0] \in [{"empty", "incomplete", "stream"} -> 0..MaxRetries]
        BY <4>1
      <4> QED
        BY <4>2 DEF Init
    <3>3. 0 \in 0..MaxModelCalls /\ 0 \in 0..(MaxToolCalls + 1) /\ 1 \in 1..(Len(inputs) + 1)
          /\ Len(<<>>) = 0 /\ 0 <= Capacity
      BY <1>1
    <3> QED
      BY <1>5, <3>1, <3>2, <3>3 DEF Init, TypeOK, EmptyReply
  <2>2. <<>> \in Seq(Messages) /\ <<>> \in Seq(Requests) /\ <<>> \in Seq(Tasks) /\ <<>> \in Seq(Proposals)
    OBVIOUS
  <2>3. reply \in [text : {"none", "blank", "full"}, calls : Seq(Proposals)]
    BY <1>5, <2>2 DEF EmptyReply
  <2>4. failures \in [Fingerprints -> Nat] /\ proposed \in Nat /\ consumed \subseteq STRING
        /\ cancelled \in BOOLEAN /\ closed \in BOOLEAN /\ reminded \in BOOLEAN
    BY DEF Init
  <2> QED
    BY <1>1, <1>4, <1>5, <2>1, <2>2, <2>3, <2>4 DEF Typed
<1>7. \A x : <<UserMsg>> = <<x>> <=> x = UserMsg
  OBVIOUS
<1>8. /\ \A s : UserMsg # StepMsg(s)
      /\ \A c : UserMsg # ResultMsg(c)
      /\ \A x : Held(Flow, x) => x = UserMsg
      /\ \A x : ~In(messages, x)
      /\ \A s : ~Known(StepMsg(s))
      /\ \A c : ~Known(ResultMsg(c))
  <2>1. /\ \A s : UserMsg # StepMsg(s)
        /\ \A c : UserMsg # ResultMsg(c)
    BY <1>2, MsgKinds
  <2>2. \A x : Held(Flow, x) => x = UserMsg
    BY <1>3, <1>4, <1>5, <1>7 DEF Held
  <2>3. \A x : ~In(messages, x)
    BY <1>5 DEF In
  <2> QED
    BY <2>1, <2>2, <2>3 DEF Known
<1>9. Order(messages, Flow)
  <2>1. Plain(Flow)
    <3>1. \A n \in 1..1 : queue[n] = r
      BY <1>4
    <3>2. Len(<<UserMsg>>) = 1 /\ 1 <= 1
      OBVIOUS
    <3>3. /\ Len(r.msgs) <= 1
          /\ \A x : r.msgs = <<x>> => x = UserMsg
      BY <1>3, <1>7, <3>2
    <3>4. /\ \A x : r.msgs = <<x>> => x.k # "frame"
          /\ \A s : r.msgs # <<StepMsg(s)>>
          /\ \A c : r.msgs # <<ResultMsg(c)>>
      BY <1>2, <1>8, <3>3
    <3> QED
      BY <1>4, <1>5, <3>1, <3>3, <3>4 DEF Plain
  <2>2. \A s, t : Aligned(messages, Flow, StepMsg(s), StepMsg(t))
    BY <1>5, <1>8 DEF Aligned, Held
  <2>3. \A c : Aligned(messages, Flow, ResultMsg(c), ResultMsg(c))
    BY <1>5, <1>8 DEF Aligned, Held
  <2> QED
    BY <2>1, <2>2, <2>3 DEF Order
<1>10. ControlOK
  BY <1>1, <1>4 DEF ControlOK, Init
<1>11. BridgeOK
  BY <1>5, <1>8 DEF BridgeOK, Init
<1>12. ConsumedOK
  BY DEF ConsumedOK, Init
<1>13. FramesOK
  <2>1. \A c : c \notin 1..0
    OBVIOUS
  <2> QED
    BY <1>5, <2>1 DEF FramesOK, Asked, Init
<1>14. WaitingOK
  BY <1>5 DEF WaitingOK, Distinct, Ids, Init, EmptyReply
<1>15. ResultsOK
  <2>1. \A c : ~Waits(c) /\ c \notin 1..0
    BY <1>5 DEF Waits, Ids, Init
  <2> QED
    BY <1>8, <2>1 DEF ResultsOK, Init
<1> QED
  BY <1>6, <1>9, <1>10, <1>11, <1>12, <1>13, <1>14, <1>15 DEF Inv, Running, Init

(* What Running looks at is as it was.                                      *)
LEMMA Same ==
    ASSUME Typed, Running,
           UNCHANGED <<pc, outcome, toolCalls, status, queue, messages, chan, bridge, next, consumed,
                       proposed, schedule, wave, reply, failures, inputs>>
    PROVE  Running'
<1>1. ControlOK' /\ Order(messages, Flow)'
  BY DEF Running, ControlOK, Flow, Order, SameMode
<1>2. \A x : Known(x)' <=> Known(x)
  BY DEF Known, Flow
<1>3. BridgeOK' /\ ConsumedOK' /\ FramesOK'
  BY <1>2 DEF Running, BridgeOK, ConsumedOK, FramesOK
<1>4. WaitingOK'
  BY DEF Running, WaitingOK
<1>5. \A c : Waits(c)' <=> Waits(c)
  BY DEF Waits
<1>6. ResultsOK'
  BY <1>2, <1>5 DEF Running, ResultsOK, Flow
<1> QED
  BY <1>1, <1>3, <1>4, <1>6 DEF Running

(* Bounds in a usable form.                                                 *)
LEMMA Bounds ==
    ASSUME Typed
    PROVE  /\ {MaxModelCalls, MaxToolCalls, MaxRetries, MaxProviderRetries} \subseteq Nat
           /\ {RepeatedFailures, MaxCallsPerFrame, Capacity} \subseteq Nat \ {0}
           /\ modelCalls \in 0..MaxModelCalls /\ toolCalls \in 0..(MaxToolCalls + 1)
           /\ modelCalls \in Nat /\ toolCalls \in Nat
           /\ start.attempt \in Nat /\ start.attempt <= MaxProviderRetries
           /\ Len(inputs) \in Nat /\ next \in Nat /\ Len(chan) \in Nat /\ Len(chan) <= Capacity
<1>1. inputs \in Seq(STRING)
  BY InputsAre DEF Typed
<1>2. /\ modelCalls \in 0..MaxModelCalls /\ toolCalls \in 0..(MaxToolCalls + 1)
      /\ start.attempt \in 0..MaxProviderRetries
      /\ Len(chan) <= Capacity /\ next \in 1..(Len(inputs) + 1)
  BY DEF Typed, TypeOK
<1>3. Len(inputs) \in Nat /\ Len(chan) \in Nat
  BY <1>1 DEF Typed
<1>4. /\ {MaxModelCalls, MaxToolCalls, MaxRetries, MaxProviderRetries} \subseteq Nat
      /\ {RepeatedFailures, MaxCallsPerFrame, Capacity} \subseteq Nat \ {0}
  BY BoundsAssumption
<1>5. MaxModelCalls \in Nat /\ MaxToolCalls \in Nat /\ MaxProviderRetries \in Nat
  BY <1>4
<1>6. modelCalls \in Nat /\ toolCalls \in Nat /\ next \in Nat
      /\ start.attempt \in Nat /\ start.attempt <= MaxProviderRetries
  BY <1>2, <1>3, <1>5
<1> QED
  BY <1>2, <1>3, <1>4, <1>6

(* The user cancels the run.                                                *)
LEMMA CancelOK ==
    ASSUME Typed, Running, Cancel, UNCHANGED inputs
    PROVE  Inv'
<1>1. Typed'
  BY SMTT(40) DEF Typed, TypeOK, Cancel, machine, tools, ingress
<1>2. Running'
  BY Same DEF Cancel, machine, tools, ingress
<1> QED
  BY <1>1, <1>2 DEF Inv, Cancel

(* The provider is called.                                                  *)
LEMMA StartQuiet ==
    ASSUME Typed, Running, pc = "start", pc' \in {"start", "stream"},
           UNCHANGED <<outcome, machine, queue, messages, reply, inputs>>, StartFrame,
           start' \in [attempt : 0..MaxProviderRetries, compacted : BOOLEAN, media : BOOLEAN]
    PROVE  Inv'
<1>1. Typed'
  BY SMTT(40) DEF Typed, TypeOK, StartFrame, machine, tools, ingress
<1>2. reply = EmptyReply
  <2>1. reply.calls = <<>> /\ reply.text = "none" /\ reply = [text |-> reply.text, calls |-> reply.calls]
    BY DEF Running, WaitingOK, Typed
  <2> QED
    BY <2>1 DEF EmptyReply
<1>3. \A x : Known(x)' <=> Known(x)
  BY DEF Known, Flow, StartFrame, ingress
<1>4. KeepsTools /\ Flow' = Flow /\ messages' = messages /\ chan' = chan /\ reply' = reply /\ queue' = queue
  BY DEF KeepsTools, StartFrame, machine, tools, ingress, Flow
<1>5. Order(messages', Flow') /\ \A c \in Nat : ~Held(Flow', ResultMsg(c))
  BY <1>4 DEF Running, ResultsOK
<1>6. Len(chan) \in Nat /\ Len(chan) <= Len(chan)
  BY Bounds
<1>7. \A i \in DOMAIN EmptyReply.calls : FALSE
  BY DEF EmptyReply
<1>8. Running'
  BY <1>2, <1>3, <1>4, <1>5, <1>6, <1>7, Quiet
<1> QED
  BY <1>1, <1>8 DEF Inv

(* The provider answers, or the request is sent again.                      *)
LEMMA ProviderOK ==
    ASSUME Typed, Running, UNCHANGED inputs,
           ProviderStream \/ ProviderRejectsMedia \/ ProviderOverflow \/ ProviderRetry
    PROVE  Inv'
<1> DEFINE S == [attempt : 0..MaxProviderRetries, compacted : BOOLEAN, media : BOOLEAN]
<1>1. start \in S /\ MaxProviderRetries \in Nat
  BY Bounds DEF Typed, TypeOK
<1>2. CASE ProviderStream
  <2>1. start' \in S
    <3>1. 0 \in 0..MaxProviderRetries
      BY <1>1
    <3> QED
      BY <1>1, <1>2, <3>1 DEF ProviderStream, FreshStart
  <2> QED
    BY <1>2, <2>1, StartQuiet DEF ProviderStream
<1>3. CASE ProviderRejectsMedia
  BY <1>1, <1>3, StartQuiet DEF ProviderRejectsMedia
<1>4. CASE ProviderOverflow
  BY <1>1, <1>4, StartQuiet DEF ProviderOverflow
<1>5. CASE ProviderRetry
  <2>1. start.attempt + 1 \in 0..MaxProviderRetries
    BY SMTT(40), <1>1, <1>5, Bounds DEF ProviderRetry
  <2>2. start' \in S
    BY <1>1, <1>5, <2>1 DEF ProviderRetry
  <2> QED
    BY <1>5, <2>2, StartQuiet DEF ProviderRetry
<1> QED
  BY <1>2, <1>3, <1>4, <1>5

(* A message that is neither a step nor a result is said, or none.          *)
LEMMA OneSaid ==
    ASSUME inputs \in Inputs, NEW msgs \in Seq(Messages), NEW q \in Seq(Requests), Order(msgs, q),
           NEW m \in Messages, m.k \notin {"step", "result"}
    PROVE  /\ Append(msgs, m) \in Seq(Messages) /\ Append(msgs, m) = msgs \o <<m>>
           /\ Order(Append(msgs, m), q)
           /\ \A s : In(Append(msgs, m), StepMsg(s)) <=> In(msgs, StepMsg(s))
           /\ \A c : In(Append(msgs, m), ResultMsg(c)) <=> In(msgs, ResultMsg(c))
           /\ \A c : Asked(Append(msgs, m), c) <=> Asked(msgs, c) \/ (m.k = "frame" /\ c \in m.calls)
<1>1. Append(msgs, m) = msgs \o <<m>>
  OBVIOUS
<1>2. PICK e \in Seq(Messages) : e = <<m>> /\ DOMAIN e = 1..1 /\ e[1] = m
  BY OneIn
<1>3. \A i \in 1..1 : i = 1
  OBVIOUS
<1>4. NewResults(e, msgs, q)
  BY <1>2, <1>3, MsgKinds DEF NewResults
<1>5. Order(msgs \o e, q)
  BY <1>4, OrderSays
<1>6. \A x : In(e, x) <=> x = m
  <2>1. 1 \in 1..1
    OBVIOUS
  <2> QED
    BY <1>2, <1>3, <2>1 DEF In
<1>7. \A x : In(msgs \o e, x) <=> In(msgs, x) \/ x = m
  BY <1>6, InBoth
<1>8. /\ \A s : StepMsg(s) # m /\ \A c : ResultMsg(c) # m
  BY MsgKinds
<1>9. \A c : Asked(msgs \o e, c) <=> Asked(msgs, c) \/ (m.k = "frame" /\ c \in m.calls)
  <2>1. 1 \in 1..1
    OBVIOUS
  <2>2. \A c : Asked(e, c) <=> m.k = "frame" /\ c \in m.calls
    BY <1>2, <1>3, <2>1 DEF Asked
  <2> QED
    BY <2>2, AskedBoth
<1>10. msgs \o e \in Seq(Messages)
  OBVIOUS
<1> QED
  BY <1>1, <1>2, <1>5, <1>7, <1>8, <1>9, <1>10

(* The messages the runner says itself.                                     *)
LEMMA OwnMsgs ==
    /\ TextMsg \in Messages /\ TextMsg.k = "assistant"
    /\ NudgeMsg \in Messages /\ NudgeMsg.k = "nudge"
    /\ ReminderMsg \in Messages /\ ReminderMsg.k = "reminder"
    /\ \A cs \in SUBSET Nat :
          FrameMsg(cs) \in Messages /\ FrameMsg(cs).k = "frame" /\ FrameMsg(cs).calls = cs
<1>1. <<>> \in Seq(STRING)
  OBVIOUS
<1>2. TextMsg \in Messages /\ TextMsg.k = "assistant"
  BY <1>1 DEF TextMsg, Msg, Messages, MsgSorts
<1>3. NudgeMsg \in Messages /\ NudgeMsg.k = "nudge"
  BY <1>1 DEF NudgeMsg, Msg, Messages, MsgSorts
<1>4. ReminderMsg \in Messages /\ ReminderMsg.k = "reminder"
  BY <1>1 DEF ReminderMsg, Msg, Messages, MsgSorts
<1>5. ASSUME NEW cs \in SUBSET Nat
      PROVE  FrameMsg(cs) \in Messages /\ FrameMsg(cs).k = "frame" /\ FrameMsg(cs).calls = cs
  BY <1>1 DEF FrameMsg, Msg, Messages, MsgSorts
<1> QED
  BY <1>2, <1>3, <1>4, <1>5

(* The text so far is kept, if there is any.                                *)
LEMMA TextKept ==
    ASSUME Typed, Running
    PROVE  /\ WithPartialText(messages) \in Seq(Messages) /\ Order(WithPartialText(messages), Flow)
           /\ \A s : In(WithPartialText(messages), StepMsg(s)) <=> In(messages, StepMsg(s))
           /\ \A c : In(WithPartialText(messages), ResultMsg(c)) <=> In(messages, ResultMsg(c))
           /\ \A c : Asked(WithPartialText(messages), c) <=> Asked(messages, c)
<1>1. messages \in Seq(Messages) /\ Flow \in Seq(Requests) /\ Order(messages, Flow) /\ inputs \in Inputs
  BY FlowIs DEF Typed, Running
<1>2. TextMsg \in Messages /\ TextMsg.k \notin {"step", "result"} /\ TextMsg.k # "frame"
  BY OwnMsgs
<1> DEFINE ext == Append(messages, TextMsg)
<1>3. /\ ext \in Seq(Messages) /\ Order(ext, Flow)
      /\ \A s : In(ext, StepMsg(s)) <=> In(messages, StepMsg(s))
      /\ \A c : In(ext, ResultMsg(c)) <=> In(messages, ResultMsg(c))
      /\ \A c : Asked(ext, c) <=> Asked(messages, c)
  BY <1>1, <1>2, OneSaid
<1> HIDE DEF ext
<1>4. WithPartialText(messages) = messages \/ WithPartialText(messages) = ext
  BY DEF WithPartialText, ext
<1> QED
  BY <1>1, <1>3, <1>4

(* The stream goes on.                                                      *)
LEMMA StreamEventOK ==
    ASSUME Typed, Running, UNCHANGED inputs, pc = "stream", UNCHANGED <<pc, outcome, machine, queue, messages, ingress>>,
           StreamFrame, reply' \in [text : {"none", "blank", "full"}, calls : Seq(Proposals)],
           \A i \in DOMAIN reply'.calls : reply'.calls[i].id = proposed + i
    PROVE  Inv'
<1>1. Typed'
  BY SMTT(40) DEF Typed, TypeOK, StreamFrame, machine, tools, ingress
<1>2. \A x : Known(x)' <=> Known(x)
  BY DEF Known, Flow, ingress
<1>3. /\ KeepsTools /\ Flow' = Flow /\ messages' = messages /\ chan' = chan /\ queue' = queue /\ pc' = "stream"
  BY DEF KeepsTools, StreamFrame, machine, tools, ingress, Flow
<1>4. Order(messages', Flow') /\ \A c \in Nat : ~Held(Flow', ResultMsg(c))
  BY <1>3 DEF Running, ResultsOK
<1>5. Len(chan) \in Nat /\ Len(chan) <= Len(chan)
  BY Bounds
<1>6. Running'
  BY <1>2, <1>3, <1>4, <1>5, Quiet
<1> QED
  BY <1>1, <1>3, <1>6 DEF Inv

(* A text delta.                                                            *)
LEMMA StreamTextOK ==
    ASSUME Typed, Running, UNCHANGED inputs, NEW t \in {"blank", "full"}, StreamText(t)
    PROVE  Inv'
<1>1. reply' \in [text : {"none", "blank", "full"}, calls : Seq(Proposals)] /\ reply'.calls = reply.calls
  BY DEF StreamText, Typed
<1>2. \A i \in DOMAIN reply'.calls : reply'.calls[i].id = proposed + i
  BY <1>1 DEF StreamText, Running, WaitingOK
<1> QED
  BY <1>1, <1>2, StreamEventOK DEF StreamText

(* The deltas of a tool call.                                               *)
LEMMA StreamCallOK ==
    ASSUME Typed, Running, UNCHANGED inputs, NEW f \in Fingerprints, NEW m \in BOOLEAN, StreamCall(f, m)
    PROVE  Inv'
<1>1. PICK p \in Seq(Proposals) : p = reply.calls
  BY DEF Typed
<1>2. PICK n \in Nat : n = Len(p) /\ DOMAIN p = 1..n
  OBVIOUS
<1> DEFINE e == [id |-> proposed + n + 1, fp |-> f, malformed |-> m]
<1>3. proposed \in Nat /\ e \in Proposals /\ e.id = proposed + (n + 1)
  <2>1. proposed \in Nat /\ proposed + n + 1 \in Nat /\ proposed + n + 1 = proposed + (n + 1)
    BY DEF Typed
  <2> QED
    BY <2>1 DEF Proposals
<1>4. reply' = [reply EXCEPT !.calls = Append(p, e)]
  BY <1>1, <1>2 DEF StreamCall
<1> HIDE DEF e
<1>5. PICK r \in Seq(Proposals) : r = Append(p, e) /\ DOMAIN r = 1..(n + 1) /\ r[n + 1] = e
                                  /\ \A i \in 1..n : r[i] = p[i]
  <2>1. Append(p, e) \in Seq(Proposals) /\ Len(Append(p, e)) = n + 1 /\ Append(p, e)[n + 1] = e
    BY <1>2, <1>3
  <2>2. DOMAIN Append(p, e) = 1..(n + 1) /\ \A i \in 1..n : Append(p, e)[i] = p[i]
    BY <1>2, <1>3, <2>1
  <2> QED
    BY <2>1, <2>2
<1>6. reply' \in [text : {"none", "blank", "full"}, calls : Seq(Proposals)] /\ reply'.calls = r
  BY <1>4, <1>5 DEF Typed
<1>7. \A i \in 1..n : p[i].id = proposed + i
  BY <1>1, <1>2 DEF Running, WaitingOK, StreamCall
<1>8. \A i \in 1..(n + 1) : r[i].id = proposed + i
  <2>1. \A i \in 1..(n + 1) : i \in 1..n \/ i = n + 1
    BY ONLY n \in Nat
  <2> QED
    BY <1>3, <1>5, <1>7, <2>1
<1> QED
  BY <1>5, <1>6, <1>8, StreamEventOK DEF StreamCall

(* A retry joins the queue.                                                 *)
LEMMA RetryOK ==
    ASSUME Typed, Running, UNCHANGED inputs, pc = "stream", pc' = "loop",
           NEW kind \in RequestKinds, NEW ms \in {<<>>, <<NudgeMsg>>}, queue' = Append(queue, Retry(kind, ms)),
           messages' \in {messages, WithPartialText(messages)},
           retries' \in [{"empty", "incomplete", "stream"} -> 0..MaxRetries],
           reply' = EmptyReply, UNCHANGED <<outcome, status, modelCalls, toolCalls>>, UNCHANGED ingress, StreamFrame
    PROVE  Inv'
<1> DEFINE r == Retry(kind, ms)
<1>1. /\ messages \in Seq(Messages) /\ queue \in Seq(Requests) /\ chan \in Seq(Requests) /\ inputs \in Inputs
      /\ Flow \in Seq(Requests) /\ Order(messages, Flow)
  BY FlowIs DEF Typed, Running
<1>2. r \in Requests /\ r.msgs = ms /\ ms \in Seq(Messages) /\ Len(ms) <= 1
  <2>1. <<>> \in Seq(Messages) /\ <<NudgeMsg>> \in Seq(Messages) /\ Len(<<>>) = 0 /\ Len(<<NudgeMsg>>) = 1
        /\ 0 <= 1 /\ 1 <= 1
    BY OwnMsgs
  <2>2. ms \in Seq(Messages) /\ Len(ms) <= 1
    BY <2>1
  <2> QED
    BY <2>2 DEF Retry, Request, Requests, Admissions
<1> HIDE DEF r
<1>3. \A x : ms = <<x>> => x = NudgeMsg
  <2>1. \A x : <<>> # <<x>> /\ (<<NudgeMsg>> = <<x>> => x = NudgeMsg)
    OBVIOUS
  <2> QED
    BY <2>1
<1>4. /\ NudgeMsg.k = "nudge" /\ \A s : NudgeMsg # StepMsg(s) /\ \A c : NudgeMsg # ResultMsg(c)
  BY OwnMsgs, MsgKinds
<1>5. PICK n \in Seq(Requests) : n = <<r>> /\ DOMAIN n = 1..1 /\ n[1] = r /\ queue' = queue \o n
  <2>1. <<r>> \in Seq(Requests) /\ DOMAIN <<r>> = 1..1 /\ <<r>>[1] = r
    BY <1>2, OneIn
  <2>2. queue' = Append(queue, r)
    BY DEF r
  <2>3. queue' = queue \o <<r>>
    BY <1>1, <1>2, <2>2
  <2> QED
    BY <2>1, <2>3
<1>6. \A i \in 1..1 : i = 1
  OBVIOUS
<1>7. NewRequests(n, messages, Flow)
  BY <1>2, <1>3, <1>4, <1>5, <1>6 DEF NewRequests, Plain
<1>8. \A x : Held(n, x) => x = NudgeMsg
  BY <1>2, <1>3, <1>5, <1>6 DEF Held
<1>9. Flow' = (queue \o n) \o chan
  BY <1>5 DEF Flow, ingress
<1>10. Order(messages, Flow') /\ \A x : Held(Flow', x) <=> Held(Flow, x) \/ Held(n, x)
  BY <1>1, <1>7, <1>9, OrderJoins DEF Flow
<1>11. /\ messages' \in Seq(Messages) /\ Order(messages', Flow')
       /\ \A s : In(messages', StepMsg(s)) <=> In(messages, StepMsg(s))
       /\ \A c : In(messages', ResultMsg(c)) <=> In(messages, ResultMsg(c))
       /\ \A c : Asked(messages', c) <=> Asked(messages, c)
  <2>1. TextMsg \in Messages /\ TextMsg.k \notin {"step", "result"} /\ TextMsg.k # "frame"
    BY OwnMsgs
  <2> DEFINE ext == Append(messages, TextMsg)
  <2>2. Flow' \in Seq(Requests)
    BY <1>1, <1>9
  <2>3. /\ ext \in Seq(Messages) /\ Order(ext, Flow')
        /\ \A s : In(ext, StepMsg(s)) <=> In(messages, StepMsg(s))
        /\ \A c : In(ext, ResultMsg(c)) <=> In(messages, ResultMsg(c))
        /\ \A c : Asked(ext, c) <=> Asked(messages, c)
    BY <1>1, <1>10, <2>1, <2>2, OneSaid
  <2> HIDE DEF ext
  <2>4. messages' = messages \/ messages' = ext
    BY DEF WithPartialText, ext
  <2> QED
    BY <1>1, <1>10, <2>3, <2>4
<1>12. /\ \A s : Known(StepMsg(s))' <=> Known(StepMsg(s))
       /\ \A c : Known(ResultMsg(c))' <=> Known(ResultMsg(c))
  BY <1>4, <1>8, <1>10, <1>11 DEF Known
<1>13. queue' \in Seq(Requests) /\ queue' # <<>>
  <2>1. Append(queue, r) # <<>> /\ Append(queue, r) \in Seq(Requests)
    BY <1>1, <1>2, AppendJoins
  <2>2. queue' = Append(queue, r)
    BY DEF r
  <2> QED
    BY <2>1, <2>2
<1>14. KeepsTools /\ chan' = chan
  BY DEF KeepsTools, StreamFrame, tools, ingress
<1>15. Len(chan) \in Nat /\ Len(chan) <= Len(chan)
  BY Bounds
<1>16. Running'
  BY <1>11, <1>12, <1>13, <1>14, <1>15, Quiet
<1>17. Typed'
  <2>1. EmptyReply \in [text : {"none", "blank", "full"}, calls : Seq(Proposals)]
    BY DEF EmptyReply
  <2> QED
    BY ZenonT(60), <1>11, <1>13, <2>1 DEF Typed, TypeOK, StreamFrame, tools, ingress, EmptyReply
<1> QED
  BY <1>16, <1>17 DEF Inv

(* A request goes from the channel to the queue.                            *)
LEMMA HeadMoves ==
    ASSUME NEW T, NEW p \in Seq(T), NEW c \in Seq(T), c # <<>>
    PROVE  /\ Append(p, Head(c)) \in Seq(T) /\ Tail(c) \in Seq(T) /\ Append(p, Head(c)) # <<>>
           /\ Append(p, Head(c)) = p \o <<Head(c)>> /\ Append(p, Head(c)) \o Tail(c) = p \o c
           /\ Len(Tail(c)) \in Nat /\ Len(Tail(c)) <= Len(c)
           /\ \A n \in DOMAIN Tail(c) : \E m \in DOMAIN c : Tail(c)[n] = c[m]
<1>1. PICK m \in Nat, n \in Nat : m = Len(p) /\ n = Len(c) /\ n # 0 /\ DOMAIN c = 1..n /\ DOMAIN p = 1..m
  OBVIOUS
<1>2. Head(c) \in T /\ Head(c) = c[1]
  BY <1>1
<1>3. PICK e \in Seq(T) : e = Append(p, Head(c)) /\ Len(e) = m + 1 /\ e[m + 1] = c[1] /\ \A i \in 1..m : e[i] = p[i]
  <2>1. Append(p, Head(c)) \in Seq(T) /\ Len(Append(p, Head(c))) = m + 1
    BY <1>1, <1>2
  <2>2. Append(p, Head(c))[m + 1] = Head(c) /\ \A i \in 1..m : Append(p, Head(c))[i] = p[i]
    BY <1>1, <1>2
  <2> QED
    BY <1>2, <2>1, <2>2
<1>4. PICK t \in Seq(T) : t = Tail(c) /\ Len(t) = n - 1 /\ DOMAIN t = 1..(n - 1) /\ \A i \in 1..(n - 1) : t[i] = c[i + 1]
  <2>1. Tail(c) \in Seq(T) /\ Len(Tail(c)) = n - 1
    BY <1>1
  <2>2. DOMAIN Tail(c) = 1..(n - 1)
    BY <2>1
  <2>3. \A i \in 1..(n - 1) : Tail(c)[i] = c[i + 1]
    BY <1>1
  <2> QED
    BY <2>1, <2>2, <2>3
<1>5. e \o t \in Seq(T) /\ p \o c \in Seq(T) /\ Len(e \o t) = m + n /\ Len(p \o c) = m + n
  BY <1>1, <1>3, <1>4
<1>6. ASSUME NEW i \in 1..(m + n) PROVE (e \o t)[i] = (p \o c)[i]
  <2>1. (p \o c)[i] = IF i <= m THEN p[i] ELSE c[i - m]
    BY <1>1
  <2>2. (e \o t)[i] = IF i <= m + 1 THEN e[i] ELSE t[i - (m + 1)]
    BY <1>3, <1>4, <1>1
  <2>3. CASE i <= m
    <3>1. i \in 1..m /\ i <= m + 1
      BY <2>3
    <3> QED
      BY <1>3, <2>1, <2>2, <2>3, <3>1
  <2>4. CASE i = m + 1
    <3>1. i - m = 1 /\ ~(i <= m) /\ i <= m + 1
      BY <2>4
    <3> QED
      BY <1>3, <2>1, <2>2, <2>4, <3>1
  <2>5. CASE i > m + 1
    <3>1. i - (m + 1) \in 1..(n - 1) /\ (i - (m + 1)) + 1 = i - m /\ ~(i <= m) /\ ~(i <= m + 1)
      BY <2>5
    <3> QED
      BY <1>4, <2>1, <2>2, <3>1
  <2>6. i <= m \/ i = m + 1 \/ i > m + 1
    BY <1>1
  <2> QED
    BY <2>3, <2>4, <2>5, <2>6
<1>7. e \o t = p \o c
  <2>1. PICK s \in Seq(T) : s = e \o t /\ Len(s) = m + n
    BY <1>5
  <2>2. PICK u \in Seq(T) : u = p \o c /\ Len(u) = m + n
    BY <1>5
  <2>3. \A i \in 1..(m + n) : s[i] = u[i]
    BY <1>6, <2>1, <2>2
  <2>4. DOMAIN s = 1..(m + n) /\ DOMAIN u = 1..(m + n)
    BY <2>1, <2>2
  <2>5. s = u
    BY SMTT(40), <2>1, <2>2, <2>3, <2>4
  <2> QED
    BY <2>1, <2>2, <2>5
<1>8. \A i \in 1..(n - 1) : i + 1 \in 1..n
  BY <1>1
<1>9. e # <<>> /\ Len(t) \in Nat /\ Len(t) <= n /\ e = p \o <<Head(c)>>
  BY SMTT(40), <1>1, <1>2, <1>3, <1>4
<1> QED
  BY <1>1, <1>3, <1>4, <1>7, <1>8, <1>9

(* A step that only moves requests from the channel to the queue, or says   *)
(* the final answer.                                                        *)
LEMMA FlowKept ==
    ASSUME Typed, Running, UNCHANGED inputs, pc \in {"stream", "closing"}, pc' \in {"loop", "stream", "closing"},
           Flow' = Flow, queue' \in Seq(Requests), chan' \in Seq(Requests), pc' = "loop" => queue' # <<>>,
           Len(chan') \in Nat, Len(chan') <= Len(chan),
           \A n \in DOMAIN chan' : \E m \in DOMAIN chan : chan'[n] = chan[m],
           messages' \in {messages, Append(messages, TextMsg)},
           retries' \in [{"empty", "incomplete", "stream"} -> 0..MaxRetries],
           reply' = reply \/ reply' = EmptyReply, pc' = "stream" => pc = "stream" /\ reply' = reply,
           pc # "stream" \/ pc' = "stream" \/ reply' = EmptyReply,
           UNCHANGED <<outcome, status, modelCalls, toolCalls, start, reminded, tools, cancelled,
                       bridge, next, consumed>>, closed' \in BOOLEAN
    PROVE  Inv'
<1>1. messages \in Seq(Messages) /\ Flow \in Seq(Requests) /\ Order(messages, Flow) /\ inputs \in Inputs
  BY FlowIs DEF Typed, Running
<1>2. TextMsg \in Messages /\ TextMsg.k \notin {"step", "result"} /\ TextMsg.k # "frame"
  BY OwnMsgs
<1> DEFINE ext == Append(messages, TextMsg)
<1>3. /\ ext \in Seq(Messages) /\ Order(ext, Flow)
      /\ \A s : In(ext, StepMsg(s)) <=> In(messages, StepMsg(s))
      /\ \A c : In(ext, ResultMsg(c)) <=> In(messages, ResultMsg(c))
      /\ \A c : Asked(ext, c) <=> Asked(messages, c)
  BY <1>1, <1>2, OneSaid
<1>4. messages' = messages \/ messages' = ext
  OBVIOUS
<1> HIDE DEF ext
<1>5. /\ messages' \in Seq(Messages) /\ Order(messages', Flow')
      /\ \A s : Known(StepMsg(s))' <=> Known(StepMsg(s))
      /\ \A c : Known(ResultMsg(c))' <=> Known(ResultMsg(c))
      /\ \A c : Asked(messages', c) <=> Asked(messages, c)
  BY <1>1, <1>3, <1>4 DEF Known
<1>6. \A c \in Nat : ~Held(Flow', ResultMsg(c))
  BY DEF Running, ResultsOK
<1>7. pc # "stream" => reply = EmptyReply
  <2>1. pc # "stream" => reply.calls = <<>> /\ reply.text = "none"
    BY DEF Running, WaitingOK
  <2>2. reply = [text |-> reply.text, calls |-> reply.calls]
    BY DEF Typed
  <2> QED
    BY <2>1, <2>2 DEF EmptyReply
<1>8. KeepsTools
  BY DEF KeepsTools, tools
<1>9. pc' = "stream" => \A i \in DOMAIN reply'.calls : reply'.calls[i].id = proposed + i
  BY DEF Running, WaitingOK
<1>10. Running'
  BY <1>5, <1>6, <1>7, <1>8, <1>9, Quiet
<1>11. Typed'
  <2>1. Len(chan') <= Capacity
    BY SMTT(40), Bounds
  <2>2. EmptyReply \in [text : {"none", "blank", "full"}, calls : Seq(Proposals)]
        /\ reply \in [text : {"none", "blank", "full"}, calls : Seq(Proposals)]
    BY DEF EmptyReply, Typed
  <2>3. reply' \in [text : {"none", "blank", "full"}, calls : Seq(Proposals)]
    BY <2>2
  <2> QED
    BY ZenonT(60), <1>5, <2>1, <2>3 DEF Typed, TypeOK, tools
<1> QED
  BY <1>10, <1>11 DEF Inv

(* A step request arrives while the model streams.                          *)
LEMMA StreamIngressOK ==
    ASSUME Typed, Running, UNCHANGED inputs, StreamIngress
    PROVE  Inv'
<1>1. queue \in Seq(Requests) /\ chan \in Seq(Requests) /\ chan # <<>>
  BY DEF Typed, StreamIngress
<1>2. /\ queue' \in Seq(Requests) /\ chan' \in Seq(Requests) /\ queue' \o chan' = queue \o chan
      /\ Len(chan') \in Nat /\ Len(chan') <= Len(chan)
      /\ \A n \in DOMAIN chan' : \E m \in DOMAIN chan : chan'[n] = chan[m]
  <2> DEFINE R == Requests
  <2>1. queue \in Seq(R) /\ chan \in Seq(R)
    BY <1>1
  <2> HIDE DEF R
  <2>2. /\ Append(queue, Head(chan)) \in Seq(R) /\ Tail(chan) \in Seq(R)
        /\ Append(queue, Head(chan)) \o Tail(chan) = queue \o chan
        /\ Len(Tail(chan)) \in Nat /\ Len(Tail(chan)) <= Len(chan)
        /\ \A n \in DOMAIN Tail(chan) : \E m \in DOMAIN chan : Tail(chan)[n] = chan[m]
    BY <1>1, <2>1, HeadMoves
  <2>3. queue' = Append(queue, Head(chan)) /\ chan' = Tail(chan)
    BY DEF StreamIngress
  <2> QED
    BY <2>2, <2>3 DEF R
<1>3. retries' \in [{"empty", "incomplete", "stream"} -> 0..MaxRetries] /\ closed' \in BOOLEAN
  BY DEF StreamIngress, machine, Typed, TypeOK
<1>4. Flow' = Flow
  BY <1>2 DEF Flow
<1> QED
  BY <1>2, <1>3, <1>4, FlowKept DEF StreamIngress, machine, StreamFrame

(* A step request arrives while the ingress is closed.                      *)
LEMMA ClosingReceiveOK ==
    ASSUME Typed, Running, UNCHANGED inputs, ClosingReceive
    PROVE  Inv'
<1>1. queue \in Seq(Requests) /\ chan \in Seq(Requests) /\ chan # <<>> /\ BridgeOK
  BY DEF Typed, ClosingReceive, Running
<1>2. queue' = Append(queue, Head(chan)) /\ chan' = Tail(chan)
  <2>1. Append(queue, Head(chan)) = queue \o <<Head(chan)>>
    BY <1>1, HeadMoves
  <2> QED
    BY <1>1, <2>1, FlowIs DEF ClosingReceive
<1>3. /\ queue' \in Seq(Requests) /\ chan' \in Seq(Requests) /\ queue' \o chan' = queue \o chan
      /\ Len(chan') \in Nat /\ Len(chan') <= Len(chan)
      /\ \A n \in DOMAIN chan' : \E m \in DOMAIN chan : chan'[n] = chan[m]
  BY SMTT(40), <1>1, <1>2, HeadMoves
<1>4. retries' \in [{"empty", "incomplete", "stream"} -> 0..MaxRetries] /\ closed' \in BOOLEAN
  BY DEF ClosingReceive, machine, Typed, TypeOK
<1>5. Flow' = Flow
  BY <1>3 DEF Flow
<1> QED
  BY <1>3, <1>4, <1>5, FlowKept DEF ClosingReceive, machine

(* The reset of the retries is in their range.                              *)
LEMMA ResetOK == ResetRetries \in [{"empty", "incomplete", "stream"} -> 0..MaxRetries]
<1>1. 0 \in 0..MaxRetries
  BY BoundsAssumption
<1> QED
  BY <1>1 DEF ResetRetries

(* The model answered without a call.                                       *)
LEMMA FinalResponseOK ==
    ASSUME Typed, Running, UNCHANGED inputs, FinalResponse
    PROVE  Inv'
<1>1. /\ Flow \in Seq(Requests) /\ queue' = Flow /\ chan' = <<>> /\ messages' = Append(messages, TextMsg)
      /\ IF Flow # <<>> THEN pc' = "loop" /\ UNCHANGED closed ELSE pc' = "closing" /\ closed' = TRUE
      /\ pc = "stream" /\ retries' = ResetRetries /\ reply' = EmptyReply
  BY FlowIs DEF Running, FinalResponse
<1>2. <<>> \in Seq(Requests) /\ Len(<<>>) = 0 /\ DOMAIN <<>> = {} /\ Flow \o <<>> = Flow /\ Len(chan) \in Nat
  BY <1>1, Bounds
<1>3. Flow' = Flow /\ 0 <= Len(chan) /\ 0 \in Nat
  <2>1. Flow' = queue' \o chan'
    BY DEF Flow
  <2> QED
    BY <1>1, <1>2, <2>1
<1>4. closed' \in BOOLEAN
  BY <1>1 DEF Typed
<1>5. /\ pc' \in {"loop", "stream", "closing"} /\ pc' # "stream" /\ (pc' = "loop" => queue' # <<>>)
      /\ retries' \in [{"empty", "incomplete", "stream"} -> 0..MaxRetries]
  BY <1>1, ResetOK
<1>6. /\ queue' \in Seq(Requests) /\ chan' \in Seq(Requests) /\ Len(chan') \in Nat /\ Len(chan') <= Len(chan)
      /\ \A n \in DOMAIN chan' : \E m \in DOMAIN chan : chan'[n] = chan[m]
  BY <1>1, <1>2, <1>3
<1> QED
  BY <1>1, <1>3, <1>4, <1>5, <1>6, FlowKept DEF FinalResponse, StreamFrame

(* A batch goes to the model.                                               *)
LEMMA LoopCallModelOK ==
    ASSUME Typed, Running, UNCHANGED inputs, LoopCallModel
    PROVE  Inv'
<1> DEFINE G == Flow
           B == DOMAIN G \ Rest(G)
<1>1. /\ Flow \in Seq(Requests) /\ Gathered = Flow /\ Order(messages, Flow) /\ Flow # <<>>
      /\ messages \in Seq(Messages) /\ inputs \in Inputs /\ pc = "loop" /\ pc' = "start"
      /\ chan' = <<>> /\ queue' = AfterBatch(Flow)
  BY FlowIs DEF Typed, Running, LoopCallModel
<1>2. /\ Rest(G) \in SUBSET (DOMAIN G) /\ Takes(Batch(G), G, B) /\ Precede(G, B, Rest(G))
  BY <1>1, BatchTakes DEF Order, Plain
<1>0. PICK r \in Seq(Requests) : r = AfterBatch(G) /\ \E pt : Picked(r, pt, G, Rest(G))
  BY <1>1, <1>2, KeptIs DEF AfterBatch
<1>3. PICK pt : r = AfterBatch(G) /\ Picked(r, pt, G, Rest(G))
  BY <1>0
<1>4. PICK m \in Seq(Messages) : m = messages \o Batch(G)
  <2>1. Batch(G) \in Seq(Messages)
    BY <1>2 DEF Takes
  <2>2. messages \o Batch(G) \in Seq(Messages)
    BY <1>1, <2>1
  <2> QED
    BY <2>2
<1>5. Order(m, r) /\ B \in SUBSET (DOMAIN G)
  BY <1>1, <1>2, <1>3, <1>4, OrderMoves
<1>6. /\ \A x : In(m, x) <=> In(messages, x) \/ \E i \in B : G[i].msgs = <<x>>
      /\ \A x : Held(r, x) <=> \E i \in Rest(G) : G[i].msgs = <<x>>
      /\ \A c : Asked(m, c) <=> Asked(messages, c)
  <2>1. Plain(G)
    BY <1>1 DEF Order
  <2>2. Takes(Batch(G), G, B) /\ G \in Seq(Requests) /\ B \in SUBSET (DOMAIN G)
    BY <1>1, <1>2, <1>5
  <2> HIDE DEF B, G
  <2>3. ASSUME NEW x PROVE In(m, x) <=> (In(messages, x) \/ \E i \in B : G[i].msgs = <<x>>)
    <3>1. messages \in Seq(Messages) /\ m = messages \o Batch(G)
      BY <1>1, <1>4
    <3>2. In(messages \o Batch(G), x) <=> (In(messages, x) \/ HasFrom(G, B, x))
      BY <2>2, <3>1, TakenIn
    <3> QED
      BY <3>1, <3>2 DEF HasFrom
  <2>4. \A x : Held(r, x) <=> \E i \in Rest(G) : G[i].msgs = <<x>>
    BY <1>3, <2>2, HeldPicked
  <2>5. \A c : Asked(m, c) <=> Asked(messages, c)
    BY <1>1, <1>4, <1>5, <2>1, <2>2, AskedTaken
  <2> QED
    BY <2>3, <2>4, <2>5
<1>7. \A x : In(m, x) \/ Held(r, x) <=> Known(x)
  <2>1. \A i \in DOMAIN G : i \in B \/ i \in Rest(G)
    OBVIOUS
  <2>2. \A i \in Rest(G) : i \in DOMAIN G
    BY <1>2
  <2>3. \A x : (\E i \in DOMAIN G : G[i].msgs = <<x>>)
                  <=> (\E i \in B : G[i].msgs = <<x>>) \/ (\E i \in Rest(G) : G[i].msgs = <<x>>)
    BY <2>1, <2>2
  <2> QED
    BY <1>6, <2>3 DEF Known, Held
<1>8. Flow' = r
  <2>1. r \o <<>> = r
    OBVIOUS
  <2>2. Flow' = queue' \o chan'
    BY DEF Flow
  <2> QED
    BY <1>1, <1>3, <2>1, <2>2
<1>9. ReminderMsg \in Messages /\ ReminderMsg.k \notin {"step", "result"} /\ ReminderMsg.k # "frame"
  BY OwnMsgs
<1> DEFINE ext == Append(m, ReminderMsg)
<1>10. /\ ext \in Seq(Messages) /\ Order(ext, r)
       /\ \A s : In(ext, StepMsg(s)) <=> In(m, StepMsg(s))
       /\ \A c : In(ext, ResultMsg(c)) <=> In(m, ResultMsg(c))
       /\ \A c : Asked(ext, c) <=> Asked(m, c)
  BY <1>1, <1>5, <1>9, OneSaid
<1>11. messages' = m \/ messages' = ext
  <2>1. m \o <<>> = m /\ m \o <<ReminderMsg>> = ext
    OBVIOUS
  <2> QED
    BY <1>1, <1>4, <2>1 DEF LoopCallModel
<1> HIDE DEF ext, B, G
<1>12. /\ messages' \in Seq(Messages) /\ Order(messages', Flow')
       /\ \A s : Known(StepMsg(s))' <=> Known(StepMsg(s))
       /\ \A c : Known(ResultMsg(c))' <=> Known(ResultMsg(c))
       /\ \A c : Asked(messages', c) <=> Asked(messages, c)
  BY <1>5, <1>6, <1>7, <1>8, <1>10, <1>11 DEF Known
<1>13. \A c \in Nat : ~Held(Flow', ResultMsg(c))
  <2>1. ASSUME NEW c \in Nat, NEW i \in Rest(G), G[i].msgs = <<ResultMsg(c)>> PROVE FALSE
    <3>1. i \in Drivers(G) /\ i \in DOMAIN Flow
      BY <1>2 DEF Rest, G
    <3>2. ~Flow[i].mergeable
      BY <3>1 DEF Drivers, G
    <3>3. Flow[i].mergeable
      BY <1>1, <2>1, <3>1 DEF Order, Plain, G
    <3> QED
      BY <3>2, <3>3
  <2> QED
    BY <1>6, <1>8, <2>1
<1>14. KeepsTools /\ reply' = EmptyReply
  <2>1. reply' = reply /\ reply.calls = <<>> /\ reply.text = "none" /\ reply = [text |-> reply.text, calls |-> reply.calls]
    BY <1>1 DEF Running, WaitingOK, Typed, LoopCallModel
  <2> QED
    BY <2>1 DEF KeepsTools, LoopCallModel, tools, EmptyReply
<1>15. Len(chan) \in Nat /\ Len(<<>>) = 0 /\ 0 \in Nat /\ 0 <= Len(chan) /\ 0 <= Capacity /\ \A n \in DOMAIN <<>> : FALSE
  BY Bounds
<1>16. Running'
  BY <1>1, <1>12, <1>13, <1>14, <1>15, Quiet
<1>17. modelCalls' \in 0..MaxModelCalls
  <2>1. modelCalls \in Nat /\ MaxModelCalls \in Nat
    BY Bounds
  <2>2. modelCalls' = modelCalls + 1 /\ modelCalls < MaxModelCalls
    BY DEF LoopCallModel
  <2> QED
    BY <2>1, <2>2
<1>18. Typed'
  <2>1. <<>> \in Seq(Requests) /\ queue' \in Seq(Requests) /\ reminded' \in BOOLEAN
    BY <1>1, <1>3 DEF G, LoopCallModel, Typed
  <2> QED
    BY ZenonT(60), <1>1, <1>12, <1>15, <1>17, <2>1 DEF Typed, TypeOK, LoopCallModel, tools
<1> QED
  BY <1>1, <1>16, <1>18 DEF Inv

-----------------------------------------------------------------------------
(* How a run ends.                                                          *)

(* The types of what is left.                                               *)
LEMMA EndTyped ==
    ASSUME Typed, UNCHANGED inputs, pc' = "end",
           outcome' \in {"error", "cancelled"} \cup Outcomes, messages' \in Seq(Messages),
           queue' \in Seq(Requests), chan' \in {chan, <<>>},
           start' \in {start, FreshStart(FALSE)}, reply' \in {reply, EmptyReply},
           UNCHANGED <<modelCalls, toolCalls, retries, reminded, cancelled, closed, bridge, next, consumed>>,
           proposed' \in Nat, schedule' \in Seq(Tasks), wave' \in Seq(Tasks),
           failures' \in [Fingerprints -> Nat]
    PROVE  Typed'
<1>1. FreshStart(FALSE) \in [attempt : 0..MaxProviderRetries, compacted : BOOLEAN, media : BOOLEAN]
  <2>1. 0 \in 0..MaxProviderRetries
    BY Bounds
  <2> QED
    BY <2>1 DEF FreshStart
<1>2. EmptyReply \in [text : {"none", "blank", "full"}, calls : Seq(Proposals)]
  BY DEF EmptyReply
<1>3. <<>> \in Seq(Requests) /\ Len(<<>>) = 0 /\ 0 <= Capacity
  BY Bounds
<1>4. start' \in [attempt : 0..MaxProviderRetries, compacted : BOOLEAN, media : BOOLEAN]
  BY <1>1 DEF Typed, TypeOK
<1>5. reply' \in [text : {"none", "blank", "full"}, calls : Seq(Proposals)]
  BY <1>2 DEF Typed
<1>6. chan' \in Seq(Requests) /\ Len(chan') <= Capacity
  BY <1>3 DEF Typed, TypeOK
<1> QED
  BY <1>4, <1>5, <1>6 DEF Typed, TypeOK

(* Cancelled or failed, with these messages.                                *)
LEMMA Ended ==
    ASSUME Typed, Running, UNCHANGED inputs, NEW s \in {"cancelled", "failed"}, NEW msgs, End(s, msgs),
           Order(msgs, <<>>), \A c : Asked(msgs, c) <=> Asked(messages, c),
           s = "failed" =>
              \A t \in consumed : \/ In(msgs, StepMsg(t)) \/ Held(chan', StepMsg(t))
                                  \/ (bridge = "consumed" /\ inputs[next] = t),
           UNCHANGED <<proposed, bridge, next, consumed>>
    PROVE  Over' /\ pc' = "end" /\ outcome' = s /\ messages' = msgs /\ queue' = <<>>
           /\ UNCHANGED <<modelCalls, toolCalls, retries>>
<1>1. Valid(status, s)
  BY DEF Running, ControlOK, Valid
<1>2. pc' = "end" /\ outcome' = s /\ messages' = msgs /\ queue' = <<>> /\ UNCHANGED <<modelCalls, toolCalls, retries>>
  BY <1>1 DEF End
<1>3. Order(messages, <<>>)'
  BY <1>2 DEF Order, SameMode
<1>4. FramesOK'
  BY <1>2 DEF Running, FramesOK
<1>5. toolCalls' <= MaxToolCalls
  BY <1>2 DEF Running, ControlOK
<1> QED
  BY <1>2, <1>3, <1>4, <1>5 DEF Over, Outcomes

(* With what was drained from the queue.                                    *)
LEMMA DrainedOK ==
    ASSUME Typed, Running, NEW base \in {messages, WithPartialText(messages)},
           NEW q \in {queue, Flow, AbortTurnScoped(queue), AbortTurnScoped(Flow)}
    PROVE  /\ base \o DrainMaterialized(q) \in Seq(Messages)
           /\ Order(base \o DrainMaterialized(q), <<>>)
           /\ \A c : Asked(base \o DrainMaterialized(q), c) <=> Asked(messages, c)
           /\ q \in {queue, Flow} =>
                 \A s : In(messages, StepMsg(s)) \/ Held(q, StepMsg(s))
                           => In(base \o DrainMaterialized(q), StepMsg(s))
<1>1. /\ messages \in Seq(Messages) /\ queue \in Seq(Requests) /\ chan \in Seq(Requests)
      /\ Flow \in Seq(Requests) /\ inputs \in Inputs /\ Order(messages, Flow)
  BY FlowIs DEF Typed, Running
<1>2. /\ base \in Seq(Messages) /\ Order(base, Flow)
      /\ \A s : In(base, StepMsg(s)) <=> In(messages, StepMsg(s))
      /\ \A c : Asked(base, c) <=> Asked(messages, c)
  BY <1>1, TextKept
<1>3. Order(base, queue)
  BY <1>1, <1>2, OrderFirst DEF Flow
<1>4. q \in Seq(Requests) /\ Order(base, q)
  BY <1>1, <1>2, <1>3, OrderAborted
<1>5. /\ base \o DrainMaterialized(q) \in Seq(Messages)
      /\ Order(base \o DrainMaterialized(q), <<>>)
      /\ \A x : In(base \o DrainMaterialized(q), x) <=> In(base, x) \/ Held(q, x)
  BY <1>1, <1>2, <1>4, OrderDrained
<1>6. \A c : Asked(base \o DrainMaterialized(q), c) <=> Asked(base, c)
  BY <1>2, <1>4, AskedDrained DEF Order
<1> QED
  BY <1>2, <1>5, <1>6

\* What an end leaves as it is, whatever it does with the start and the reply.
KeepsAtEnd ==
    /\ UNCHANGED <<reminded, tools, cancelled, closed, bridge, next, consumed>>
    /\ start' \in {start, FreshStart(FALSE)} /\ reply' \in {reply, EmptyReply}

(* A run ends cancelled or failed with what was drained.                    *)
LEMMA EndOK ==
    ASSUME Typed, Running, UNCHANGED inputs, NEW s \in {"cancelled", "failed"},
           NEW base \in {messages, WithPartialText(messages)},
           NEW q \in {queue, Flow, AbortTurnScoped(queue), AbortTurnScoped(Flow)},
           End(s, base \o DrainMaterialized(q)), KeepsAtEnd, chan' \in {chan, <<>>},
           s = "failed" => (q = queue /\ chan' = chan) \/ q = Flow
    PROVE  Inv'
<1> DEFINE msgs == base \o DrainMaterialized(q)
<1>1. /\ msgs \in Seq(Messages) /\ Order(msgs, <<>>)
      /\ \A c : Asked(msgs, c) <=> Asked(messages, c)
      /\ q \in {queue, Flow} =>
            \A t : In(messages, StepMsg(t)) \/ Held(q, StepMsg(t)) => In(msgs, StepMsg(t))
  BY DrainedOK
<1> HIDE DEF msgs
<1>2. /\ \A x : Held(Flow, x) <=> Held(queue, x) \/ Held(chan, x)
      /\ \A t \in consumed : Known(StepMsg(t)) \/ (bridge = "consumed" /\ inputs[next] = t)
  BY FlowIs DEF Running, ConsumedOK
<1>3. s = "failed" =>
         \A t \in consumed : \/ In(msgs, StepMsg(t)) \/ Held(chan', StepMsg(t))
                             \/ (bridge = "consumed" /\ inputs[next] = t)
  BY <1>1, <1>2 DEF Known
<1>4. End(s, msgs)
  BY DEF msgs
<1>5. UNCHANGED <<proposed, schedule, wave, failures, reminded, cancelled, closed, bridge, next, consumed>>
      /\ start' \in {start, FreshStart(FALSE)} /\ reply' \in {reply, EmptyReply}
  BY DEF KeepsAtEnd, tools
<1>6. Over' /\ pc' = "end" /\ outcome' = s /\ messages' = msgs /\ queue' = <<>>
      /\ UNCHANGED <<modelCalls, toolCalls, retries>>
  BY <1>1, <1>3, <1>4, <1>5, Ended
<1>7. Typed'
  <2>1. <<>> \in Seq(Requests) /\ outcome' \in {"error", "cancelled"} \cup Outcomes
    BY <1>6 DEF Outcomes
  <2>2. proposed' \in Nat /\ schedule' \in Seq(Tasks) /\ wave' \in Seq(Tasks) /\ failures' \in [Fingerprints -> Nat]
    BY <1>5 DEF Typed
  <2> QED
    BY <1>1, <1>5, <1>6, <2>1, <2>2, EndTyped
<1> QED
  BY <1>6, <1>7 DEF Inv

(* The run returns with an error.                                           *)
LEMMA AbortOK ==
    ASSUME Typed, Running, UNCHANGED inputs, Abort, KeepsAtEnd, UNCHANGED chan
    PROVE  Inv'
<1>1. messages \in Seq(Messages) /\ Flow \in Seq(Requests) /\ inputs \in Inputs /\ Order(messages, Flow)
  BY FlowIs DEF Typed, Running
<1>2. /\ pc' = "end" /\ outcome' = "error" /\ UNCHANGED <<modelCalls, toolCalls, retries, queue, messages>>
      /\ UNCHANGED <<proposed, schedule, wave, failures, reminded, cancelled, closed, bridge, next, consumed>>
      /\ start' \in {start, FreshStart(FALSE)} /\ reply' \in {reply, EmptyReply}
  BY DEF Abort, KeepsAtEnd, machine, tools
<1>3. Typed'
  <2>1. /\ messages' \in Seq(Messages) /\ queue' \in Seq(Requests) /\ proposed' \in Nat
        /\ schedule' \in Seq(Tasks) /\ wave' \in Seq(Tasks) /\ failures' \in [Fingerprints -> Nat]
    BY <1>2 DEF Typed
  <2> QED
    BY <1>2, <2>1, EndTyped
<1>4. Order(messages, <<>>)'
  <2>1. Order(messages, <<>>)
    BY <1>1, OrderNone
  <2> QED
    BY <1>2, <2>1 DEF Order, SameMode
<1>5. FramesOK' /\ toolCalls' <= MaxToolCalls
  BY <1>2 DEF Running, FramesOK, ControlOK
<1>6. Over'
  BY <1>2, <1>4, <1>5 DEF Over, Outcomes
<1> QED
  BY <1>2, <1>3, <1>6 DEF Inv

(* The run returns "completed", with nothing on its way and no call open.   *)
LEMMA CompletedOK ==
    ASSUME Typed, Running, UNCHANGED inputs, pc \in {"loop", "closing"}, Flow = <<>>,
           bridge # "consumed", End("completed", messages), KeepsAtEnd, chan' \in {chan, <<>>}
    PROVE  Inv'
<1>1. /\ messages \in Seq(Messages) /\ inputs \in Inputs /\ Order(messages, <<>>)
  BY DEF Typed, Running
<1>2. Valid(status, "completed")
  BY DEF Running, ControlOK, Valid
<1>3. /\ pc' = "end" /\ outcome' = "completed" /\ messages' = messages /\ queue' = <<>>
      /\ UNCHANGED <<modelCalls, toolCalls, retries>>
      /\ UNCHANGED <<proposed, schedule, wave, failures, reminded, cancelled, closed, bridge, next, consumed>>
      /\ start' \in {start, FreshStart(FALSE)} /\ reply' \in {reply, EmptyReply}
  BY <1>2 DEF End, KeepsAtEnd, tools
<1>4. Typed'
  <2>1. <<>> \in Seq(Requests) /\ outcome' \in {"error", "cancelled"} \cup Outcomes
    BY <1>3 DEF Outcomes
  <2>2. /\ messages' \in Seq(Messages) /\ proposed' \in Nat
        /\ schedule' \in Seq(Tasks) /\ wave' \in Seq(Tasks) /\ failures' \in [Fingerprints -> Nat]
    BY <1>3 DEF Typed
  <2> QED
    BY <1>3, <2>1, <2>2, EndTyped
<1>5. Order(messages, <<>>)' /\ FramesOK' /\ toolCalls' <= MaxToolCalls
  BY <1>1, <1>3 DEF Order, SameMode, Running, FramesOK, ControlOK
<1>6. \A x : Known(x) => In(messages, x)
  <2>1. DOMAIN <<>> = {}
    OBVIOUS
  <2> QED
    BY <2>1 DEF Known, Held
<1>7. \A c \in 1..proposed : In(messages, ResultMsg(c))
  <2>1. \A c : ~Waits(c)
    BY DEF Running, WaitingOK, Waits, Ids
  <2>2. \A c \in 1..proposed : c \in Nat
    OBVIOUS
  <2> QED
    BY <1>6, <2>1, <2>2 DEF Running, ResultsOK
<1>8. \A s \in consumed : In(messages, StepMsg(s))
  BY <1>6 DEF Running, ConsumedOK
<1>9. Over'
  BY <1>3, <1>5, <1>7, <1>8 DEF Over, Outcomes
<1> QED
  BY <1>3, <1>4, <1>9 DEF Inv

(* The ends at the head of the loop.                                        *)
LEMMA LoopEndsOK ==
    ASSUME Typed, Running, UNCHANGED inputs, LoopStops \/ LoopOverLimit
    PROVE  Inv'
<1>1. Gathered = Flow /\ Flow # <<>>
  <2>1. pc = "loop" /\ queue # <<>> /\ queue \in Seq(Requests) /\ chan \in Seq(Requests)
    BY DEF LoopStops, LoopOverLimit, Running, ControlOK, Typed
  <2>2. queue \o chan # <<>>
    BY <2>1
  <2> QED
    BY <2>2, FlowIs DEF Running, Flow
<1>2. KeepsAtEnd /\ chan' \in {chan, <<>>}
  BY DEF LoopStops, LoopOverLimit, KeepsAtEnd
<1>3. CASE LoopStops
  <2>1. End("cancelled", messages \o DrainMaterialized(AbortTurnScoped(Flow)))
    BY <1>1, <1>3 DEF LoopStops
  <2> QED
    BY <1>2, <2>1, EndOK
<1>4. CASE LoopOverLimit
  <2>1. End("failed", messages \o DrainMaterialized(Flow))
    BY <1>1, <1>4 DEF LoopOverLimit
  <2> QED
    BY <1>2, <2>1, EndOK
<1> QED
  BY <1>3, <1>4

(* The ends while the provider has not answered.                            *)
LEMMA StartEndsOK ==
    ASSUME Typed, Running, UNCHANGED inputs, StartCancelled \/ StartTimeout \/ ProviderError
    PROVE  Inv'
<1>1. KeepsAtEnd /\ chan' = chan
  BY DEF StartCancelled, StartTimeout, ProviderError, KeepsAtEnd, StartFrame, ingress
<1>2. CASE StartCancelled
  <2>1. messages \in Seq(Messages) /\ Flow \in Seq(Requests) /\ inputs \in Inputs /\ Order(messages, Flow)
    BY FlowIs DEF Typed, Running
  <2>2. Order(messages, <<>>) /\ End("cancelled", messages)
    BY <1>2, <2>1, OrderNone DEF StartCancelled
  <2>3. UNCHANGED <<proposed, schedule, wave, failures, reminded, cancelled, closed, bridge, next, consumed>>
        /\ start' \in {start, FreshStart(FALSE)} /\ reply' \in {reply, EmptyReply}
    BY <1>1 DEF KeepsAtEnd, tools
  <2>4. Over' /\ pc' = "end" /\ outcome' = "cancelled" /\ messages' = messages /\ queue' = <<>>
        /\ UNCHANGED <<modelCalls, toolCalls, retries>>
    BY <2>2, <2>3, Ended
  <2>5. Typed'
    <3>1. /\ <<>> \in Seq(Requests) /\ proposed' \in Nat /\ schedule' \in Seq(Tasks) /\ wave' \in Seq(Tasks)
          /\ failures' \in [Fingerprints -> Nat]
      BY <2>3 DEF Typed
    <3> QED
      BY <1>1, <2>1, <2>3, <2>4, <3>1, EndTyped
  <2> QED
    BY <2>4, <2>5 DEF Inv
<1>3. CASE StartTimeout
  <2>1. End("failed", messages \o DrainMaterialized(queue))
    BY <1>3 DEF StartTimeout, Drained
  <2> QED
    BY <1>1, <2>1, EndOK
<1>4. CASE ProviderError
  BY <1>1, <1>4, AbortOK DEF ProviderError
<1> QED
  BY <1>2, <1>3, <1>4

(* The ways out of the stream.                                              *)
LEMMA StreamEndsOK ==
    ASSUME Typed, Running, UNCHANGED inputs, pc = "stream", StreamFrame, UNCHANGED ingress, reply' = EmptyReply
    PROVE  /\ StreamFails => Inv'
           /\ Abort => Inv'
           /\ StreamRetryAllowed /\ StreamRetry => Inv'
           /\ StreamCancelled => Inv'
<1>1. KeepsAtEnd /\ chan' = chan
  BY DEF KeepsAtEnd, StreamFrame, ingress
<1>2. ASSUME StreamFails PROVE Inv'
  <2>1. End("failed", WithPartialText(messages) \o DrainMaterialized(queue))
    BY <1>2 DEF StreamFails
  <2> QED
    BY <1>1, <2>1, EndOK
<1>3. Abort => Inv'
  BY <1>1, AbortOK
<1>4. ASSUME StreamRetryAllowed, StreamRetry PROVE Inv'
  <2>1. retries' \in [{"empty", "incomplete", "stream"} -> 0..MaxRetries]
    <3>1. /\ retries \in [{"empty", "incomplete", "stream"} -> 0..MaxRetries]
          /\ retries.stream < MaxRetries /\ MaxRetries \in Nat
      BY <1>4, Bounds DEF StreamRetryAllowed, Typed, TypeOK
    <3>2. retries.stream + 1 \in 0..MaxRetries
      BY <3>1
    <3> QED
      BY <1>4, <3>1, <3>2 DEF StreamRetry
  <2>2. queue' = Append(queue, Retry("model_stream_retry", <<>>)) /\ pc' = "loop"
        /\ UNCHANGED <<outcome, status, modelCalls, toolCalls, messages>>
    BY <1>4 DEF StreamRetry
  <2>3. "model_stream_retry" \in RequestKinds /\ <<>> \in {<<>>, <<NudgeMsg>>}
    BY DEF RequestKinds
  <2> QED
    BY <2>1, <2>2, <2>3, RetryOK
<1>5. ASSUME StreamCancelled PROVE Inv'
  <2>1. End("cancelled", WithPartialText(messages) \o DrainMaterialized(AbortTurnScoped(queue)))
    BY <1>5 DEF StreamCancelled
  <2> QED
    BY <1>1, <2>1, EndOK
<1> QED
  BY <1>2, <1>3, <1>4, <1>5

(* The stream is cut short.                                                 *)
LEMMA StreamOverOK ==
    ASSUME Typed, Running, UNCHANGED inputs,
           \/ StreamCancelled \/ StreamDeadline \/ StreamIdle \/ StreamError
           \/ StreamUsageOverLimit \/ MalformedCalls
    PROVE  Inv'
<1>1. pc = "stream" /\ StreamFrame /\ UNCHANGED ingress /\ reply' = EmptyReply
  BY DEF StreamCancelled, StreamDeadline, StreamIdle, StreamError, StreamUsageOverLimit, MalformedCalls
<1>2. StreamCancelled \/ StreamFails \/ Abort \/ (StreamRetryAllowed /\ StreamRetry)
  BY DEF StreamDeadline, StreamIdle, StreamError, StreamUsageOverLimit, MalformedCalls
<1> QED
  BY <1>1, <1>2, StreamEndsOK

(* An empty or a truncated response.                                        *)
LEMMA RetryOrFailOK ==
    ASSUME Typed, Running, UNCHANGED inputs, EmptyResponse \/ TruncatedResponse
    PROVE  Inv'
<1>1. PICK counter \in {"empty", "incomplete"}, kind \in RequestKinds, base \in {messages, WithPartialText(messages)} :
         RetryOrFail(counter, Retry(kind, <<NudgeMsg>>), base)
  <2>1. messages \in {messages, WithPartialText(messages)} /\ WithPartialText(messages) \in {messages, WithPartialText(messages)}
        /\ "empty_model_retry" \in RequestKinds /\ "incomplete_model_retry" \in RequestKinds
    BY DEF RequestKinds
  <2> HIDE DEF RequestKinds
  <2>2. CASE EmptyResponse
    BY <2>1, <2>2 DEF EmptyResponse
  <2>3. CASE TruncatedResponse
    BY <2>1, <2>3 DEF TruncatedResponse
  <2> QED
    BY <2>2, <2>3
<1>2. pc = "stream" /\ StreamFrame /\ UNCHANGED ingress /\ reply' = EmptyReply
  BY DEF EmptyResponse, TruncatedResponse
<1>3. CASE retries[counter] < MaxRetries
  <2>1. /\ retries' = [retries EXCEPT !.stream = 0,
                          !.empty = IF counter = "empty" THEN @ + 1 ELSE 0,
                          !.incomplete = IF counter = "incomplete" THEN @ + 1 ELSE @]
        /\ queue' = Append(queue, Retry(kind, <<NudgeMsg>>))
        /\ messages' = base /\ pc' = "loop"
        /\ UNCHANGED <<outcome, status, modelCalls, toolCalls>>
    BY <1>1, <1>3 DEF RetryOrFail
  <2>2. retries' \in [{"empty", "incomplete", "stream"} -> 0..MaxRetries]
    <3>1. retries \in [{"empty", "incomplete", "stream"} -> 0..MaxRetries] /\ MaxRetries \in Nat
      BY Bounds DEF Typed, TypeOK
    <3>2. /\ 0 \in 0..MaxRetries /\ retries.incomplete \in 0..MaxRetries
          /\ counter = "empty" => retries.empty + 1 \in 0..MaxRetries
          /\ counter = "incomplete" => retries.incomplete + 1 \in 0..MaxRetries
      BY <1>3, <3>1
    <3>3. PICK e \in 0..MaxRetries, i \in 0..MaxRetries :
             retries' = [retries EXCEPT !.stream = 0, !.empty = e, !.incomplete = i]
      <4>1. (IF counter = "empty" THEN retries.empty + 1 ELSE 0) \in 0..MaxRetries
        BY <3>2
      <4>2. (IF counter = "incomplete" THEN retries.incomplete + 1 ELSE retries.incomplete) \in 0..MaxRetries
        BY <3>2
      <4> QED
        BY <2>1, <3>1, <4>1, <4>2
    <3> QED
      BY <3>1, <3>2, <3>3
  <2> QED
    BY <1>2, <2>1, <2>2, RetryOK
<1>4. CASE ~(retries[counter] < MaxRetries)
  <2>1. End("failed", base \o DrainMaterialized(queue))
    BY <1>1, <1>4 DEF RetryOrFail
  <2>2. KeepsAtEnd /\ chan' = chan
    BY <1>2 DEF KeepsAtEnd, StreamFrame, ingress
  <2> QED
    BY <2>1, <2>2, EndOK
<1> QED
  BY <1>3, <1>4

(* The ingress is closed and drained.                                       *)
LEMMA ClosingDoneOK ==
    ASSUME Typed, Running, UNCHANGED inputs, ClosingDone
    PROVE  Inv'
<1>1. queue \in Seq(Requests) /\ chan = <<>> /\ Flow = queue /\ bridge = "idle" /\ pc = "closing"
  <2>1. queue \in Seq(Requests) /\ chan = <<>>
    BY DEF Typed, ClosingDone
  <2>2. queue \o <<>> = queue
    BY <2>1
  <2> QED
    BY <2>1, <2>2 DEF Flow, ClosingDone
<1>2. CASE queue # <<>>
  <2>1. /\ pc' = "loop" /\ UNCHANGED <<outcome, machine, queue, messages>>
        /\ UNCHANGED <<start, reminded, reply, tools, cancelled, ingress>>
    BY <1>2 DEF ClosingDone
  <2>2. Flow' = Flow /\ chan' = chan /\ chan \in Seq(Requests) /\ Len(chan) \in Nat /\ Len(chan) <= Len(chan)
    BY <2>1, Bounds DEF Flow, ingress, Typed
  <2>3. retries' \in [{"empty", "incomplete", "stream"} -> 0..MaxRetries] /\ closed' \in BOOLEAN
    BY <2>1 DEF machine, ingress, Typed, TypeOK
  <2> QED
    BY <1>1, <1>2, <2>1, <2>2, <2>3, FlowKept DEF machine, ingress
<1>3. CASE queue = <<>>
  <2>1. End("completed", messages) /\ UNCHANGED <<start, reminded, reply, tools, cancelled, ingress>>
    BY <1>3 DEF ClosingDone
  <2>2. KeepsAtEnd /\ chan' = chan
    BY <2>1 DEF KeepsAtEnd, ingress
  <2> QED
    BY <1>1, <1>3, <2>1, <2>2, CompletedOK
<1> QED
  BY <1>2, <1>3

(* The ends while tools are prepared or run.                                *)
LEMMA ToolsEndOK ==
    ASSUME Typed, Running, UNCHANGED inputs, ToolsCancelled \/ ToolsDeadline
    PROVE  Inv'
<1>1. KeepsAtEnd /\ chan' = chan
  BY DEF ToolsCancelled, ToolsDeadline, ToolsFrame, KeepsAtEnd, ingress
<1>2. CASE ToolsCancelled
  <2>1. End("cancelled", messages \o DrainMaterialized(AbortTurnScoped(queue)))
    BY <1>2 DEF ToolsCancelled, Cancelled
  <2> QED
    BY <1>1, <2>1, EndOK
<1>3. CASE ToolsDeadline
  <2>1. End("failed", messages \o DrainMaterialized(queue))
    BY <1>3 DEF ToolsDeadline, Drained
  <2> QED
    BY <1>1, <2>1, EndOK
<1> QED
  BY <1>2, <1>3

-----------------------------------------------------------------------------
(* The bridge.                                                              *)

(* What a step of the bridge has to show.                                   *)
LEMMA BridgeSteps ==
    ASSUME Typed, Running, pc # "end", UNCHANGED inputs, BridgeFrame,
           chan' \in Seq(Requests), Len(chan') <= Capacity, next' \in 1..(Len(inputs) + 1),
           bridge' \in {"idle", "permit", "consumed"}, consumed' \subseteq STRING,
           Order(messages, Flow'), \A c : Held(Flow', ResultMsg(c)) <=> Held(Flow, ResultMsg(c)),
           BridgeOK', ConsumedOK'
    PROVE  Inv'
<1>1. UNCHANGED <<pc, outcome, status, modelCalls, toolCalls, retries, start, queue, messages, reminded, reply,
                  proposed, schedule, wave, failures, cancelled, closed, inputs>>
  BY DEF BridgeFrame, machine, tools
<1>2. Typed'
  BY SMTT(40), <1>1 DEF Typed, TypeOK
<1>3. ControlOK' /\ FramesOK' /\ WaitingOK'
  BY <1>1 DEF Running, ControlOK, FramesOK, WaitingOK
<1>4. Order(messages, Flow)'
  BY <1>1 DEF Order, SameMode
<1>5. \A c : (Waits(c)' <=> Waits(c)) /\ (Known(ResultMsg(c))' <=> Known(ResultMsg(c)))
  BY <1>1 DEF Waits, Known
<1>6. ResultsOK'
  BY <1>1, <1>5 DEF Running, ResultsOK
<1> QED
  BY <1>1, <1>2, <1>3, <1>4, <1>6 DEF Inv, Running

(* The steps of the bridge.                                                 *)
LEMMA BridgeStepsOK ==
    ASSUME Typed, Running, UNCHANGED inputs, Bridge
    PROVE  Inv'
<1>1. /\ pc # "end" /\ BridgeFrame /\ chan \in Seq(Requests) /\ Len(chan) \in Nat /\ Len(chan) <= Capacity
      /\ Capacity \in Nat /\ next \in Nat /\ next >= 1 /\ Len(inputs) \in Nat /\ consumed \subseteq STRING
      /\ inputs \in Seq(STRING) /\ DOMAIN inputs = 1..Len(inputs) /\ \A i \in DOMAIN inputs : inputs[i] \in STRING
      /\ next \in 1..(Len(inputs) + 1)
  <2>1. pc # "end" /\ BridgeFrame
    BY DEF Bridge, BridgeReserve, BridgeConsume, BridgeSkip, BridgeSend
  <2>2. chan \in Seq(Requests) /\ consumed \subseteq STRING
    BY DEF Typed
  <2>3. /\ Len(chan) \in Nat /\ Len(chan) <= Capacity /\ Capacity \in Nat /\ next \in Nat /\ Len(inputs) \in Nat
    BY Bounds
  <2>4. next \in 1..(Len(inputs) + 1)
    BY DEF Typed, TypeOK
  <2>5. next >= 1
    BY <2>3, <2>4
  <2>6. inputs \in Seq(STRING) /\ \A i \in DOMAIN inputs : inputs[i] \in STRING
    BY InputsAre DEF Typed
  <2>7. DOMAIN inputs = 1..Len(inputs)
    BY <2>6
  <2> QED
    BY <2>1, <2>2, <2>3, <2>4, <2>5, <2>6, <2>7
<1>2. Order(messages, Flow) /\ BridgeOK /\ ConsumedOK
  BY DEF Running
<1>3. /\ \A n \in DOMAIN chan : \E i \in DOMAIN inputs : i < next /\ chan[n] = StepRequest(inputs[i])
      /\ \A i \in DOMAIN inputs : i >= next => ~Known(StepMsg(inputs[i]))
      /\ bridge # "idle" => next <= Len(inputs) /\ Len(chan) < Capacity
  BY <1>2 DEF BridgeOK
<1>4. \A s \in consumed : Known(StepMsg(s)) \/ (bridge = "consumed" /\ inputs[next] = s)
  BY <1>2 DEF ConsumedOK
<1>5. queue' = queue /\ messages' = messages
  BY <1>1 DEF BridgeFrame
<1>6. ASSUME chan' = chan PROVE Flow' = Flow /\ \A x : Known(x)' <=> Known(x)
  BY <1>5, <1>6 DEF Flow, Known
<1>7. CASE BridgeReserve
  <2>1. chan' = chan /\ next' = next /\ consumed' = consumed /\ bridge' = "permit" /\ bridge = "idle"
        /\ next <= Len(inputs) /\ Len(chan) < Capacity
    BY <1>7 DEF BridgeReserve
  <2>2. BridgeOK' /\ ConsumedOK'
    BY <1>3, <1>4, <1>6, <2>1 DEF BridgeOK, ConsumedOK
  <2> QED
    BY <1>1, <1>2, <1>6, <2>1, <2>2, BridgeSteps
<1>8. CASE BridgeConsume
  <2>1. chan' = chan /\ next' = next /\ consumed' = consumed \cup {inputs[next]} /\ bridge' = "consumed" /\ bridge = "permit"
    BY <1>8 DEF BridgeConsume
  <2>2. next <= Len(inputs) /\ next \in DOMAIN inputs
    BY <1>1, <1>3, <2>1
  <2>3. BridgeOK'
    BY <1>3, <1>6, <2>1 DEF BridgeOK
  <2>4. ConsumedOK'
    BY <1>4, <1>6, <2>1 DEF ConsumedOK
  <2>5. consumed' \subseteq STRING
    BY <1>1, <2>1, <2>2
  <2> QED
    BY <1>1, <1>2, <1>6, <2>1, <2>3, <2>4, <2>5, BridgeSteps
<1>9. CASE BridgeSkip
  <2>1. chan' = chan /\ next' = next + 1 /\ consumed' = consumed /\ bridge' = "idle" /\ bridge = "permit"
    BY <1>9 DEF BridgeSkip
  <2>2. next <= Len(inputs) /\ next + 1 \in 1..(Len(inputs) + 1)
    BY <1>1, <1>3, <2>1
  <2>3. \A i \in DOMAIN inputs : (i < next => i < next + 1) /\ (i >= next + 1 => i >= next)
    BY <1>1
  <2>4. BridgeOK'
    <3>1. \A n \in DOMAIN chan : \E i \in DOMAIN inputs : i < next + 1 /\ chan[n] = StepRequest(inputs[i])
      BY <1>3, <2>3
    <3> QED
      BY <1>3, <1>6, <2>1, <2>3, <3>1 DEF BridgeOK
  <2>5. ConsumedOK'
    BY <1>4, <1>6, <2>1 DEF ConsumedOK
  <2> QED
    BY <1>1, <1>2, <1>6, <2>1, <2>2, <2>4, <2>5, BridgeSteps
<1>10. CASE BridgeSend
  <2> DEFINE r == StepRequest(inputs[next])
  <2>1. chan' = Append(chan, r) /\ next' = next + 1 /\ consumed' = consumed /\ bridge' = "idle" /\ bridge = "consumed"
    BY <1>10 DEF BridgeSend
  <2>2. next <= Len(inputs) /\ next + 1 \in 1..(Len(inputs) + 1) /\ next \in DOMAIN inputs /\ Len(chan) < Capacity
    BY <1>1, <1>3, <2>1
  <2>3. messages \in Seq(Messages) /\ queue \in Seq(Requests) /\ Flow \in Seq(Requests) /\ inputs \in Inputs
    BY <1>2, FlowIs DEF Typed
  <2>4. /\ Append(Flow, r) \in Seq(Requests) /\ Order(messages, Append(Flow, r))
        /\ \A x : Held(Append(Flow, r), x) <=> Held(Flow, x) \/ x = StepMsg(inputs[next])
    BY <1>2, <1>3, <2>2, <2>3, OrderSends DEF Known
  <2>5. r \in Requests
    <3>1. StepMsg(inputs[next]) \in Messages
      BY <1>1, <2>2, MsgKinds
    <3>2. <<StepMsg(inputs[next])>> \in Seq(Messages)
      BY <3>1, OneIn
    <3> QED
      BY <3>2 DEF StepRequest, Request, Requests, RequestKinds, Admissions
  <2> HIDE DEF r
  <2>6. Flow' = Append(Flow, r)
    <3>1. queue \o Append(chan, r) = Append(queue \o chan, r)
      BY SMTT(40), <1>1, <2>3, <2>5
    <3> QED
      BY <1>5, <2>1, <3>1 DEF Flow
  <2>7. \A x : Known(x)' <=> Known(x) \/ x = StepMsg(inputs[next])
    BY <1>5, <2>4, <2>6 DEF Known
  <2>8. \A c : Held(Flow', ResultMsg(c)) <=> Held(Flow, ResultMsg(c))
    <3>1. \A c : ResultMsg(c) # StepMsg(inputs[next])
      BY MsgKinds
    <3> QED
      BY <2>4, <2>6, <3>1
  <2>9. PICK n \in Nat : n = Len(chan) /\ DOMAIN chan = 1..n
    BY <1>1
  <2>10. /\ chan' \in Seq(Requests) /\ Len(chan') = n + 1 /\ DOMAIN chan' = 1..(n + 1)
         /\ chan'[n + 1] = r /\ \A i \in 1..n : chan'[i] = chan[i]
    BY <1>1, <2>1, <2>5, <2>9
  <2>11. \A i \in 1..(n + 1) : i \in 1..n \/ i = n + 1
    BY ONLY n \in Nat
  <2>12. \A i \in DOMAIN inputs : /\ i < next => i < next + 1
                                  /\ i >= next + 1 => i >= next /\ i # next
    BY <1>1
  <2>13. BridgeOK'
    <3>1. \A m \in DOMAIN chan' : \E i \in DOMAIN inputs : i < next + 1 /\ chan'[m] = StepRequest(inputs[i])
      <4>1. ASSUME NEW m \in 1..n PROVE \E i \in DOMAIN inputs : i < next + 1 /\ chan'[m] = StepRequest(inputs[i])
        BY <1>3, <2>9, <2>10, <2>12
      <4>2. \E i \in DOMAIN inputs : i < next + 1 /\ chan'[n + 1] = StepRequest(inputs[i])
        <5>1. next < next + 1
          BY <1>1
        <5> QED
          BY <2>2, <2>10, <5>1 DEF r
      <4> QED
        BY <2>10, <2>11, <4>1, <4>2
    <3>2. \A i \in DOMAIN inputs : i >= next + 1 => ~Known(StepMsg(inputs[i]))'
      <4>1. ASSUME NEW i \in DOMAIN inputs, i >= next + 1 PROVE ~Known(StepMsg(inputs[i]))'
        <5>1. ~Known(StepMsg(inputs[i])) /\ i # next
          BY <1>3, <2>12, <4>1
        <5>2. StepMsg(inputs[i]) # StepMsg(inputs[next])
          BY <2>2, <2>3, <5>1, InputsAre, MsgKinds
        <5> QED
          BY <2>7, <5>1, <5>2
      <4> QED
        BY <4>1
    <3> QED
      BY <2>1, <3>1, <3>2 DEF BridgeOK
  <2>14. ConsumedOK'
    BY <1>4, <2>1, <2>7 DEF ConsumedOK
  <2>15. Len(chan') <= Capacity
    BY <1>1, <2>2, <2>9, <2>10
  <2>16. Order(messages, Flow') /\ next' \in 1..(Len(inputs) + 1) /\ bridge' \in {"idle", "permit", "consumed"}
         /\ consumed' \subseteq STRING
    BY <1>1, <2>1, <2>2, <2>4, <2>6
  <2> QED
    BY <1>1, <2>8, <2>10, <2>13, <2>14, <2>15, <2>16, BridgeSteps
<1> QED
  BY <1>7, <1>8, <1>9, <1>10 DEF Bridge

-----------------------------------------------------------------------------
(* The tools.                                                               *)

(* The calls of the response are numbered from the next one on.             *)
LEMMA CallsAre ==
    ASSUME Typed, Running, pc = "stream"
    PROVE  /\ reply.calls \in Seq(Proposals) /\ Len(reply.calls) \in Nat /\ proposed \in Nat
           /\ proposed + Len(reply.calls) \in Nat
           /\ DOMAIN reply.calls = 1..Len(reply.calls)
           /\ \A i \in DOMAIN reply.calls : reply.calls[i].id \in Nat
           /\ Calls(reply.calls) = Ids(reply.calls) /\ Ids(reply.calls) \in SUBSET Nat
           /\ Distinct(reply.calls)
           /\ \A c : c \in 1..(proposed + Len(reply.calls)) <=> c \in 1..proposed \/ c \in Ids(reply.calls)
           /\ \A c \in Ids(reply.calls) : c \notin 1..proposed
           /\ \A c : ~Waits(c)
<1>1. PICK p \in Seq(Proposals) : p = reply.calls
  BY DEF Typed
<1>2. PICK n \in Nat : n = Len(p) /\ DOMAIN p = 1..n
  OBVIOUS
<1>3. PICK b \in Nat : b = proposed
  BY DEF Typed
<1>4. \A i \in 1..n : p[i].id = b + i
  BY <1>1, <1>2, <1>3 DEF Running, WaitingOK
<1>5. Ids(p) = {b + i : i \in 1..n}
  BY <1>2, <1>4 DEF Ids
<1>6. \A c : c \in {b + i : i \in 1..n} => c \in Nat /\ c > b /\ c <= b + n
  OBVIOUS
<1>7. \A c \in Nat : c > b /\ c <= b + n => c \in {b + i : i \in 1..n}
  <2>1. ASSUME NEW c \in Nat, c > b, c <= b + n PROVE c \in {b + i : i \in 1..n}
    <3>1. c - b \in 1..n /\ c = b + (c - b)
      BY <2>1
    <3> QED
      BY <3>1
  <2> QED
    BY <2>1
<1>8. /\ \A c : c \in 1..(b + n) <=> c \in 1..b \/ c \in Ids(p)
      /\ \A c \in Ids(p) : c \notin 1..b
  BY SMTT(40), <1>5, <1>6, <1>7
<1>9. Distinct(p)
  <2>1. \A i, j \in 1..n : b + i = b + j => i = j
    OBVIOUS
  <2> QED
    BY <1>2, <1>4, <2>1 DEF Distinct
<1>10. Calls(p) = Ids(p) /\ Ids(p) \in SUBSET Nat
  BY <1>5, <1>6 DEF Calls, Ids
<1>11. \A c : ~Waits(c)
  BY DEF Running, WaitingOK, Waits, Ids
<1>12. b + n \in Nat /\ \A i \in 1..n : p[i].id \in Nat
  BY <1>4
<1> QED
  BY <1>1, <1>2, <1>3, <1>8, <1>9, <1>10, <1>11, <1>12

(* The calls of a response are recorded and their preparation starts.       *)
LEMMA RunToolsOK ==
    ASSUME Typed, Running, UNCHANGED inputs, RunTools
    PROVE  Inv'
<1>1. pc = "stream" /\ pc' = "prepare"
  BY DEF RunTools
<1> DEFINE ids == Ids(reply.calls)
           n   == Len(reply.calls)
<1>2. /\ reply.calls \in Seq(Proposals) /\ n \in Nat /\ proposed \in Nat /\ proposed + n \in Nat
      /\ Calls(reply.calls) = ids /\ ids \in SUBSET Nat /\ Distinct(reply.calls)
      /\ \A c : c \in 1..(proposed + n) <=> c \in 1..proposed \/ c \in ids
      /\ \A c \in ids : c \notin 1..proposed
      /\ \A c : ~Waits(c)
  BY <1>1, CallsAre
<1>3. n # 0 /\ reply.calls # <<>>
  BY <1>2 DEF RunTools
<1>4. /\ messages' = Append(messages, FrameMsg(ids)) /\ proposed' = proposed + n
      /\ retries' = ResetRetries /\ status' = "running_tool" /\ toolCalls' = toolCalls + 1
      /\ reply' = [reply EXCEPT !.text = "none"] /\ ~OverBudget
      /\ UNCHANGED <<outcome, modelCalls, start, queue, reminded, schedule, wave, failures,
                     cancelled, chan, closed, bridge, next, consumed, inputs>>
  BY <1>2 DEF RunTools, ingress
<1> HIDE DEF ids, n
<1>5. messages \in Seq(Messages) /\ Flow \in Seq(Requests) /\ inputs \in Inputs /\ Order(messages, Flow)
  BY FlowIs DEF Typed, Running
<1>6. FrameMsg(ids) \in Messages /\ FrameMsg(ids).k = "frame" /\ FrameMsg(ids).calls = ids
  BY <1>2, OwnMsgs
<1>7. /\ messages' \in Seq(Messages) /\ Order(messages', Flow)
      /\ \A s : In(messages', StepMsg(s)) <=> In(messages, StepMsg(s))
      /\ \A c : In(messages', ResultMsg(c)) <=> In(messages, ResultMsg(c))
      /\ \A c : Asked(messages', c) <=> Asked(messages, c) \/ c \in ids
  BY <1>4, <1>5, <1>6, OneSaid
<1>8. Flow' = Flow /\ /\ \A s : Known(StepMsg(s))' <=> Known(StepMsg(s))
                      /\ \A c : Known(ResultMsg(c))' <=> Known(ResultMsg(c))
  BY <1>4, <1>7 DEF Flow, Known
<1>9. reply' \in [text : {"none", "blank", "full"}, calls : Seq(Proposals)] /\ reply'.calls = reply.calls /\ reply'.text = "none"
  BY <1>4 DEF Typed
<1>10. toolCalls + n <= MaxToolCalls /\ toolCalls' <= MaxToolCalls /\ toolCalls' \in Nat /\ toolCalls' + (n - 1) <= MaxToolCalls
       /\ toolCalls' \in 0..(MaxToolCalls + 1)
  <2>1. toolCalls \in Nat /\ MaxToolCalls \in Nat /\ n \in Nat /\ n # 0 /\ ~(toolCalls + n > MaxToolCalls)
    BY <1>2, <1>3, <1>4, Bounds DEF OverBudget, n
  <2> QED
    BY <1>4, <2>1
<1>11. Typed'
  BY ZenonT(60), <1>1, <1>2, <1>4, <1>7, <1>9, <1>10, ResetOK DEF Typed, TypeOK
<1>12. ControlOK'
  BY <1>1, <1>4, <1>10 DEF Running, ControlOK
<1>13. Order(messages, Flow)' /\ BridgeOK' /\ ConsumedOK'
  <2>1. Order(messages, Flow)'
    BY <1>4, <1>7, <1>8 DEF Order, SameMode
  <2> QED
    BY <1>4, <1>8, <2>1 DEF Running, BridgeOK, ConsumedOK
<1>14. FramesOK'
  BY <1>2, <1>4, <1>7 DEF Running, FramesOK
<1>15. schedule = <<>> /\ wave = <<>>
  BY <1>1 DEF Running, WaitingOK
<1>16. \A c : Waits(c)' <=> c \in ids
  <2>1. Ids(<<>>) = {}
    BY DEF Ids
  <2> QED
    BY <1>1, <1>4, <1>9, <1>15, <2>1 DEF Waits, ids, Ids
<1>17. ResultsOK'
  BY <1>1, <1>2, <1>4, <1>8, <1>16 DEF Running, ResultsOK
<1>18. WaitingOK'
  <2>1. Ids(schedule') = {} /\ Distinct(schedule') /\ Distinct(wave')
    BY <1>4, <1>15 DEF Ids, Distinct
  <2>2. Distinct(reply'.calls) /\ reply'.calls # <<>> /\ toolCalls' + (Len(reply'.calls) - 1) <= MaxToolCalls
    BY <1>2, <1>3, <1>9, <1>10 DEF n
  <2> QED
    BY <1>1, <1>4, <1>9, <1>15, <2>1, <2>2 DEF WaitingOK, Ids
<1> QED
  BY <1>1, <1>11, <1>12, <1>13, <1>14, <1>17, <1>18 DEF Inv, Running

(* More calls than the budget has left: all are answered, the run pauses.   *)
LEMMA OverToolLimitOK ==
    ASSUME Typed, Running, UNCHANGED inputs, OverToolLimit
    PROVE  Inv'
<1>1. pc = "stream"
  BY DEF OverToolLimit
<1> DEFINE ids == Ids(reply.calls)
           n   == Len(reply.calls)
           m1  == Append(messages, FrameMsg(ids))
           rs  == [i \in DOMAIN reply.calls |-> ResultMsg(reply.calls[i].id)]
           m2  == m1 \o rs
           m3  == m2 \o DrainMaterialized(queue)
<1>2. /\ reply.calls \in Seq(Proposals) /\ n \in Nat /\ proposed \in Nat /\ proposed + n \in Nat
      /\ DOMAIN reply.calls = 1..n /\ \A i \in 1..n : reply.calls[i].id \in Nat
      /\ Calls(reply.calls) = ids /\ ids \in SUBSET Nat /\ Distinct(reply.calls)
      /\ \A c : c \in 1..(proposed + n) <=> c \in 1..proposed \/ c \in ids
      /\ \A c \in ids : c \notin 1..proposed
      /\ \A c : ~Waits(c)
  BY <1>1, CallsAre
<1>3. Valid(status, "awaiting_input")
  BY <1>1 DEF Running, ControlOK, Valid
<1>4. /\ pc' = "end" /\ outcome' = "awaiting_input" /\ messages' = m3 /\ queue' = <<>>
      /\ UNCHANGED <<modelCalls, toolCalls, retries>> /\ proposed' = proposed + n /\ reply' = EmptyReply
      /\ UNCHANGED <<start, reminded, schedule, wave, failures, cancelled, chan, closed, bridge, next, consumed>>
  BY <1>2, <1>3 DEF OverToolLimit, End, ingress
<1>5. /\ messages \in Seq(Messages) /\ Flow \in Seq(Requests) /\ inputs \in Inputs /\ Order(messages, Flow)
      /\ queue \in Seq(Requests) /\ chan \in Seq(Requests)
  BY FlowIs DEF Typed, Running
<1>6. /\ rs \in Seq(Messages) /\ DOMAIN rs = 1..n /\ \A i \in 1..n : rs[i] = ResultMsg(reply.calls[i].id)
  <2>1. \A i \in 1..n : ResultMsg(reply.calls[i].id) \in Messages
    BY <1>2, MsgKinds
  <2> DEFINE S == Messages
  <2>2. rs \in [1..n -> S]
    BY <1>2, <2>1
  <2>3. \A i \in 1..n : rs[i] = ResultMsg(reply.calls[i].id)
    BY <1>2
  <2> HIDE DEF S, rs, n
  <2>4. rs \in Seq(S) /\ DOMAIN rs = 1..n
    BY <1>2, <2>2
  <2> QED
    BY <2>3, <2>4 DEF S
<1> HIDE DEF rs, m3, m2, m1, ids, n
<1>7. \A x : In(rs, x) <=> \E c \in ids : x = ResultMsg(c)
  BY <1>2, <1>6 DEF In, ids, Ids
<1>8. FrameMsg(ids) \in Messages /\ FrameMsg(ids).k = "frame" /\ FrameMsg(ids).calls = ids
  BY <1>2, OwnMsgs
<1>9. /\ m1 \in Seq(Messages) /\ Order(m1, Flow)
      /\ \A s : In(m1, StepMsg(s)) <=> In(messages, StepMsg(s))
      /\ \A c : In(m1, ResultMsg(c)) <=> In(messages, ResultMsg(c))
      /\ \A c : Asked(m1, c) <=> Asked(messages, c) \/ c \in ids
  BY <1>5, <1>8, OneSaid DEF m1
<1>10. \A c \in Nat : c \in ids => ~Known(ResultMsg(c))
  BY <1>2 DEF Running, ResultsOK
<1>11. NewResults(rs, m1, Flow)
  <2>1. SUFFICES ASSUME NEW k \in 1..n
                 PROVE  /\ rs[k].k # "step" /\ ~In(m1, rs[k]) /\ ~Held(Flow, rs[k])
                        /\ \A l \in 1..n : rs[l] = rs[k] => l = k
    BY <1>6 DEF NewResults
  <2>2. rs[k] = ResultMsg(reply.calls[k].id) /\ reply.calls[k].id \in ids /\ reply.calls[k].id \in Nat
    BY <1>2, <1>6 DEF ids, Ids
  <2>3. \A l \in 1..n : rs[l] = rs[k] => l = k
    <3>1. SUFFICES ASSUME NEW l \in 1..n, rs[l] = rs[k] PROVE l = k
      OBVIOUS
    <3>2. rs[l] = ResultMsg(reply.calls[l].id)
      BY <1>6
    <3>3. reply.calls[l].id = reply.calls[k].id
      BY <2>2, <3>1, <3>2, MsgKinds
    <3>4. l \in DOMAIN reply.calls /\ k \in DOMAIN reply.calls /\ Distinct(reply.calls)
      BY <1>2
    <3> QED
      BY <3>3, <3>4 DEF Distinct
  <2> QED
    BY <1>9, <1>10, <2>2, <2>3, MsgKinds DEF Known
<1>12. m2 \in Seq(Messages) /\ Order(m2, Flow) /\ \A x : In(m2, x) <=> In(m1, x) \/ In(rs, x)
  BY <1>5, <1>6, <1>9, <1>11, OrderSays, InBoth DEF m2
<1>13. \A c : Asked(m2, c) <=> Asked(m1, c)
  <2>1. \A c : ~Asked(rs, c)
    BY <1>6, MsgKinds DEF Asked
  <2> QED
    BY <1>6, <1>9, <2>1, AskedBoth DEF m2
<1>14. Order(m2, queue)
  BY <1>5, <1>12, OrderFirst DEF Flow
<1>15. /\ m3 \in Seq(Messages) /\ Order(m3, <<>>)
       /\ \A x : In(m3, x) <=> In(m2, x) \/ Held(queue, x)
       /\ \A c : Asked(m3, c) <=> Asked(m2, c)
  BY <1>5, <1>12, <1>14, OrderDrained, AskedDrained DEF m3, Order
<1>16. Typed'
  <2>1. /\ <<>> \in Seq(Requests) /\ outcome' \in {"error", "cancelled"} \cup Outcomes
        /\ proposed' \in Nat /\ schedule' \in Seq(Tasks) /\ wave' \in Seq(Tasks) /\ failures' \in [Fingerprints -> Nat]
    BY <1>2, <1>4 DEF Typed, Outcomes
  <2> QED
    BY <1>4, <1>15, <2>1, EndTyped
<1>17. Order(messages, <<>>)' /\ toolCalls' <= MaxToolCalls
  <2>1. toolCalls' <= MaxToolCalls
    BY <1>4 DEF Running, ControlOK
  <2> QED
    BY <1>4, <1>15, <2>1 DEF Order, SameMode
<1>18. FramesOK'
  BY <1>2, <1>4, <1>9, <1>13, <1>15 DEF Running, FramesOK
<1>19. \A c \in 1..(proposed + n) : In(m3, ResultMsg(c))
  <2>1. ASSUME NEW c \in 1..proposed PROVE In(m3, ResultMsg(c))
    <3>1. c \in Nat /\ Known(ResultMsg(c)) /\ ~Held(Flow, ResultMsg(c))
      BY <1>1, <1>2 DEF Running, ResultsOK
    <3> QED
      BY <1>9, <1>12, <1>15, <3>1 DEF Known
  <2>2. ASSUME NEW c \in ids PROVE In(m3, ResultMsg(c))
    BY <1>7, <1>12, <1>15, <2>2
  <2> QED
    BY <1>2, <2>1, <2>2
<1>20. \A s \in consumed : \/ In(m3, StepMsg(s)) \/ Held(chan, StepMsg(s))
                           \/ (bridge = "consumed" /\ inputs[next] = s)
  <2>1. \A x : Held(Flow, x) <=> Held(queue, x) \/ Held(chan, x)
    BY FlowIs DEF Running
  <2> QED
    BY <1>9, <1>12, <1>15, <2>1 DEF Running, ConsumedOK, Known
<1>21. Over'
  BY <1>4, <1>17, <1>18, <1>19, <1>20 DEF Over, Outcomes
<1> QED
  BY <1>4, <1>16, <1>21 DEF Inv

(* A call is pushed to the schedule.                                        *)
LEMMA PushedIs ==
    ASSUME NEW s \in Seq(Tasks), Distinct(s), NEW t \in Tasks, t.id \notin Ids(s)
    PROVE  /\ Append(s, t) \in Seq(Tasks) /\ Distinct(Append(s, t))
           /\ Ids(Append(s, t)) = Ids(s) \cup {t.id}
<1>1. PICK n \in Nat : n = Len(s) /\ DOMAIN s = 1..n
  OBVIOUS
<1>2. PICK e \in Seq(Tasks) : /\ e = Append(s, t) /\ Len(e) = n + 1 /\ DOMAIN e = 1..(n + 1)
                              /\ e[n + 1] = t /\ \A i \in 1..n : e[i] = s[i]
  <2>1. Append(s, t) \in Seq(Tasks) /\ Len(Append(s, t)) = n + 1
    BY <1>1
  <2>2. DOMAIN Append(s, t) = 1..(n + 1)
    BY <1>1, <2>1
  <2>3. Append(s, t)[n + 1] = t /\ \A i \in 1..n : Append(s, t)[i] = s[i]
    BY <1>1
  <2> QED
    BY <2>1, <2>2, <2>3
<1>3. /\ \A i \in 1..(n + 1) : i \in 1..n \/ i = n + 1
      /\ \A i \in 1..n : i \in 1..(n + 1)
      /\ n + 1 \in 1..(n + 1)
  BY ONLY n \in Nat
<1>4. \A i \in 1..n : e[i].id \in Ids(s)
  BY <1>1, <1>2 DEF Ids
<1>5. Distinct(e)
  BY <1>1, <1>2, <1>3, <1>4 DEF Distinct
<1>6. Ids(e) = Ids(s) \cup {t.id}
  BY <1>1, <1>2, <1>3 DEF Ids
<1> QED
  BY <1>2, <1>5, <1>6

(* The first call of the response is prepared, the others are left.         *)
LEMMA HeadCall ==
    ASSUME NEW p \in Seq(Proposals), p # <<>>, Distinct(p)
    PROVE  /\ Head(p) \in Proposals /\ Tail(p) \in Seq(Proposals) /\ Distinct(Tail(p))
           /\ Ids(p) = Ids(Tail(p)) \cup {Head(p).id} /\ Head(p).id \notin Ids(Tail(p))
           /\ Len(p) \in Nat /\ Len(Tail(p)) = Len(p) - 1
           /\ Len(p) > 1 => Tail(p) # <<>>
           /\ ~(Len(p) > 1) => Tail(p) = <<>>
<1>1. PICK n \in Nat : n = Len(p) /\ n # 0 /\ DOMAIN p = 1..n
  OBVIOUS
<1>2. Head(p) = p[1] /\ Head(p) \in Proposals
  BY <1>1
<1>3. PICK t \in Seq(Proposals) : /\ t = Tail(p) /\ Len(t) = n - 1 /\ DOMAIN t = 1..(n - 1)
                                  /\ \A i \in 1..(n - 1) : t[i] = p[i + 1]
  <2>1. Tail(p) \in Seq(Proposals) /\ Len(Tail(p)) = n - 1
    BY <1>1
  <2>2. DOMAIN Tail(p) = 1..(n - 1)
    BY <2>1
  <2>3. \A i \in 1..(n - 1) : Tail(p)[i] = p[i + 1]
    BY <1>1
  <2> QED
    BY <2>1, <2>2, <2>3
<1>4. /\ \A i \in 1..n : i = 1 \/ (i - 1 \in 1..(n - 1) /\ (i - 1) + 1 = i)
      /\ \A i \in 1..(n - 1) : i + 1 \in 1..n /\ i + 1 # 1
      /\ \A i, j \in 1..(n - 1) : i + 1 = j + 1 => i = j
      /\ 1 \in 1..n
  BY <1>1
<1>5. Distinct(t)
  BY <1>1, <1>3, <1>4 DEF Distinct
<1>6. Ids(p) = Ids(t) \cup {p[1].id}
  <2>1. ASSUME NEW c \in Ids(p) PROVE c \in Ids(t) \cup {p[1].id}
    <3>1. PICK i \in 1..n : c = p[i].id
      BY <1>1 DEF Ids
    <3>2. i = 1 \/ (i - 1 \in 1..(n - 1) /\ t[i - 1] = p[i])
      BY <1>3, <1>4
    <3> QED
      BY <1>3, <3>1, <3>2 DEF Ids
  <2>2. ASSUME NEW c \in Ids(t) PROVE c \in Ids(p)
    <3>1. PICK i \in 1..(n - 1) : c = t[i].id
      BY <1>3 DEF Ids
    <3>2. i + 1 \in 1..n /\ t[i] = p[i + 1]
      BY <1>3, <1>4
    <3> QED
      BY <1>1, <3>1, <3>2 DEF Ids
  <2>3. p[1].id \in Ids(p)
    BY <1>1, <1>4 DEF Ids
  <2> QED
    BY <2>1, <2>2, <2>3
<1>7. p[1].id \notin Ids(t)
  BY <1>1, <1>3, <1>4 DEF Ids, Distinct
<1>8. (n > 1 => t # <<>>) /\ (~(n > 1) => t = <<>>)
  BY <1>1, <1>3
<1> QED
  BY <1>1, <1>2, <1>3, <1>5, <1>6, <1>7, <1>8

(* A call is prepared.                                                      *)
LEMMA PrepareOK ==
    ASSUME Typed, Running, UNCHANGED inputs, NEW claims \in ToolClaims, Prepare(claims)
    PROVE  Inv'
<1> DEFINE p == reply.calls
           c == Head(p)
           t == [id |-> c.id, fp |-> c.fp, claims |-> NormalizedClaims(claims)]
           pushed == Append(schedule, t)
<1>1. /\ pc = "prepare" /\ p \in Seq(Proposals) /\ p # <<>> /\ Distinct(p) /\ wave = <<>>
      /\ Ids(schedule) \cap Ids(p) = {} /\ Distinct(schedule) /\ schedule \in Seq(Tasks)
      /\ toolCalls + (Len(p) - 1) <= MaxToolCalls /\ reply.text = "none"
  BY DEF Prepare, Running, WaitingOK, Typed
<1>2. /\ c \in Proposals /\ Tail(p) \in Seq(Proposals) /\ Distinct(Tail(p))
      /\ Ids(p) = Ids(Tail(p)) \cup {c.id} /\ c.id \notin Ids(Tail(p))
      /\ Len(p) \in Nat /\ Len(Tail(p)) = Len(p) - 1
      /\ Len(p) > 1 => Tail(p) # <<>>
      /\ ~(Len(p) > 1) => Tail(p) = <<>>
  BY <1>1, HeadCall
<1>3. t \in Tasks /\ t.id = c.id
  BY <1>2 DEF Tasks, Proposals
<1>4. /\ reply' = [reply EXCEPT !.calls = Tail(p)]
      /\ UNCHANGED <<outcome, status, modelCalls, retries, start, queue, messages,
                     reminded, proposed, failures, cancelled, chan, closed, bridge, next, consumed, inputs>>
      /\ IF Len(p) > 1
         THEN toolCalls' = toolCalls + 1 /\ schedule' = pushed /\ UNCHANGED <<pc, wave>>
         ELSE /\ wave' = TakeReadyWave(pushed).ready /\ schedule' = TakeReadyWave(pushed).blocked
              /\ pc' = "wave" /\ UNCHANGED toolCalls
  BY DEF Prepare, ingress
<1> HIDE DEF p, c, t
<1>5. pushed \in Seq(Tasks) /\ Distinct(pushed) /\ Ids(pushed) = Ids(schedule) \cup {c.id}
  <2>1. t.id \notin Ids(schedule)
    BY <1>1, <1>2, <1>3
  <2> QED
    BY <1>1, <1>3, <2>1, PushedIs
<1> HIDE DEF pushed
<1>6. reply' \in [text : {"none", "blank", "full"}, calls : Seq(Proposals)] /\ reply'.calls = Tail(p) /\ reply'.text = "none"
  BY <1>1, <1>2, <1>4 DEF Typed
<1>7. Ids(<<>>) = {} /\ Distinct(<<>>)
  BY DEF Ids, Distinct
<1>8. \A x : Waits(x) <=> x \in Ids(schedule) \/ x \in Ids(p)
  BY <1>1, <1>7 DEF Waits, p
<1>9. /\ schedule' \in Seq(Tasks) /\ wave' \in Seq(Tasks) /\ pc' \in {"prepare", "wave"}
      /\ toolCalls' \in 0..(MaxToolCalls + 1) /\ toolCalls' <= MaxToolCalls
      /\ \A x : Waits(x)' <=> Waits(x)
      /\ WaitingOK'
  <2>1. CASE Len(p) > 1
    <3>1. toolCalls' = toolCalls + 1 /\ schedule' = pushed /\ pc' = "prepare" /\ wave' = <<>>
      BY <1>1, <1>4, <2>1
    <3>2. toolCalls' <= MaxToolCalls /\ toolCalls' \in 0..(MaxToolCalls + 1)
          /\ toolCalls' + (Len(Tail(p)) - 1) <= MaxToolCalls
      <4>1. toolCalls \in Nat /\ MaxToolCalls \in Nat
        BY Bounds
      <4> QED
        BY <1>1, <1>2, <2>1, <3>1, <4>1
    <3>3. \A x : Waits(x)' <=> Waits(x)
      BY <1>2, <1>5, <1>6, <1>7, <1>8, <3>1 DEF Waits
    <3>4. WaitingOK'
      BY <1>1, <1>2, <1>5, <1>6, <1>7, <2>1, <3>1, <3>2 DEF WaitingOK
    <3> QED
      BY <1>5, <1>1, <3>1, <3>2, <3>3, <3>4
  <2>2. CASE ~(Len(p) > 1)
    <3>1. /\ wave' = TakeReadyWave(pushed).ready /\ schedule' = TakeReadyWave(pushed).blocked
          /\ pc' = "wave" /\ toolCalls' = toolCalls /\ Tail(p) = <<>>
      BY <1>2, <1>4, <2>2
    <3>2. /\ wave' \in Seq(Tasks) /\ schedule' \in Seq(Tasks) /\ Distinct(wave') /\ Distinct(schedule')
          /\ Ids(wave') \cap Ids(schedule') = {} /\ Ids(wave') \cup Ids(schedule') = Ids(pushed)
      BY <1>5, <3>1, WaveSplits
    <3>3. toolCalls' <= MaxToolCalls /\ toolCalls' \in 0..(MaxToolCalls + 1)
      BY <3>1 DEF Running, ControlOK, Typed, TypeOK
    <3>4. \A x : Waits(x)' <=> Waits(x)
      BY <1>2, <1>5, <1>7, <1>8, <3>1, <3>2 DEF Waits
    <3>5. WaitingOK'
      BY <1>6, <3>1, <3>2 DEF WaitingOK
    <3> QED
      BY <3>1, <3>2, <3>3, <3>4, <3>5
  <2> QED
    BY <2>1, <2>2
<1>10. Flow' = Flow /\ \A x : Known(x)' <=> Known(x)
  BY <1>4 DEF Flow, Known
<1>11. Order(messages, Flow)'
  BY <1>4, <1>10 DEF Running, Order, SameMode
<1>12. ControlOK' /\ BridgeOK' /\ ConsumedOK' /\ FramesOK'
  BY <1>1, <1>4, <1>9, <1>10 DEF Running, ControlOK, BridgeOK, ConsumedOK, FramesOK
<1>13. ResultsOK'
  BY <1>1, <1>4, <1>9, <1>10 DEF Running, ResultsOK
<1>14. Typed'
  BY ZenonT(60), <1>4, <1>6, <1>9 DEF Typed, TypeOK
<1> QED
  BY <1>9, <1>11, <1>12, <1>13, <1>14 DEF Inv, Running

(* The answers of calls that wait join the queue.                           *)
LEMMA AnswersJoin ==
    ASSUME Typed, Running, NEW p \in Seq(Requests), Order(messages, p \o chan),
           NEW tasks \in Seq(Tasks), Distinct(tasks),
           \A c \in Ids(tasks) : ~In(messages, ResultMsg(c)) /\ ~Held(p \o chan, ResultMsg(c))
    PROVE  /\ p \o AnswersOf(tasks) \in Seq(Requests)
           /\ Order(messages, (p \o AnswersOf(tasks)) \o chan)
           /\ \A x : Held((p \o AnswersOf(tasks)) \o chan, x)
                        <=> Held(p \o chan, x) \/ \E c \in Ids(tasks) : x = ResultMsg(c)
           /\ \A x : Held(p \o AnswersOf(tasks), x) <=> Held(p, x) \/ \E c \in Ids(tasks) : x = ResultMsg(c)
<1>1. messages \in Seq(Messages) /\ chan \in Seq(Requests) /\ inputs \in Inputs
  BY DEF Typed
<1>2. PICK n \in Seq(Requests) : /\ n = AnswersOf(tasks) /\ NewRequests(n, messages, p \o chan)
                                 /\ \A x : Held(n, x) <=> \E c \in Ids(tasks) : x = ResultMsg(c)
  BY AnswersAre
<1>3. /\ Order(messages, (p \o n) \o chan)
      /\ \A x : Held((p \o n) \o chan, x) <=> Held(p \o chan, x) \/ Held(n, x)
  BY <1>1, <1>2, OrderJoins
<1>4. p \o n \in Seq(Requests) /\ \A x : Held(p \o n, x) <=> Held(p, x) \/ Held(n, x)
  BY InBoth
<1> QED
  BY <1>2, <1>3, <1>4

\* What is queued when the wave has come to these results.
Settled(results) == queue \o AnswersOf(results)

(* While tools run, the calls that wait have no answer, the others have one;*)
(* then those of these results have one too.                                *)
LEMMA SettledIs ==
    ASSUME Typed, Running, pc = "wave",
           NEW results \in Seq(Tasks), Distinct(results), Ids(results) \subseteq Ids(wave)
    PROVE  /\ Settled(results) \in Seq(Requests) /\ Order(messages, Settled(results) \o chan)
           /\ \A x : Held(Settled(results) \o chan, x)
                        <=> Held(Flow, x) \/ \E c \in Ids(results) : x = ResultMsg(c)
           /\ \A x : Held(Settled(results), x)
                        <=> Held(queue, x) \/ \E c \in Ids(results) : x = ResultMsg(c)
           /\ \A c : Waits(c) <=> c \in Ids(schedule) \/ c \in Ids(wave)
           /\ \A c : Waits(c) => c \in Nat /\ c \in 1..proposed /\ ~Known(ResultMsg(c))
           /\ \A c \in 1..proposed : Waits(c) \/ In(messages, ResultMsg(c)) \/ Held(queue, ResultMsg(c))
           /\ Ids(schedule) \cap Ids(wave) = {} /\ Distinct(schedule) /\ schedule \in Seq(Tasks)
<1>1. queue \in Seq(Requests) /\ chan \in Seq(Requests) /\ schedule \in Seq(Tasks) /\ wave \in Seq(Tasks)
  BY DEF Typed
<1>2. Flow = queue \o chan /\ Order(messages, queue \o chan)
  BY DEF Flow, Running
<1>3. \A c : Waits(c) <=> c \in Ids(schedule) \/ c \in Ids(wave)
  BY DEF Waits
<1>4. /\ \A i \in DOMAIN schedule : schedule[i].id \in Nat
      /\ \A i \in DOMAIN wave : wave[i].id \in Nat
  <2>1. (\A i \in DOMAIN schedule : schedule[i] \in Tasks) /\ (\A i \in DOMAIN wave : wave[i] \in Tasks)
    BY <1>1
  <2> QED
    BY <2>1 DEF Tasks
<1>5. \A c : Waits(c) => c \in Nat
  BY <1>3, <1>4 DEF Ids
<1>6. \A c : Waits(c) => c \in Nat /\ c \in 1..proposed /\ ~Known(ResultMsg(c))
  BY <1>5 DEF Running, ResultsOK
<1>7. \A c \in 1..proposed : Waits(c) \/ In(messages, ResultMsg(c)) \/ Held(queue, ResultMsg(c))
  <2>1. \A c \in 1..proposed : c \in Nat
    OBVIOUS
  <2>2. \A c \in 1..proposed : Waits(c) \/ Known(ResultMsg(c))
    BY <2>1 DEF Running, ResultsOK
  <2>3. \A c : Held(Flow, ResultMsg(c)) => Held(queue, ResultMsg(c))
    BY FlowIs DEF Running
  <2> QED
    BY <2>2, <2>3 DEF Known
<1>8. \A c \in Ids(results) : ~In(messages, ResultMsg(c)) /\ ~Held(queue \o chan, ResultMsg(c))
  BY <1>2, <1>3, <1>6 DEF Known
<1>9. /\ Settled(results) \in Seq(Requests) /\ Order(messages, Settled(results) \o chan)
      /\ \A x : Held(Settled(results) \o chan, x)
                   <=> Held(queue \o chan, x) \/ \E c \in Ids(results) : x = ResultMsg(c)
      /\ \A x : Held(Settled(results), x) <=> Held(queue, x) \/ \E c \in Ids(results) : x = ResultMsg(c)
  BY <1>1, <1>2, <1>8, AnswersJoin DEF Settled
<1>10. Ids(schedule) \cap Ids(wave) = {} /\ Distinct(schedule)
  BY DEF Running, WaitingOK
<1> QED
  BY <1>1, <1>2, <1>3, <1>6, <1>7, <1>9, <1>10

\* What a wave that came to its end leaves as it is.
KeepsSettled == UNCHANGED <<start, reminded, reply, proposed, cancelled, ingress, inputs>>

(* Calls of the wave stay open: the run pauses.                             *)
LEMMA WavePausedOK ==
    ASSUME Typed, Running, KeepsSettled, pc = "wave",
           NEW results \in Seq(Tasks), Distinct(results), Ids(results) \subseteq Ids(wave),
           NEW s \in {"awaiting_input", "awaiting_approval"}, \E c \in Ids(wave) : c \notin Ids(results),
           End(s, messages \o DrainMaterialized(Settled(results) \o DeferPending)),
           schedule' = <<>>, UNCHANGED wave, failures' \in [Fingerprints -> Nat]
    PROVE  Inv'
<1> DEFINE q1   == Settled(results)
           q2   == q1 \o DeferPending
           msgs == messages \o DrainMaterialized(q2)
<1>1. /\ messages \in Seq(Messages) /\ chan \in Seq(Requests) /\ inputs \in Inputs /\ wave \in Seq(Tasks)
      /\ UNCHANGED <<start, reminded, reply, proposed, cancelled, chan, closed, bridge, next, consumed, inputs>>
  BY DEF Typed, KeepsSettled, ingress
<1>2. /\ q1 \in Seq(Requests) /\ Order(messages, q1 \o chan)
      /\ \A x : Held(q1 \o chan, x) <=> Held(Flow, x) \/ \E c \in Ids(results) : x = ResultMsg(c)
      /\ \A x : Held(q1, x) <=> Held(queue, x) \/ \E c \in Ids(results) : x = ResultMsg(c)
      /\ \A c : Waits(c) <=> c \in Ids(schedule) \/ c \in Ids(wave)
      /\ \A c : Waits(c) => c \in Nat /\ c \in 1..proposed /\ ~Known(ResultMsg(c))
      /\ \A c \in 1..proposed : Waits(c) \/ In(messages, ResultMsg(c)) \/ Held(queue, ResultMsg(c))
      /\ Ids(schedule) \cap Ids(wave) = {} /\ Distinct(schedule) /\ schedule \in Seq(Tasks)
  BY SettledIs
<1>3. DeferPending = AnswersOf(schedule)
  BY DEF DeferPending, AnswersOf
<1> HIDE DEF q1
<1>4. \A c \in Ids(schedule) : ~In(messages, ResultMsg(c)) /\ ~Held(q1 \o chan, ResultMsg(c))
  <2>1. \A c \in Ids(schedule) : ~Known(ResultMsg(c)) /\ c \notin Ids(results)
    BY <1>2
  <2>2. \A c \in Ids(schedule) : \A d \in Ids(results) : ResultMsg(c) # ResultMsg(d)
    BY <2>1, MsgKinds
  <2> QED
    BY <1>2, <2>1, <2>2 DEF Known
<1>5. /\ q2 \in Seq(Requests) /\ Order(messages, q2 \o chan)
      /\ \A x : Held(q2, x) <=> Held(q1, x) \/ \E c \in Ids(schedule) : x = ResultMsg(c)
  BY <1>2, <1>3, <1>4, AnswersJoin
<1> HIDE DEF q2
<1>6. Order(messages, q2)
  BY <1>1, <1>5, OrderFirst
<1>7. /\ msgs \in Seq(Messages) /\ Order(msgs, <<>>)
      /\ \A x : In(msgs, x) <=> In(messages, x) \/ Held(q2, x)
      /\ \A c : Asked(msgs, c) <=> Asked(messages, c)
  BY <1>1, <1>5, <1>6, OrderDrained, AskedDrained DEF Order
<1>8. Valid(status, s)
  BY DEF Running, ControlOK, Valid
<1>9. /\ pc' = "end" /\ outcome' = s /\ messages' = msgs /\ queue' = <<>>
      /\ UNCHANGED <<modelCalls, toolCalls, retries>>
  BY <1>8 DEF End, msgs, q2, q1
<1> HIDE DEF msgs
<1>10. Typed'
  <2>1. <<>> \in Seq(Requests) /\ <<>> \in Seq(Tasks) /\ outcome' \in {"error", "cancelled"} \cup Outcomes
        /\ proposed' \in Nat
    BY <1>1, <1>9 DEF Outcomes, Typed
  <2> QED
    BY <1>1, <1>7, <1>9, <2>1, EndTyped
<1>11. Order(messages, <<>>)' /\ FramesOK' /\ toolCalls' <= MaxToolCalls
  BY <1>1, <1>7, <1>9 DEF Order, SameMode, Running, FramesOK, ControlOK
<1>12. \A c \in 1..proposed : In(msgs, ResultMsg(c)) \/ c \in Ids(wave)
  BY <1>2, <1>5, <1>7
<1>13. \E c \in 1..proposed : ~In(msgs, ResultMsg(c))
  <2>1. PICK c \in Ids(wave) : c \notin Ids(results)
    OBVIOUS
  <2>2. c \in 1..proposed /\ ~Known(ResultMsg(c)) /\ c \notin Ids(schedule)
    BY <1>2, <2>1
  <2>3. \A d : ResultMsg(c) = ResultMsg(d) => c = d
    BY MsgKinds
  <2>4. ~Held(queue, ResultMsg(c)) /\ ~In(messages, ResultMsg(c))
    BY <2>2, FlowIs DEF Known, Running
  <2>5. ~In(msgs, ResultMsg(c))
    BY <1>2, <1>5, <1>7, <2>1, <2>2, <2>3, <2>4
  <2> QED
    BY <2>2, <2>5
<1>14. \A t \in consumed : \/ In(msgs, StepMsg(t)) \/ Held(chan, StepMsg(t))
                           \/ (bridge = "consumed" /\ inputs[next] = t)
  <2>1. \A x : Held(Flow, x) <=> Held(queue, x) \/ Held(chan, x)
    BY FlowIs DEF Running
  <2> QED
    BY <1>2, <1>5, <1>7, <2>1 DEF Running, ConsumedOK, Known
<1>15. Over'
  BY <1>1, <1>9, <1>11, <1>12, <1>13, <1>14 DEF Over, Outcomes
<1> QED
  BY <1>9, <1>10, <1>15 DEF Inv

(* A failure repeated too often: the run fails with what was answered.      *)
LEMMA WaveFailedOK ==
    ASSUME Typed, Running, KeepsSettled, pc = "wave",
           NEW results \in Seq(Tasks), Distinct(results), Ids(results) \subseteq Ids(wave),
           End("failed", messages \o DrainMaterialized(Settled(results))),
           UNCHANGED <<schedule, wave>>, failures' \in [Fingerprints -> Nat]
    PROVE  Inv'
<1> DEFINE q1   == Settled(results)
           msgs == messages \o DrainMaterialized(q1)
<1>1. /\ messages \in Seq(Messages) /\ chan \in Seq(Requests) /\ inputs \in Inputs /\ wave \in Seq(Tasks)
      /\ UNCHANGED <<start, reminded, reply, proposed, cancelled, chan, closed, bridge, next, consumed, inputs>>
  BY DEF Typed, KeepsSettled, ingress
<1>2. /\ q1 \in Seq(Requests) /\ Order(messages, q1 \o chan)
      /\ \A x : Held(q1, x) <=> Held(queue, x) \/ \E c \in Ids(results) : x = ResultMsg(c)
  BY SettledIs
<1> HIDE DEF q1
<1>3. Order(messages, q1)
  BY <1>1, <1>2, OrderFirst
<1>4. /\ msgs \in Seq(Messages) /\ Order(msgs, <<>>)
      /\ \A x : In(msgs, x) <=> In(messages, x) \/ Held(q1, x)
      /\ \A c : Asked(msgs, c) <=> Asked(messages, c)
  BY <1>1, <1>2, <1>3, OrderDrained, AskedDrained DEF Order
<1>5. End("failed", msgs)
  BY DEF q1
<1> HIDE DEF msgs
<1>6. \A t \in consumed : \/ In(msgs, StepMsg(t)) \/ Held(chan', StepMsg(t))
                          \/ (bridge = "consumed" /\ inputs[next] = t)
  <2>1. \A x : Held(Flow, x) <=> Held(queue, x) \/ Held(chan, x)
    BY FlowIs DEF Running
  <2> QED
    BY <1>1, <1>2, <1>4, <2>1 DEF Running, ConsumedOK, Known
<1>7. Over' /\ pc' = "end" /\ outcome' = "failed" /\ messages' = msgs /\ queue' = <<>>
      /\ UNCHANGED <<modelCalls, toolCalls, retries>>
  BY <1>1, <1>4, <1>5, <1>6, Ended
<1>8. Typed'
  <2>1. <<>> \in Seq(Requests) /\ outcome' \in {"error", "cancelled"} \cup Outcomes
        /\ proposed' \in Nat /\ schedule' \in Seq(Tasks) /\ wave' \in Seq(Tasks)
    BY <1>1, <1>7 DEF Outcomes, Typed
  <2> QED
    BY <1>1, <1>4, <1>7, <2>1, EndTyped
<1> QED
  BY <1>7, <1>8 DEF Inv

(* All of the wave is answered: the run goes on with what is scheduled.     *)
LEMMA WaveGoesOnOK ==
    ASSUME Typed, Running, KeepsSettled, pc = "wave", pc' \in {"wave", "loop"},
           status' = (IF pc' = "wave" THEN "running_tool" ELSE "calling_model"),
           UNCHANGED <<outcome, modelCalls, toolCalls, retries, messages>>,
           queue' \in Seq(Requests), Order(messages, Flow'),
           \A x : Held(Flow', x) <=> Held(Flow, x) \/ \E c \in Ids(wave) : x = ResultMsg(c),
           schedule' \in Seq(Tasks), wave' \in Seq(Tasks), Distinct(schedule'), Distinct(wave'),
           Ids(wave') \cap Ids(schedule') = {}, Ids(wave') \cup Ids(schedule') = Ids(schedule),
           pc' = "loop" => queue' # <<>> /\ schedule' = <<>> /\ wave' = <<>>,
           failures' \in [Fingerprints -> Nat], \A f \in Fingerprints : failures'[f] < RepeatedFailures
    PROVE  Inv'
<1>1. UNCHANGED <<start, reminded, reply, proposed, cancelled, chan, closed, bridge, next, consumed, inputs>>
  BY DEF KeepsSettled, ingress
<1>2. Typed'
  BY SMTT(40), <1>1 DEF Typed, TypeOK
<1>3. ControlOK'
  BY <1>1 DEF Running, ControlOK
<1>4. Order(messages, Flow)'
  BY <1>1 DEF Order, SameMode
<1>5. /\ \A s : Known(StepMsg(s))' <=> Known(StepMsg(s))
      /\ \A c : Known(ResultMsg(c))' <=> Known(ResultMsg(c)) \/ c \in Ids(wave)
  <2>1. \A s, c : StepMsg(s) # ResultMsg(c)
    BY MsgKinds
  <2>2. \A c : (\E d \in Ids(wave) : ResultMsg(c) = ResultMsg(d)) <=> c \in Ids(wave)
    BY MsgKinds
  <2> QED
    BY <2>1, <2>2 DEF Known
<1>6. BridgeOK' /\ ConsumedOK'
  BY <1>1, <1>5 DEF Running, BridgeOK, ConsumedOK
<1>7. FramesOK'
  BY <1>1 DEF Running, FramesOK
<1>8. reply.calls = <<>> /\ reply.text = "none"
  BY DEF Running, WaitingOK
<1>9. WaitingOK'
  BY <1>1, <1>8 DEF WaitingOK
<1>10. /\ \A c : Waits(c) <=> c \in Ids(schedule) \/ c \in Ids(wave)
       /\ \A c : Waits(c)' <=> c \in Ids(schedule)
  BY DEF Waits
<1>11. Ids(schedule) \cap Ids(wave) = {}
  BY DEF Running, WaitingOK
<1>12. ResultsOK'
  BY <1>1, <1>5, <1>10, <1>11 DEF Running, ResultsOK
<1> QED
  BY <1>2, <1>3, <1>4, <1>6, <1>7, <1>9, <1>12 DEF Inv, Running

(* The next wave starts.                                                    *)
LEMMA WaveNextOK ==
    ASSUME Typed, Running, KeepsSettled, pc = "wave",
           NEW results \in Seq(Tasks), Distinct(results), Ids(results) = Ids(wave),
           queue' = Settled(results), wave' = TakeReadyWave(schedule).ready,
           schedule' = TakeReadyWave(schedule).blocked, UNCHANGED <<pc, outcome, machine, messages>>,
           failures' \in [Fingerprints -> Nat], \A f \in Fingerprints : failures'[f] < RepeatedFailures
    PROVE  Inv'
<1>1. /\ Settled(results) \in Seq(Requests) /\ Order(messages, Settled(results) \o chan)
      /\ \A x : Held(Settled(results) \o chan, x) <=> Held(Flow, x) \/ \E c \in Ids(results) : x = ResultMsg(c)
      /\ Distinct(schedule) /\ schedule \in Seq(Tasks)
  BY SettledIs
<1>2. Flow' = Settled(results) \o chan
  BY DEF Flow, KeepsSettled, ingress
<1>3. /\ wave' \in Seq(Tasks) /\ schedule' \in Seq(Tasks) /\ Distinct(wave') /\ Distinct(schedule')
      /\ Ids(wave') \cap Ids(schedule') = {} /\ Ids(wave') \cup Ids(schedule') = Ids(schedule)
  BY <1>1, WaveSplits
<1>4. status' = "running_tool" /\ UNCHANGED <<outcome, modelCalls, toolCalls, retries, messages>> /\ pc' = "wave"
  BY DEF machine, Running, ControlOK
<1> QED
  BY <1>1, <1>2, <1>3, <1>4, WaveGoesOnOK

(* The last wave is over: the model is called again.                        *)
LEMMA WaveDoneOK ==
    ASSUME Typed, Running, KeepsSettled, pc = "wave",
           NEW results \in Seq(Tasks), Distinct(results), Ids(results) = Ids(wave), schedule = <<>>,
           queue' = Append(Settled(results), Continuation("tool_results_ready")),
           status' = "calling_model", pc' = "loop", wave' = <<>>,
           UNCHANGED <<outcome, modelCalls, toolCalls, retries, messages, schedule>>,
           failures' \in [Fingerprints -> Nat], \A f \in Fingerprints : failures'[f] < RepeatedFailures
    PROVE  Inv'
<1> DEFINE q1 == Settled(results)
           r  == Continuation("tool_results_ready")
<1>1. /\ q1 \in Seq(Requests) /\ Order(messages, q1 \o chan)
      /\ \A x : Held(q1 \o chan, x) <=> Held(Flow, x) \/ \E c \in Ids(results) : x = ResultMsg(c)
  BY SettledIs
<1>2. messages \in Seq(Messages) /\ chan \in Seq(Requests) /\ inputs \in Inputs /\ chan' = chan
  BY DEF Typed, KeepsSettled, ingress
<1>3. r \in Requests /\ r.msgs = <<>>
  <2>1. <<>> \in Seq(Messages)
    OBVIOUS
  <2> QED
    BY <2>1 DEF Continuation, Request, Requests, RequestKinds, Admissions
<1>4. queue' = Append(q1, r)
  OBVIOUS
<1> HIDE DEF q1, r
<1>5. PICK n \in Seq(Requests) : n = <<r>> /\ DOMAIN n = 1..1 /\ n[1] = r /\ queue' = q1 \o n
  <2>1. <<r>> \in Seq(Requests) /\ DOMAIN <<r>> = 1..1 /\ <<r>>[1] = r
    BY <1>3, OneIn
  <2>2. queue' = q1 \o <<r>>
    <3>1. Append(q1, r) = q1 \o <<r>>
      BY <1>1, <1>3, AppendJoins
    <3> QED
      BY <1>4, <3>1
  <2> QED
    BY <2>1, <2>2
<1>6. \A i \in 1..1 : i = 1
  OBVIOUS
<1>7. Len(<<>>) = 0 /\ 0 <= 1 /\ \A x : <<>> # <<x>>
  OBVIOUS
<1>8. NewRequests(n, messages, q1 \o chan)
  BY <1>3, <1>5, <1>6, <1>7 DEF NewRequests, Plain
<1>9. \A x : ~Held(n, x)
  BY <1>3, <1>5, <1>6, <1>7 DEF Held
<1>10. Flow' = (q1 \o n) \o chan
  BY <1>2, <1>5 DEF Flow
<1>11. Order(messages, Flow') /\ \A x : Held(Flow', x) <=> Held(q1 \o chan, x) \/ Held(n, x)
  BY <1>1, <1>2, <1>8, <1>10, OrderJoins
<1>12. \A x : Held(Flow', x) <=> Held(Flow, x) \/ \E c \in Ids(wave) : x = ResultMsg(c)
  BY <1>1, <1>9, <1>11
<1>13. queue' \in Seq(Requests) /\ queue' # <<>>
  <2>1. Append(q1, r) \in Seq(Requests) /\ Append(q1, r) # <<>>
    BY <1>1, <1>3
  <2> QED
    BY <1>4, <2>1
<1>14. <<>> \in Seq(Tasks) /\ Ids(<<>>) = {} /\ Distinct(<<>>)
  BY DEF Ids, Distinct
<1> QED
  BY <1>11, <1>12, <1>13, <1>14, WaveGoesOnOK

(* join_all returned.                                                       *)
LEMMA WaveSettledOK ==
    ASSUME Typed, Running, UNCHANGED inputs, NEW outcomes \in [DOMAIN wave -> Results], WaveSettled(outcomes)
    PROVE  Inv'
<1> DEFINE s == Settle(outcomes)
<1>1. KeepsSettled /\ pc = "wave" /\ failures' = s.failures
  BY DEF WaveSettled, KeepsSettled
<1>2. PICK results \in Seq(Tasks) :
         /\ Distinct(results) /\ Ids(results) \subseteq Ids(wave)
         /\ s.queue = Settled(results)
         /\ s.failures \in [Fingerprints -> Nat]
         /\ s.paused = "no" => Ids(results) = Ids(wave)
         /\ s.paused # "no" =>
               /\ s.paused \in {"awaiting_input", "awaiting_approval"}
               /\ \E c \in Ids(wave) : c \notin Ids(results)
         /\ (~s.repeated /\ \A f \in Fingerprints : failures[f] < RepeatedFailures)
               => \A f \in Fingerprints : s.failures[f] < RepeatedFailures
  <2>1. Distinct(wave)
    BY DEF Running, WaitingOK
  <2> HIDE DEF s
  <2> QED
    BY <2>1, SettleIs DEF Settled, s
<1>3. \A f \in Fingerprints : failures[f] < RepeatedFailures
  BY DEF Running, ControlOK
<1>4. \/ /\ s.paused # "no"
         /\ End(s.paused, messages \o DrainMaterialized(s.queue \o DeferPending))
         /\ schedule' = <<>> /\ UNCHANGED wave
      \/ /\ s.paused = "no" /\ s.repeated
         /\ End("failed", messages \o DrainMaterialized(s.queue))
         /\ UNCHANGED <<schedule, wave>>
      \/ /\ s.paused = "no" /\ ~s.repeated /\ schedule # <<>>
         /\ queue' = s.queue
         /\ wave' = TakeReadyWave(schedule).ready
         /\ schedule' = TakeReadyWave(schedule).blocked
         /\ UNCHANGED <<pc, outcome, machine, messages>>
      \/ /\ s.paused = "no" /\ ~s.repeated /\ schedule = <<>>
         /\ queue' = Append(s.queue, Continuation("tool_results_ready"))
         /\ status' = "calling_model" /\ pc' = "loop" /\ wave' = <<>>
         /\ UNCHANGED <<outcome, modelCalls, toolCalls, retries, messages, schedule>>
  BY DEF WaveSettled
<1> HIDE DEF s
<1>5. failures' \in [Fingerprints -> Nat]
  BY <1>1, <1>2
<1>6. ~s.repeated => \A f \in Fingerprints : failures'[f] < RepeatedFailures
  BY <1>1, <1>2, <1>3
<1>7. CASE /\ s.paused # "no"
           /\ End(s.paused, messages \o DrainMaterialized(s.queue \o DeferPending))
           /\ schedule' = <<>> /\ UNCHANGED wave
  BY <1>1, <1>2, <1>5, <1>7, WavePausedOK
<1>8. CASE /\ s.paused = "no" /\ s.repeated
           /\ End("failed", messages \o DrainMaterialized(s.queue))
           /\ UNCHANGED <<schedule, wave>>
  BY <1>1, <1>2, <1>5, <1>8, WaveFailedOK
<1>9. CASE /\ s.paused = "no" /\ ~s.repeated /\ schedule # <<>>
           /\ queue' = s.queue
           /\ wave' = TakeReadyWave(schedule).ready
           /\ schedule' = TakeReadyWave(schedule).blocked
           /\ UNCHANGED <<pc, outcome, machine, messages>>
  BY <1>1, <1>2, <1>5, <1>6, <1>9, WaveNextOK
<1>10. CASE /\ s.paused = "no" /\ ~s.repeated /\ schedule = <<>>
            /\ queue' = Append(s.queue, Continuation("tool_results_ready"))
            /\ status' = "calling_model" /\ pc' = "loop" /\ wave' = <<>>
            /\ UNCHANGED <<outcome, modelCalls, toolCalls, retries, messages, schedule>>
  BY <1>1, <1>2, <1>5, <1>6, <1>10, WaveDoneOK
<1> QED
  BY <1>4, <1>7, <1>8, <1>9, <1>10

-----------------------------------------------------------------------------
(* The invariant.                                                           *)

(* A run that is over stays as it is.                                       *)
LEMMA NothingAfterEnd ==
    ASSUME pc = "end", [Next]_vars
    PROVE  UNCHANGED vars
<1>1. ~Runner
  BY DEF Runner, LoopStops, LoopOverLimit, LoopCallModel, StartCancelled, StartTimeout, ProviderStream,
         ProviderRejectsMedia, ProviderOverflow, ProviderRetry, ProviderError, StreamCancelled, StreamDeadline,
         StreamIdle, StreamError, EmptyResponse, TruncatedResponse, FinalResponse, ClosingReceive, ClosingDone,
         MalformedCalls, OverToolLimit, RunTools, Prepare, ToolsCancelled, ToolsDeadline, WaveSettled
<1>2. ~StreamEvent
  BY DEF StreamEvent, StreamText, StreamCall, StreamIngress, StreamUsageOverLimit
<1>3. ~Bridge /\ ~Cancel
  BY DEF Bridge, BridgeReserve, BridgeConsume, BridgeSkip, BridgeSend, Cancel
<1> QED
  BY <1>1, <1>2, <1>3 DEF Next

(* Every step of the runner keeps it.                                       *)
LEMMA RunnerOK ==
    ASSUME Typed, Running, UNCHANGED inputs, Runner
    PROVE  Inv'
<1>1. CASE LoopStops \/ LoopOverLimit
  BY <1>1, LoopEndsOK
<1>2. CASE LoopCallModel
  BY <1>2, LoopCallModelOK
<1>3. CASE StartCancelled \/ StartTimeout \/ ProviderError
  BY <1>3, StartEndsOK
<1>4. CASE ProviderStream \/ ProviderRejectsMedia \/ ProviderOverflow \/ ProviderRetry
  BY <1>4, ProviderOK
<1>5. CASE StreamCancelled \/ StreamDeadline \/ StreamIdle \/ StreamError \/ MalformedCalls
  BY <1>5, StreamOverOK
<1>6. CASE EmptyResponse \/ TruncatedResponse
  BY <1>6, RetryOrFailOK
<1>7. CASE FinalResponse
  BY <1>7, FinalResponseOK
<1>8. CASE ClosingReceive
  BY <1>8, ClosingReceiveOK
<1>9. CASE ClosingDone
  BY <1>9, ClosingDoneOK
<1>10. CASE OverToolLimit
  BY <1>10, OverToolLimitOK
<1>11. CASE RunTools
  BY <1>11, RunToolsOK
<1>12. ASSUME NEW c \in ToolClaims, Prepare(c) PROVE Inv'
  BY <1>12, PrepareOK
<1>13. CASE ToolsCancelled \/ ToolsDeadline
  BY <1>13, ToolsEndOK
<1>14. ASSUME NEW o \in [DOMAIN wave -> Results], WaveSettled(o) PROVE Inv'
  BY <1>14, WaveSettledOK
<1> QED
  BY <1>1, <1>2, <1>3, <1>4, <1>5, <1>6, <1>7, <1>8, <1>9, <1>10, <1>11, <1>12, <1>13, <1>14 DEF Runner

(* Every step keeps it.                                                     *)
LEMMA NextOK ==
    ASSUME Inv, [Next]_vars
    PROVE  Inv'
<1>1. CASE UNCHANGED vars
  <2>1. UNCHANGED <<pc, outcome, status, modelCalls, toolCalls, retries, start, queue, messages, reminded, reply,
                    proposed, schedule, wave, failures, cancelled, chan, closed, bridge, next, consumed, inputs>>
    BY <1>1 DEF vars, machine, tools, ingress
  <2>2. Typed'
    BY SMTT(40), <2>1 DEF Inv, Typed, TypeOK
  <2>3. CASE pc # "end"
    <3>1. Running'
      BY <2>1, <2>3, Same DEF Inv
    <3> QED
      BY <2>1, <2>2, <2>3, <3>1 DEF Inv
  <2>4. CASE pc = "end"
    <3>1. Over
      BY <2>4 DEF Inv
    <3>2. Order(messages, <<>>)' /\ FramesOK'
      BY <2>1, <3>1 DEF Over, Order, SameMode, FramesOK
    <3>3. Over'
      BY <2>1, <3>1, <3>2 DEF Over
    <3> QED
      BY <2>1, <2>2, <2>4, <3>3 DEF Inv
  <2> QED
    BY <2>3, <2>4
<1>2. CASE Next /\ pc # "end"
  <2>1. Typed /\ Running /\ UNCHANGED inputs
    BY <1>2 DEF Inv, Next
  <2>2. CASE Runner
    BY <2>1, <2>2, RunnerOK
  <2>3. CASE Bridge
    BY <2>1, <2>3, BridgeStepsOK
  <2>4. CASE Cancel
    BY <2>1, <2>4, CancelOK
  <2>5. ASSUME NEW t \in {"blank", "full"}, StreamText(t) PROVE Inv'
    BY <2>1, <2>5, StreamTextOK
  <2>6. ASSUME NEW f \in Fingerprints, NEW m \in BOOLEAN, StreamCall(f, m) PROVE Inv'
    BY <2>1, <2>6, StreamCallOK
  <2>7. CASE StreamIngress
    BY <2>1, <2>7, StreamIngressOK
  <2>8. CASE StreamUsageOverLimit
    BY <2>1, <2>8, StreamOverOK
  <2> QED
    BY <1>2, <2>2, <2>3, <2>4, <2>5, <2>6, <2>7, <2>8 DEF Next, StreamEvent
<1> QED
  BY <1>1, <1>2, NothingAfterEnd

(* The runner always satisfies the invariant: the turn machine and the      *)
(* runner agree, every call and every consumed input is somewhere.          *)
THEOREM AgentRunnerInvariant == Spec => []Inv
<1>1. Init => Inv
  BY InitOK
<1>2. Inv /\ [Next]_vars => Inv'
  BY NextOK
<1> QED
  BY <1>1, <1>2, PTL DEF Spec

-----------------------------------------------------------------------------
(* What it says.                                                            *)

(* A set whose elements are all the same has one at most.                   *)
LEMMA AtMostOne ==
    ASSUME NEW S, \A x, y \in S : x = y
    PROVE  Cardinality(S) <= 1
<1>1. CASE S = {}
  <2>1. Cardinality(S) = 0
    BY <1>1, FS_EmptySet
  <2> QED
    BY <2>1
<1>2. CASE S # {}
  <2>1. PICK x \in S : S = {x}
    BY <1>2
  <2>2. Cardinality({x}) = 1
    BY FS_Singleton
  <2> QED
    BY <2>1, <2>2
<1> QED
  BY <1>1, <1>2

(* The conversation in the words of the properties.                         *)
LEMMA ConversationIs ==
    ASSUME Inv
    PROVE  /\ messages \in Seq(Messages) /\ inputs \in Inputs /\ DOMAIN messages \in SUBSET Nat
           /\ \E q : Order(messages, q)
           /\ \A c : c \in Framed <=> c \in 1..proposed
           /\ \A c : c \in Unanswered <=> c \in 1..proposed /\ ~In(messages, ResultMsg(c))
           /\ \A s : Occurrences(s) # {} <=> In(messages, StepMsg(s))
           /\ pc # "end" => outcome = "none"
<1>1. messages \in Seq(Messages) /\ inputs \in Inputs
  BY DEF Inv, Typed
<1>2. DOMAIN messages \in SUBSET Nat
  BY <1>1
<1>3. (\E q : Order(messages, q)) /\ FramesOK
  BY DEF Inv, Running, Over
<1>4. \A c : c \in Framed <=> Asked(messages, c)
  BY DEF Framed, Asked
<1>5. \A c : c \in Framed <=> c \in 1..proposed
  BY <1>3, <1>4 DEF FramesOK
<1>6. \A c : Answers(c) = {} <=> ~In(messages, ResultMsg(c))
  BY DEF Answers, In
<1>7. \A c : c \in Unanswered <=> c \in 1..proposed /\ ~In(messages, ResultMsg(c))
  BY <1>5, <1>6 DEF Unanswered
<1>8. \A s : Occurrences(s) # {} <=> In(messages, StepMsg(s))
  BY DEF Occurrences, In
<1>9. pc # "end" => outcome = "none"
  BY DEF Inv, Running, ControlOK
<1> QED
  BY <1>1, <1>2, <1>3, <1>5, <1>7, <1>8, <1>9

(* One place at most for a step and for a result; steps in their order.     *)
LEMMA PlacesAre ==
    ASSUME Inv
    PROVE  /\ \A c \in Nat : Cardinality(Answers(c)) <= 1
           /\ \A i \in DOMAIN inputs : Cardinality(Occurrences(inputs[i])) <= 1
           /\ InputsKeepTheirOrder
<1>1. PICK q : Order(messages, q)
  BY ConversationIs
<1>2. /\ messages \in Seq(Messages) /\ inputs \in Inputs /\ DOMAIN messages \in SUBSET Nat
      /\ DOMAIN inputs \in SUBSET Nat
  <2>1. inputs \in Seq(STRING)
    BY ConversationIs, InputsAre
  <2>2. DOMAIN inputs \in SUBSET Nat
    BY <2>1
  <2> QED
    BY <2>2, ConversationIs
<1>3. /\ \A c \in Nat : Aligned(messages, q, ResultMsg(c), ResultMsg(c))
      /\ \A i, j \in DOMAIN inputs :
            SameMode(i, j) => Aligned(messages, q, StepMsg(inputs[i]), StepMsg(inputs[j]))
  BY <1>1 DEF Order
<1>4. ASSUME NEW x, Aligned(messages, q, x, x)
      PROVE  Cardinality({i \in DOMAIN messages : messages[i] = x}) <= 1
  <2>1. \A m, n \in DOMAIN messages : messages[m] = x /\ messages[n] = x => m <= n /\ n <= m
    BY <1>4 DEF Aligned
  <2>2. \A m, n \in DOMAIN messages : m <= n /\ n <= m => m = n
    BY <1>2
  <2> QED
    BY <2>1, <2>2, AtMostOne
<1>5. \A c \in Nat : Cardinality(Answers(c)) <= 1
  BY <1>3, <1>4 DEF Answers
<1>6. \A i \in DOMAIN inputs : Cardinality(Occurrences(inputs[i])) <= 1
  <2>1. \A i \in DOMAIN inputs : SameMode(i, i)
    BY <1>2 DEF SameMode
  <2> QED
    BY <1>3, <1>4, <2>1 DEF Occurrences
<1>7. InputsKeepTheirOrder
  <2>1. SUFFICES ASSUME NEW i \in DOMAIN inputs, NEW j \in DOMAIN inputs, i < j,
                        inputs[i] \in Steers <=> inputs[j] \in Steers,
                        NEW m \in Occurrences(inputs[i]), NEW n \in Occurrences(inputs[j])
                 PROVE  m < n
    BY DEF InputsKeepTheirOrder
  <2>2. i <= j /\ i # j
    BY <1>2, <2>1
  <2>3. Aligned(messages, q, StepMsg(inputs[i]), StepMsg(inputs[j]))
    BY <1>3, <2>1, <2>2 DEF SameMode
  <2>4. m \in DOMAIN messages /\ n \in DOMAIN messages /\ messages[m] = StepMsg(inputs[i]) /\ messages[n] = StepMsg(inputs[j])
    BY DEF Occurrences
  <2>5. m <= n
    BY <2>3, <2>4 DEF Aligned
  <2>6. m # n
    BY <1>2, <2>2, <2>4, InputsAre, MsgKinds
  <2> QED
    BY <1>2, <2>4, <2>5, <2>6
<1> QED
  BY <1>5, <1>6, <1>7

(* The invariant says what the run checks.                                  *)
LEMMA InvSaysMachine ==
    ASSUME Inv
    PROVE  MachineConsistent
<1>1. TypeOK
  BY DEF Inv, Typed
<1>2. NeverRunsDry /\ RepeatedFailureStops
  BY DEF Inv, Running, ControlOK, NeverRunsDry, RepeatedFailureStops
<1>3. MachineNeverRefuses
  BY DEF Inv, Running, ControlOK, Over, Outcomes, MachineNeverRefuses
<1>4. PausedRunOnlyWaitsForItsWave
  <2>1. Calls(wave) = Ids(wave)
    BY DEF Calls, Ids
  <2>2. outcome \in {"awaiting_input", "awaiting_approval"} => Over
    BY ConversationIs DEF Inv
  <2>3. outcome \in {"awaiting_input", "awaiting_approval"} => Unanswered \subseteq Calls(wave)
    BY <2>1, <2>2, ConversationIs DEF Over
  <2>4. outcome = "awaiting_approval" => Unanswered # {}
    BY <2>2, ConversationIs DEF Over
  <2> QED
    BY <2>3, <2>4 DEF PausedRunOnlyWaitsForItsWave
<1> QED
  BY <1>1, <1>2, <1>3, <1>4, PlacesAre DEF MachineConsistent

(* Every call has one answer at most, and has it before the model goes on.  *)
LEMMA InvSaysAnswers ==
    ASSUME Inv
    PROVE  EveryCallAnsweredOnce
<1>1. \A c \in Framed : Cardinality(Answers(c)) <= 1
  <2>1. \A c \in Framed : c \in 1..proposed
    BY ConversationIs
  <2>2. \A c \in 1..proposed : c \in Nat
    OBVIOUS
  <2> QED
    BY <2>1, <2>2, PlacesAre
<1>2. ASSUME pc = "start" PROVE Unanswered = {}
  <2>1. Running
    BY <1>2 DEF Inv
  <2>2. \A c : ~Waits(c)
    BY <1>2, <2>1 DEF Running, WaitingOK, Waits, Ids
  <2>3. \A c \in 1..proposed : c \in Nat
    OBVIOUS
  <2>4. \A c \in 1..proposed : In(messages, ResultMsg(c))
    BY <1>2, <2>1, <2>2, <2>3 DEF Running, ResultsOK, Known
  <2> QED
    BY <2>4, ConversationIs
<1>3. ASSUME outcome = "completed" PROVE Unanswered = {}
  <2>1. Over
    BY <1>3, ConversationIs DEF Inv
  <2> QED
    BY <1>3, <2>1, ConversationIs DEF Over
<1> QED
  BY <1>1, <1>2, <1>3 DEF EveryCallAnsweredOnce

(* No consumed input is lost.                                               *)
LEMMA InvSaysInputs ==
    ASSUME Inv
    PROVE  NoInputIsLost
<1>1. outcome \in Outcomes => Over
  BY ConversationIs DEF Inv, Outcomes
<1>2. CompletedRunLosesNoInput
  <2>1. outcome = "completed" => \A s \in consumed : Occurrences(s) # {}
    BY <1>1, ConversationIs DEF Over, Outcomes
  <2> QED
    BY <2>1, PlacesAre DEF CompletedRunLosesNoInput
<1>3. ReceivedInputSurvives
  <2>1. SUFFICES ASSUME outcome \in Outcomes, NEW s \in consumed, s \notin InFlight
                 PROVE  Occurrences(s) # {}
    BY DEF ReceivedInputSurvives
  <2>2. ~Held(chan, StepMsg(s)) /\ ~(bridge = "consumed" /\ inputs[next] = s)
    BY <2>1 DEF InFlight, Held
  <2> QED
    BY <1>1, <2>1, <2>2, ConversationIs DEF Over
<1> QED
  BY <1>2, <1>3 DEF NoInputIsLost

(* The runner and its turn machine agree about where the run is, the        *)
(* budgets hold, a paused run leaves open calls of its wave only, inputs    *)
(* keep their order, and a call that failed too often is not put before the *)
(* model again.                                                             *)
THEOREM AgentRunnerMachine == Spec => []MachineConsistent
BY AgentRunnerInvariant, InvSaysMachine, PTL

(* The model is never called, and a run never completes, while a call it    *)
(* made is without its one answer.                                          *)
THEOREM AgentRunnerAnswers == Spec => []EveryCallAnsweredOnce
BY AgentRunnerInvariant, InvSaysAnswers, PTL

(* Input taken over from the user is in the messages a run returns in       *)
(* order, once, unless it was still on its way.                             *)
THEOREM AgentRunnerInputs == Spec => []NoInputIsLost
BY AgentRunnerInvariant, InvSaysInputs, PTL
==============================================================================
