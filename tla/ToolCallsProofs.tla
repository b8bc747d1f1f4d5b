---------------------------- MODULE ToolCallsProofs ----------------------------
(***************************************************************************)
(* Proofs about ToolCalls for any number of calls, programs, children,     *)
(* deciding requests and restarts: an operation is begun at most once and  *)
(* only with consent, an outcome is final, no operation is under way once  *)
(* a change of the file protection is acknowledged, and the records of     *)
(* calls and programs fit the tasks that carry them out.                   *)
(***************************************************************************)
EXTENDS ToolCalls, FiniteSetTheorems, WellFoundedInduction, TLAPS

-----------------------------------------------------------------------------
(* The inductive invariant.                                                *)

\* The values of the variables, as the type invariant gives them.
RowType == [status : Statuses, policy : {"none", "admission", "allow", "ask", "deny"},
            approval : {"none", "pending", "approved", "rejected"}]
Places == {"idle", "ready", "may_pause", "submit", "approve", "automatic", "paused", "execute",
           "acting", "detached", "done", "approved", "rejected", "grant", "refuse", "resume",
           "admit", "preflight", "abandon"}
ProgramType == [pc : {"idle", "done"} \cup Supervised, cancelled : BOOLEAN,
                remaining : 0..MaxCalls, calls : 0..MaxCalls, ok : BOOLEAN]
Turns == {"running", "awaiting", "ended", "stale"}

\* What a decision to carry out a call amounts to in its row.
Authorized(c) ==
    call[c].policy = "allow" \/ (call[c].policy = "ask" /\ call[c].approval = "approved")

\* The run of a direct call: what its row is at each place.
RunPlaces == {"idle", "ready", "may_pause", "submit", "approve", "automatic", "paused",
              "execute", "acting", "detached", "done"}

RunOK(d) ==
    /\ at[Run(d)] \in RunPlaces
    /\ at[Run(d)] \in {"idle", "ready", "may_pause", "submit"} => call[d] = NoRow
    /\ at[Run(d)] = "approve" => call[d] = Row("awaiting", "ask")
    /\ at[Run(d)] = "automatic" => call[d] = Row("running", "ask")
    /\ at[Run(d)] \in {"execute", "acting"} => call[d].status = "running" /\ Authorized(d)
    /\ at[Run(d)] \in {"idle", "ready", "may_pause", "submit", "approve", "automatic", "execute"}
       => effects[d] = 0

\* A pending approval belongs to a call that waits and was never begun.
PendingOK(d) ==
    call[d].approval = "pending" =>
        /\ at[Run(d)] \in {"paused", "done"} /\ effects[d] = 0
        /\ call[d].policy = "ask" /\ call[d].status = "awaiting"

\* A request that decides: the compare and swap on the approval lets one through.
ResolverOK(d, r) ==
    /\ at[<<d, r>>] # "idle" =>
          /\ at[Run(d)] \in {"paused", "done"}
          /\ call[d].policy = "ask" /\ call[d].approval \in {"approved", "rejected"}
          /\ \A s \in Resolvers \ {r} : at[<<d, s>>] = "idle"
    /\ at[<<d, r>>] \in {"approved", "grant", "execute"} =>
          call[d].approval = "approved" /\ effects[d] = 0
    /\ at[<<d, r>>] \in {"approved", "rejected", "grant", "refuse"} => call[d].status = "awaiting"
    /\ at[<<d, r>>] \in {"execute", "acting"} => call[d].status = "running"
    /\ at[<<d, r>>] \notin {"detached", "ready", "may_pause", "submit", "approve", "automatic",
                            "paused", "admit", "preflight", "abandon"}

DirectCallOK(d) == RunOK(d) /\ PendingOK(d) /\ \A r \in Resolvers : ResolverOK(d, r)

DirectOK == \A d \in Direct : DirectCallOK(d)

\* A child call, and the program that asked for it.
ChildOK(c) ==
    /\ at[Run(c)] \in {"idle", "admit", "preflight", "abandon", "execute", "acting",
                       "detached", "done"}
    /\ parent[c] = NoCall => call[c] = NoRow /\ at[Run(c)] \in {"idle", "done"}
    /\ at[Run(c)] \in {"idle", "admit"} => call[c] = NoRow
    /\ at[Run(c)] = "execute" => call[c].policy = "allow" /\ call[c].status # "none"
    /\ at[Run(c)] \in {"idle", "admit", "preflight", "abandon", "execute"} => effects[c] = 0
    /\ call[c].status = "none" => effects[c] = 0
    /\ at[Run(c)] \in {"admit", "preflight", "abandon", "execute", "acting"} =>
          parent[c] \in Programs /\ program[parent[c]].pc = "process"

ChildrenOK == \A c \in Children : ChildOK(c)

\* Programs run one after the other, each from its own empty row.
ProgramsOK ==
    /\ \A p \in Programs : effects[p] = 0
    /\ \A p \in Programs : program[p].pc = "idle" => call[p] = NoRow
    /\ \A p \in Programs : program[p].pc \in {"idle", "count"} =>
                           Child(p) = {} /\ program[p].calls = 0
    /\ \A p, q \in Programs : program[p].pc \in Supervised /\ program[q].pc \in Supervised => p = q

\* The calls a program may still make fit into what the earlier ones have left.
BudgetOK ==
    \A p \in Programs : program[p].pc = "process" =>
        /\ Cardinality(Child(p)) = program[p].calls
        /\ program[p].calls <= program[p].remaining
        /\ Cardinality({c \in Children : call[c].status # "none" /\ parent[c] # p})
             + program[p].remaining <= MaxCalls

EffectsOK == \A c \in Calls : effects[c] <= 1 /\ (effects[c] > 0 => Authorized(c))

IInv == /\ CallsConsistent /\ DirectOK /\ ChildrenOK /\ ProgramsOK /\ BudgetOK
        /\ EffectsOK /\ ProtectionHolds

-----------------------------------------------------------------------------
(* Tasks.                                                                  *)

\* Every task is the run of a call or a request that decides about a direct
\* call; no task is both, and a task determines what it works on.
LEMMA ActorFacts ==
    /\ \A c \in Direct \cup Children : Run(c) \in Actors /\ Run(c)[1] = c /\ Run(c)[2] = "run"
    /\ \A d \in Direct, r \in Resolvers :
          <<d, r>> \in Actors /\ <<d, r>>[1] = d /\ <<d, r>>[2] = r /\ r # "run"
    /\ \A a \in Actors :
          \/ a[1] \in Direct \cup Children /\ a[2] = "run" /\ a = Run(a[1])
          \/ a[1] \in Direct /\ a[2] \in Resolvers /\ a = <<a[1], a[2]>>
    /\ \A c, e : Run(c) = Run(e) => c = e
    /\ \A c, e : \A r \in Resolvers : Run(c) # <<e, r>>
    /\ \A d, e, r, s : <<d, r>> = <<e, s>> => d = e /\ r = s
BY ToolAssumption DEF Actors, Run

\* A task moves and the others stay.
LEMMA GotoFacts ==
    ASSUME TypeOK, NEW a \in Actors, NEW pc, Goto(a, pc)
    PROVE  \A b \in Actors : at'[b] = IF b = a THEN pc ELSE at[b]
BY DEF Goto, TypeOK

-----------------------------------------------------------------------------
(* What a step leaves alone.                                               *)

\* A direct call whose row and tasks stay as they are keeps its part.
LEMMA DirectFrame ==
    ASSUME NEW d \in Direct, DirectCallOK(d),
           call'[d] = call[d], effects'[d] = effects[d], at'[Run(d)] = at[Run(d)],
           \A r \in Resolvers : at'[<<d, r>>] = at[<<d, r>>]
    PROVE  DirectCallOK(d)'
BY DEF DirectCallOK, RunOK, PendingOK, ResolverOK, Authorized, Run

\* The records of Code Mode: everything about programs and their children.
CodeModeOK == /\ ChildCallLimit /\ NoChildOutlivesProgram /\ RunningProgramIsSupervised
              /\ ChildrenOK /\ ProgramsOK /\ BudgetOK

\* A step of the direct calls leaves the records of Code Mode as they are.
LEMMA CodeModeFrame ==
    ASSUME IInv, UNCHANGED <<parent, program, up>>,
           \A c \in Children \cup Programs : call'[c] = call[c] /\ effects'[c] = effects[c],
           \A c \in Children : at'[Run(c)] = at[Run(c)]
    PROVE  CodeModeOK'
<1>1. ChildCallLimit'
  <2>1. {c \in Children : call'[c].status # "none"} = {c \in Children : call[c].status # "none"}
        OBVIOUS
  <2>2. QED BY <2>1 DEF IInv, CallsConsistent, ChildCallLimit
<1>2. NoChildOutlivesProgram'
      BY DEF IInv, CallsConsistent, TypeOK, NoChildOutlivesProgram, ChildrenOK, ChildOK, NoRow, Row
<1>3. RunningProgramIsSupervised'
      BY DEF IInv, CallsConsistent, RunningProgramIsSupervised
<1>4. ChildrenOK'
  <2>1. ASSUME NEW c \in Children PROVE ChildOK(c)'
    <3>1. ChildOK(c) BY DEF IInv, ChildrenOK
    <3>2. at'[Run(c)] = at[Run(c)] /\ call'[c] = call[c] /\ effects'[c] = effects[c] OBVIOUS
    <3>3. QED BY <3>1, <3>2 DEF ChildOK, Run
  <2>2. QED BY <2>1 DEF ChildrenOK
<1>5. ProgramsOK'
      BY DEF IInv, ProgramsOK, Child
<1>6. BudgetOK'
  <2>1. \A p \in Programs :
          /\ Child(p)' = Child(p)
          /\ {c \in Children : call'[c].status # "none" /\ parent'[c] # p}
               = {c \in Children : call[c].status # "none" /\ parent[c] # p}
        BY DEF Child
  <2>2. QED BY <2>1 DEF IInv, BudgetOK
<1>7. QED BY <1>1, <1>2, <1>3, <1>4, <1>5, <1>6 DEF CodeModeOK

\* Where the tasks of a direct call are after its run has moved ...
LEMMA RunMoves ==
    ASSUME TypeOK, NEW d \in Direct, NEW pc, Goto(Run(d), pc)
    PROVE  at'[Run(d)] = pc /\ \A s \in Resolvers : at'[<<d, s>>] = at[<<d, s>>]
BY ActorFacts, GotoFacts

\* ... and after a request that decides about it has moved.
LEMMA ResolverMoves ==
    ASSUME TypeOK, NEW d \in Direct, NEW r \in Resolvers, NEW pc, Goto(<<d, r>>, pc)
    PROVE  /\ at'[Run(d)] = at[Run(d)]
           /\ \A s \in Resolvers : at'[<<d, s>>] = IF s = r THEN pc ELSE at[<<d, s>>]
BY ActorFacts, GotoFacts

\* A task of a direct call moves, and with it the row and the count of this call
\* may change: what is left to show is that the call itself is in order.
LEMMA DirectMove ==
    ASSUME IInv, NEW d \in Direct, NEW a \in Actors, a[1] = d,
           NEW pc \in Places, NEW row \in RowType, NEW n \in {0, 1},
           Goto(a, pc), call' = [call EXCEPT ![d] = row], effects' = [effects EXCEPT ![d] = n],
           UNCHANGED <<parent, program, protecting, changed, up, crashes>>, turn' \in Turns,
           n > 0 => row.policy = "allow" \/ (row.policy = "ask" /\ row.approval = "approved"),
           changed => pc \notin {"acting", "detached"},
           DirectCallOK(d)'
    PROVE  IInv'
<1>1. \A b \in Actors : at'[b] = IF b = a THEN pc ELSE at[b]
      BY GotoFacts DEF IInv, CallsConsistent
<1>2. /\ call'[d] = row /\ \A c \in Calls \ {d} : call'[c] = call[c]
      /\ effects'[d] = n /\ \A c \in Calls \ {d} : effects'[c] = effects[c]
      BY DEF IInv, CallsConsistent, TypeOK, Calls
<1>3. TypeOK'
      BY DEF IInv, CallsConsistent, TypeOK, Goto, Calls, Places, RowType, Turns
<1>4. CodeModeOK'
  <2>1. \A c \in Children \cup Programs : c # d /\ c \in Calls
        BY ToolAssumption DEF Calls
  <2>2. \A c \in Children : at'[Run(c)] = at[Run(c)]
        BY <1>1, <2>1, ActorFacts
  <2>3. QED BY <1>2, <2>1, <2>2, CodeModeFrame
<1>5. DirectOK'
  <2>1. ASSUME NEW e \in Direct, e # d PROVE DirectCallOK(e)'
    <3>1. at'[Run(e)] = at[Run(e)] /\ \A r \in Resolvers : at'[<<e, r>>] = at[<<e, r>>]
          BY <1>1, <2>1, ActorFacts
    <3>2. QED BY <3>1, <1>2, <2>1, DirectFrame DEF IInv, DirectOK, Calls
  <2>2. QED BY <2>1 DEF DirectOK
<1>6. EffectsOK'
      BY <1>2 DEF IInv, EffectsOK, Authorized
<1>7. ProtectionHolds'
      BY <1>1 DEF IInv, ProtectionHolds
<1>8. QED BY <1>3, <1>4, <1>5, <1>6, <1>7 DEF IInv, CallsConsistent, CodeModeOK

-----------------------------------------------------------------------------
(* The steps of direct calls.                                              *)

\* What the invariant says of one direct call, its row and its count.
LEMMA DirectFacts ==
    ASSUME IInv, NEW d \in Direct
    PROVE  /\ TypeOK /\ DirectCallOK(d) /\ d \in Calls
           /\ call[d] \in RowType /\ effects[d] \in {0, 1} /\ turn \in Turns
           /\ call = [call EXCEPT ![d] = call[d]] /\ effects = [effects EXCEPT ![d] = effects[d]]
           /\ effects[d] > 0 => Authorized(d)
BY DEF IInv, CallsConsistent, TypeOK, DirectOK, EffectsOK, Calls, RowType, Turns

\* prepare settles a direct call or finds it ready.
LEMMA PrepareStep ==
    ASSUME IInv, NEW d \in Direct, Prepare(d)
    PROVE  IInv'
<1>1. PICK pc \in Places, row \in RowType :
         /\ Goto(Run(d), pc) /\ call' = [call EXCEPT ![d] = row]
         /\ \/ pc \in {"done", "ready", "may_pause"} /\ row = NoRow
            \/ pc = "done" /\ row = Row("denied", "deny")
      BY DirectFacts DEF Prepare, Places, RowType, DirectCallOK, RunOK, Row, NoRow, Statuses
<1>2. UNCHANGED <<parent, program, turn, protecting, changed, up, crashes, effects>>
      BY DEF Prepare, policy, daemon
<1>3. at[Run(d)] = "idle" /\ call[d] = NoRow /\ effects[d] = 0 /\ call'[d] = row
      BY <1>1, DirectFacts DEF Prepare, DirectCallOK, RunOK, TypeOK
<1>4. DirectCallOK(d)'
  <2>1. at'[Run(d)] = pc /\ \A s \in Resolvers : at'[<<d, s>>] = at[<<d, s>>]
        BY <1>1, RunMoves DEF IInv, CallsConsistent
  <2>2. \A r \in Resolvers : at[<<d, r>>] = "idle"
        BY <1>3, DirectFacts DEF DirectCallOK, ResolverOK
  <2>3. RunOK(d)' /\ PendingOK(d)'
        BY <2>1, <1>1, <1>2, <1>3 DEF RunOK, PendingOK, Run, RunPlaces, Row, NoRow
  <2>4. QED BY <2>1, <2>2, <2>3 DEF DirectCallOK, ResolverOK
<1>5. /\ Run(d) \in Actors /\ Run(d)[1] = d
      /\ effects' = [effects EXCEPT ![d] = 0] /\ turn' \in Turns /\ 0 \in {0, 1}
      /\ ~(0 > 0) /\ (changed => pc \notin {"acting", "detached"})
      BY <1>1, <1>2, <1>3, DirectFacts, ActorFacts
<1>6. QED BY <1>1, <1>2, <1>4, <1>5, DirectMove

\* submit_prepared creates the row of a direct call.
LEMMA SubmitStep ==
    ASSUME IInv, NEW d \in Direct, Submit(d)
    PROVE  IInv'
<1>1. PICK pc \in Places, row \in RowType :
         /\ Goto(Run(d), pc) /\ call' = [call EXCEPT ![d] = row]
         /\ \/ pc = "done" /\ row = NoRow
            \/ pc = "done" /\ row = Row("denied", "deny")
            \/ pc = "execute" /\ row = Row("running", "allow")
            \/ pc = "approve" /\ row = Row("awaiting", "ask")
            \/ pc = "automatic" /\ row = Row("running", "ask")
  <2>1. {"done", "execute", "approve", "automatic"} \subseteq Places
        BY DEF Places
  <2>2. {NoRow, Row("denied", "deny"), Row("running", "allow"), Row("awaiting", "ask"),
         Row("running", "ask")} \subseteq RowType
        BY DEF RowType, Row, NoRow, Statuses
  <2>3. at[Run(d)] = "submit" /\ call[d] = NoRow /\ call = [call EXCEPT ![d] = call[d]]
        BY DirectFacts DEF Submit, DirectCallOK, RunOK
  <2>4. CASE Goto(Run(d), "done") /\ call' = call
        BY <2>1, <2>2, <2>3, <2>4
  <2>5. CASE call' = [call EXCEPT ![d] = Row("denied", "deny")] /\ Goto(Run(d), "done")
        BY <2>1, <2>2, <2>5
  <2>6. CASE call' = [call EXCEPT ![d] = Row("running", "allow")] /\ Goto(Run(d), "execute")
        BY <2>1, <2>2, <2>6
  <2>7. CASE call' = [call EXCEPT ![d] = Row("awaiting", "ask")] /\ Goto(Run(d), "approve")
        BY <2>1, <2>2, <2>7
  <2>8. CASE call' = [call EXCEPT ![d] = Row("running", "ask")] /\ Goto(Run(d), "automatic")
        BY <2>1, <2>2, <2>8
  <2>9. QED BY <2>4, <2>5, <2>6, <2>7, <2>8 DEF Submit
<1>2. UNCHANGED <<parent, program, turn, protecting, changed, up, crashes, effects>>
      BY DEF Submit, policy, daemon
<1>3. at[Run(d)] = "submit" /\ call[d] = NoRow /\ effects[d] = 0 /\ call'[d] = row
      BY <1>1, DirectFacts DEF Submit, DirectCallOK, RunOK, TypeOK
<1>4. DirectCallOK(d)'
  <2>1. at'[Run(d)] = pc /\ \A s \in Resolvers : at'[<<d, s>>] = at[<<d, s>>]
        BY <1>1, RunMoves DEF IInv, CallsConsistent
  <2>2. \A r \in Resolvers : at[<<d, r>>] = "idle"
        BY <1>3, DirectFacts DEF DirectCallOK, ResolverOK
  <2>3. RunOK(d)' /\ PendingOK(d)'
        BY <2>1, <1>1, <1>2, <1>3 DEF RunOK, PendingOK, Run, RunPlaces, Row, NoRow, Authorized
  <2>4. QED BY <2>1, <2>2, <2>3 DEF DirectCallOK, ResolverOK
<1>5. /\ Run(d) \in Actors /\ Run(d)[1] = d
      /\ effects' = [effects EXCEPT ![d] = 0] /\ turn' \in Turns /\ 0 \in {0, 1}
      /\ ~(0 > 0) /\ (changed => pc \notin {"acting", "detached"})
      BY <1>1, <1>2, <1>3, DirectFacts, ActorFacts
<1>6. QED BY <1>1, <1>2, <1>4, <1>5, DirectMove

\* create_approval and create_automatic_approval.
LEMMA CreateApprovalStep ==
    ASSUME IInv, NEW d \in Direct, CreateApproval(d)
    PROVE  IInv'
<1>1. PICK pc \in Places, row \in RowType :
         /\ Goto(Run(d), pc) /\ call' = [call EXCEPT ![d] = row]
         /\ \/ /\ at[Run(d)] = "approve" /\ pc = "paused"
               /\ row = [call[d] EXCEPT !.approval = "pending"]
            \/ /\ at[Run(d)] = "automatic" /\ pc = "execute"
               /\ row = [call[d] EXCEPT !.approval = "approved"]
      BY DirectFacts DEF CreateApproval, Places, RowType
<1>2. UNCHANGED <<parent, program, turn, protecting, changed, up, crashes, effects>>
      BY DEF CreateApproval, policy, daemon
<1>3. effects[d] = 0 /\ call'[d] = row
      BY <1>1, DirectFacts DEF DirectCallOK, RunOK, TypeOK
<1>4. DirectCallOK(d)'
  <2>1. at'[Run(d)] = pc /\ \A s \in Resolvers : at'[<<d, s>>] = at[<<d, s>>]
        BY <1>1, RunMoves DEF IInv, CallsConsistent
  <2>2. \A r \in Resolvers : at[<<d, r>>] = "idle"
        BY <1>1, DirectFacts DEF DirectCallOK, ResolverOK
  <2>3. RunOK(d)' /\ PendingOK(d)'
        BY <2>1, <1>1, <1>2, <1>3, DirectFacts
        DEF DirectCallOK, RunOK, PendingOK, Run, RunPlaces, Row, Authorized
  <2>4. QED BY <2>1, <2>2, <2>3 DEF DirectCallOK, ResolverOK
<1>5. /\ Run(d) \in Actors /\ Run(d)[1] = d
      /\ effects' = [effects EXCEPT ![d] = 0] /\ turn' \in Turns /\ 0 \in {0, 1}
      /\ ~(0 > 0) /\ (changed => pc \notin {"acting", "detached"})
      BY <1>1, <1>2, <1>3, DirectFacts, ActorFacts
<1>6. QED BY <1>1, <1>2, <1>4, <1>5, DirectMove

\* resolve_approval lets one decision of one request through.
LEMMA DecideStep ==
    ASSUME IInv, NEW d \in Direct, NEW r \in Resolvers, NEW v \in {"approved", "rejected"},
           Decide(d, r, v)
    PROVE  IInv'
<1> DEFINE row == [call[d] EXCEPT !.approval = v]
<1>1. v \in Places /\ row \in RowType /\ call' = [call EXCEPT ![d] = row] /\ Goto(<<d, r>>, v)
      BY DirectFacts DEF Decide, Places, RowType
<1>2. UNCHANGED <<parent, program, turn, protecting, changed, up, crashes, effects>>
      BY DEF Decide, policy, daemon
<1>3. /\ effects[d] = 0 /\ call'[d] = row /\ call[d].approval = "pending"
      /\ at[Run(d)] \in {"paused", "done"}
      /\ call[d].policy = "ask" /\ call[d].status = "awaiting"
      BY <1>1, DirectFacts DEF Decide, DirectCallOK, PendingOK, TypeOK
<1>4. DirectCallOK(d)'
  <2>1. /\ at'[Run(d)] = at[Run(d)]
        /\ \A s \in Resolvers : at'[<<d, s>>] = IF s = r THEN v ELSE at[<<d, s>>]
        BY <1>1, ResolverMoves DEF IInv, CallsConsistent
  <2>2. \A s \in Resolvers : at[<<d, s>>] = "idle"
        BY <1>3, DirectFacts DEF DirectCallOK, ResolverOK
  <2>3. RunOK(d)' /\ PendingOK(d)'
        BY <2>1, <1>2, <1>3, DirectFacts
        DEF DirectCallOK, RunOK, PendingOK, Run, RunPlaces, Row, Authorized, RowType
  <2>4. \A s \in Resolvers : ResolverOK(d, s)'
        BY <2>1, <2>2, <1>2, <1>3, DirectFacts DEF ResolverOK, Run, RowType
  <2>5. QED BY <2>3, <2>4 DEF DirectCallOK
<1>5. /\ <<d, r>> \in Actors /\ <<d, r>>[1] = d
      /\ effects' = [effects EXCEPT ![d] = 0] /\ turn' \in Turns /\ 0 \in {0, 1}
      /\ ~(0 > 0) /\ (changed => v \notin {"acting", "detached"})
      BY <1>1, <1>2, <1>3, DirectFacts, ActorFacts
<1>6. QED BY <1>1, <1>2, <1>4, <1>5, DirectMove

\* resolve reads the call again.
LEMMA CheckAwaitingStep ==
    ASSUME IInv, NEW d \in Direct, NEW r \in Resolvers, CheckAwaiting(<<d, r>>)
    PROVE  IInv'
<1>1. PICK pc \in {"grant", "refuse", "done"} :
         /\ Goto(<<d, r>>, pc)
         /\ \/ pc = "grant" /\ at[<<d, r>>] = "approved"
            \/ pc = "refuse" /\ at[<<d, r>>] = "rejected"
            \/ pc = "done" /\ at[<<d, r>>] \in {"approved", "rejected"}
      BY ActorFacts DEF CheckAwaiting
<1>2. UNCHANGED <<call, parent, program, turn, protecting, changed, up, crashes, effects>>
      BY DEF CheckAwaiting, rows, policy, daemon
<1>3. DirectCallOK(d)'
  <2>1. /\ at'[Run(d)] = at[Run(d)]
        /\ \A s \in Resolvers : at'[<<d, s>>] = IF s = r THEN pc ELSE at[<<d, s>>]
        BY <1>1, ResolverMoves DEF IInv, CallsConsistent
  <2>2. \A s \in Resolvers \ {r} : at[<<d, s>>] = "idle"
        BY <1>1, DirectFacts DEF DirectCallOK, ResolverOK
  <2>3. RunOK(d)' /\ PendingOK(d)'
        BY <2>1, <1>2, DirectFacts DEF DirectCallOK, RunOK, PendingOK, Run, Authorized
  <2>4. \A s \in Resolvers : ResolverOK(d, s)'
        BY <2>1, <2>2, <1>1, <1>2, DirectFacts DEF DirectCallOK, ResolverOK, Run
  <2>5. QED BY <2>3, <2>4 DEF DirectCallOK
<1>4. /\ <<d, r>> \in Actors /\ <<d, r>>[1] = d /\ pc \in Places
      /\ call' = [call EXCEPT ![d] = call[d]] /\ effects' = [effects EXCEPT ![d] = effects[d]]
      /\ turn' \in Turns /\ (changed => pc \notin {"acting", "detached"})
      BY <1>1, <1>2, DirectFacts, ActorFacts DEF Places
<1>5. /\ call[d] \in RowType /\ effects[d] \in {0, 1}
      /\ effects[d] > 0 => call[d].policy = "allow"
                           \/ (call[d].policy = "ask" /\ call[d].approval = "approved")
      BY DirectFacts DEF Authorized
<1>6. QED BY <1>1, <1>2, <1>3, <1>4, <1>5, DirectMove

\* The decision is written to the call, which is then executed or settled.
LEMMA ApplyDecisionStep ==
    ASSUME IInv, NEW d \in Direct, NEW r \in Resolvers, ApplyDecision(<<d, r>>)
    PROVE  IInv'
<1>1. PICK pc \in Places, row \in RowType :
         /\ Goto(<<d, r>>, pc) /\ call' = [call EXCEPT ![d] = row]
         /\ \/ /\ pc = "execute" /\ at[<<d, r>>] = "grant"
               /\ row = [call[d] EXCEPT !.status = "running"]
            \/ /\ pc = "resume" /\ at[<<d, r>>] = "refuse"
               /\ row = [call[d] EXCEPT !.status = "denied"]
  <2>1. \A t \in {"running", "denied"} :
          /\ [call EXCEPT ![d].status = t] = [call EXCEPT ![d] = [call[d] EXCEPT !.status = t]]
          /\ [call[d] EXCEPT !.status = t] \in RowType
        BY DirectFacts DEF RowType, Statuses
  <2>2. <<d, r>>[1] = d /\ "execute" \in Places /\ "resume" \in Places
        BY DEF Places
  <2>3. QED BY <2>1, <2>2 DEF ApplyDecision
<1>2. UNCHANGED <<parent, program, turn, protecting, changed, up, crashes, effects>>
      BY DEF ApplyDecision, policy, daemon
<1>3. /\ call'[d] = row /\ row.policy = "ask" /\ row.approval = call[d].approval
      /\ call[d].approval \in {"approved", "rejected"}
      /\ row.status = IF pc = "execute" THEN "running" ELSE "denied"
      BY <1>1, DirectFacts DEF DirectCallOK, ResolverOK, TypeOK, RowType
<1>4. DirectCallOK(d)'
  <2>1. /\ at'[Run(d)] = at[Run(d)]
        /\ \A s \in Resolvers : at'[<<d, s>>] = IF s = r THEN pc ELSE at[<<d, s>>]
        BY <1>1, ResolverMoves DEF IInv, CallsConsistent
  <2>2. /\ \A s \in Resolvers \ {r} : at[<<d, s>>] = "idle"
        /\ at[Run(d)] \in {"paused", "done"}
        BY <1>1, DirectFacts DEF DirectCallOK, ResolverOK
  <2>3. RunOK(d)' /\ PendingOK(d)'
        BY <2>1, <2>2, <1>2, <1>3, DirectFacts DEF RunOK, PendingOK, Run, RunPlaces
  <2>4. \A s \in Resolvers : ResolverOK(d, s)'
        BY <2>1, <2>2, <1>1, <1>2, <1>3, DirectFacts DEF DirectCallOK, ResolverOK, Run
  <2>5. QED BY <2>3, <2>4 DEF DirectCallOK
<1>5. /\ <<d, r>> \in Actors /\ <<d, r>>[1] = d
      /\ effects' = [effects EXCEPT ![d] = effects[d]] /\ effects[d] \in {0, 1}
      /\ turn' \in Turns /\ (changed => pc \notin {"acting", "detached"})
      BY <1>1, <1>2, DirectFacts, ActorFacts
<1>6. effects[d] > 0 => row.policy = "ask" /\ row.approval = "approved"
      BY <1>1, <1>3, DirectFacts DEF Authorized, DirectCallOK, ResolverOK
<1>7. QED BY <1>1, <1>2, <1>4, <1>5, <1>6, DirectMove

\* maybe_resume_turn.
LEMMA MaybeResumeStep ==
    ASSUME IInv, NEW d \in Direct, NEW r \in Resolvers, MaybeResume(<<d, r>>)
    PROVE  IInv'
<1>1. Goto(<<d, r>>, "done") /\ at[<<d, r>>] = "resume" /\ "done" \in Places
      BY DEF MaybeResume, Places
<1>2. UNCHANGED <<call, parent, program, protecting, changed, up, crashes, effects>>
      BY DEF MaybeResume, rows, policy, daemon
<1>3. DirectCallOK(d)'
  <2>1. /\ at'[Run(d)] = at[Run(d)]
        /\ \A s \in Resolvers : at'[<<d, s>>] = IF s = r THEN "done" ELSE at[<<d, s>>]
        BY <1>1, ResolverMoves DEF IInv, CallsConsistent
  <2>2. RunOK(d)' /\ PendingOK(d)'
        BY <2>1, <1>2, DirectFacts DEF DirectCallOK, RunOK, PendingOK, Run, Authorized
  <2>3. \A s \in Resolvers : ResolverOK(d, s)'
        BY <2>1, <1>1, <1>2, DirectFacts DEF DirectCallOK, ResolverOK, Run
  <2>4. QED BY <2>2, <2>3 DEF DirectCallOK
<1>4. /\ <<d, r>> \in Actors /\ <<d, r>>[1] = d
      /\ call' = [call EXCEPT ![d] = call[d]] /\ effects' = [effects EXCEPT ![d] = effects[d]]
      /\ turn' \in Turns
      BY <1>1, <1>2, DirectFacts, ActorFacts DEF Turns, MaybeResume
<1>5. /\ call[d] \in RowType /\ effects[d] \in {0, 1} /\ "done" \notin {"acting", "detached"}
      /\ effects[d] > 0 => call[d].policy = "allow"
                           \/ (call[d].policy = "ask" /\ call[d].approval = "approved")
      BY DirectFacts DEF Authorized
<1>6. QED BY <1>1, <1>2, <1>3, <1>4, <1>5, DirectMove

\* A direct call is executed by its run or by the request that approved it.
LEMMA ExecuteDirectStep ==
    ASSUME IInv, NEW a \in Actors, a[1] \in Direct, Execute(a)
    PROVE  IInv'
<1> DEFINE d == a[1]
<1>1. d \in Direct /\ d \in Calls /\ d \notin Children /\ at[a] = "execute"
      BY ToolAssumption DEF Execute, Calls
<1>2. /\ call[d].status = "running" /\ effects[d] = 0 /\ call[d].approval # "pending"
      /\ Authorized(d) /\ (a # Run(d) => call[d].policy = "ask" /\ call[d].approval = "approved")
      BY <1>1, ActorFacts, DirectFacts DEF DirectCallOK, RunOK, ResolverOK, PendingOK, Authorized
<1>3. PICK pc \in Places, row \in RowType, n \in {0, 1} :
         /\ Goto(a, pc) /\ call' = [call EXCEPT ![d] = row] /\ effects' = [effects EXCEPT ![d] = n]
         /\ row.policy = call[d].policy /\ row.approval = call[d].approval
         /\ \/ pc = "acting" /\ row.status = "running" /\ n = 1 /\ ~changed
            \/ pc = (IF a[2] = "run" THEN "done" ELSE "resume") /\ row.status = "failed" /\ n = 0
  <2>1. CASE changed
    <3>1. /\ call' = [call EXCEPT ![d] = [call[d] EXCEPT !.status = "failed"]]
          /\ Goto(a, IF a[2] = "run" THEN "done" ELSE "resume") /\ effects' = effects
          BY <2>1, <1>1, DirectFacts DEF Execute, FinishToolCall, MayFinish
    <3>2. [call[d] EXCEPT !.status = "failed"] \in RowType
          BY DirectFacts DEF RowType, Statuses
    <3>3. QED BY <3>1, <3>2, <1>2, DirectFacts, ZenonT(60) DEF Places, RowType
  <2>2. CASE ~changed
    <3>1. Goto(a, "acting") /\ call' = call /\ effects' = [effects EXCEPT ![d] = 1]
          BY <2>2, <1>2, DirectFacts DEF Execute
    <3>2. QED BY <3>1, <2>2, <1>2, DirectFacts DEF Places
  <2>3. QED BY <2>1, <2>2
<1>4. UNCHANGED <<parent, program, turn, protecting, changed, up, crashes>>
      BY DEF Execute, policy, daemon
<1>5. call'[d] = row /\ effects'[d] = n
      BY <1>3, DirectFacts DEF TypeOK
<1>6. DirectCallOK(d)'
  <2>1. CASE a = Run(d)
    <3>1. at'[Run(d)] = pc /\ \A s \in Resolvers : at'[<<d, s>>] = at[<<d, s>>]
          BY <2>1, <1>3, RunMoves DEF IInv, CallsConsistent
    <3>2. \A s \in Resolvers : at[<<d, s>>] = "idle"
          BY <2>1, <1>1, DirectFacts DEF DirectCallOK, ResolverOK
    <3>3. pc \in {"acting", "done"}
          BY <2>1, <1>3, ActorFacts
    <3>4. RunOK(d)' /\ PendingOK(d)'
          BY <3>1, <3>3, <1>2, <1>3, <1>5 DEF RunOK, PendingOK, Run, RunPlaces, Authorized
    <3>5. QED BY <3>1, <3>2, <3>4 DEF DirectCallOK, ResolverOK
  <2>2. CASE a # Run(d)
    <3>1. PICK r \in Resolvers : a = <<d, r>>
          BY <2>2, ActorFacts
    <3>2. /\ at'[Run(d)] = at[Run(d)]
          /\ \A s \in Resolvers : at'[<<d, s>>] = IF s = r THEN pc ELSE at[<<d, s>>]
          BY <3>1, <1>3, ResolverMoves DEF IInv, CallsConsistent
    <3>3. /\ \A s \in Resolvers \ {r} : at[<<d, s>>] = "idle"
          /\ at[Run(d)] \in {"paused", "done"} /\ pc \in {"acting", "resume"}
          BY <3>1, <1>1, <1>3, DirectFacts, ActorFacts DEF DirectCallOK, ResolverOK
    <3>4. RunOK(d)' /\ PendingOK(d)'
          BY <3>2, <3>3, <1>2, <1>3, <1>5 DEF RunOK, PendingOK, Run, RunPlaces
    <3>5. \A s \in Resolvers : ResolverOK(d, s)'
          BY <2>2, <3>2, <3>3, <1>2, <1>3, <1>5 DEF ResolverOK, Run
    <3>6. QED BY <3>4, <3>5 DEF DirectCallOK
  <2>3. QED BY <2>1, <2>2
<1>7. (n > 0 => row.policy = "allow" \/ (row.policy = "ask" /\ row.approval = "approved"))
      /\ (changed => pc \notin {"acting", "detached"}) /\ turn' \in Turns
      BY <1>2, <1>3, <1>4, DirectFacts DEF Authorized
<1>8. QED BY <1>1, <1>3, <1>4, <1>6, <1>7, DirectMove

\* finish_tool_call settles a direct call.
LEMMA OperationEndsDirectStep ==
    ASSUME IInv, NEW a \in Actors, a[1] \in Direct, OperationEnds(a)
    PROVE  IInv'
<1> DEFINE d == a[1]
<1>1. d \in Direct /\ d \in Calls /\ d \notin Children /\ at[a] = "acting"
      BY ToolAssumption DEF OperationEnds, Calls
<1>2. PICK pc \in Places, row \in RowType :
         /\ Goto(a, pc) /\ call' = [call EXCEPT ![d] = row]
         /\ row.policy = call[d].policy /\ row.approval = call[d].approval
         /\ row.status \in {"completed", "failed"}
         /\ pc = IF a[2] = "run" THEN "done" ELSE "resume"
  <2>1. PICK t \in {"completed", "failed"} :
           /\ call' = [call EXCEPT ![d] = [call[d] EXCEPT !.status = t]]
           /\ Goto(a, IF a[2] = "run" THEN "done" ELSE "resume")
        BY <1>1, DirectFacts DEF OperationEnds, FinishToolCall, MayFinish
  <2>2. /\ [call[d] EXCEPT !.status = t] \in RowType
        /\ [call[d] EXCEPT !.status = t].policy = call[d].policy
        /\ [call[d] EXCEPT !.status = t].approval = call[d].approval
        /\ [call[d] EXCEPT !.status = t].status = t
        BY DirectFacts DEF RowType, Statuses
  <2>3. QED BY <2>1, <2>2 DEF Places
<1>3. UNCHANGED <<parent, program, turn, protecting, changed, up, crashes, effects>>
      BY DEF OperationEnds, policy, daemon
<1>4. call'[d] = row /\ row.approval # "pending"
      BY <1>1, <1>2, ActorFacts, DirectFacts
      DEF TypeOK, DirectCallOK, RunOK, ResolverOK, PendingOK
<1>5. DirectCallOK(d)'
  <2>1. CASE a = Run(d)
    <3>1. at'[Run(d)] = pc /\ \A s \in Resolvers : at'[<<d, s>>] = at[<<d, s>>]
          BY <2>1, <1>2, RunMoves DEF IInv, CallsConsistent
    <3>2. (\A s \in Resolvers : at[<<d, s>>] = "idle") /\ pc = "done"
          BY <2>1, <1>1, <1>2, ActorFacts, DirectFacts DEF DirectCallOK, ResolverOK
    <3>3. RunOK(d)' /\ PendingOK(d)'
          BY <3>1, <3>2, <1>2, <1>4 DEF RunOK, PendingOK, Run, RunPlaces
    <3>4. QED BY <3>1, <3>2, <3>3 DEF DirectCallOK, ResolverOK
  <2>2. CASE a # Run(d)
    <3>1. PICK r \in Resolvers : a = <<d, r>>
          BY <2>2, ActorFacts
    <3>2. /\ at'[Run(d)] = at[Run(d)]
          /\ \A s \in Resolvers : at'[<<d, s>>] = IF s = r THEN pc ELSE at[<<d, s>>]
          BY <3>1, <1>2, ResolverMoves DEF IInv, CallsConsistent
    <3>3. /\ \A s \in Resolvers \ {r} : at[<<d, s>>] = "idle"
          /\ at[Run(d)] \in {"paused", "done"} /\ pc = "resume"
          /\ call[d].policy = "ask" /\ call[d].approval \in {"approved", "rejected"}
          BY <3>1, <1>1, <1>2, DirectFacts, ActorFacts DEF DirectCallOK, ResolverOK
    <3>4. RunOK(d)' /\ PendingOK(d)'
          BY <3>2, <3>3, <1>2, <1>4 DEF RunOK, PendingOK, Run, RunPlaces
    <3>5. \A s \in Resolvers : ResolverOK(d, s)'
          BY <3>2, <3>3, <1>2, <1>4 DEF ResolverOK, Run
    <3>6. QED BY <3>4, <3>5 DEF DirectCallOK
  <2>3. QED BY <2>1, <2>2
<1>6. /\ effects' = [effects EXCEPT ![d] = effects[d]] /\ effects[d] \in {0, 1}
      /\ turn' \in Turns /\ pc \notin {"acting", "detached"}
      BY <1>2, <1>3, DirectFacts
<1>7. effects[d] > 0 => row.policy = "allow" \/ (row.policy = "ask" /\ row.approval = "approved")
      BY <1>2, DirectFacts DEF Authorized
<1>8. QED BY <1>1, <1>2, <1>3, <1>5, <1>6, <1>7, DirectMove

\* A blocking operation whose future was dropped: only a run is ever dropped.
LEMMA DetachedDirectStep ==
    ASSUME IInv, NEW a \in Actors, a[1] \in Direct, DetachedReturns(a)
    PROVE  IInv'
<1> DEFINE d == a[1]
<1>1. d \in Direct /\ at[a] = "detached" /\ Goto(a, "done") /\ "done" \in Places
      BY DEF DetachedReturns, Places
<1>2. UNCHANGED <<call, parent, program, turn, protecting, changed, up, crashes, effects>>
      BY DEF DetachedReturns, rows, policy, daemon
<1>3. a = Run(d)
      BY <1>1, ActorFacts, DirectFacts DEF DirectCallOK, ResolverOK
<1>4. DirectCallOK(d)'
  <2>1. at'[Run(d)] = "done" /\ \A s \in Resolvers : at'[<<d, s>>] = at[<<d, s>>]
        BY <1>1, <1>3, RunMoves DEF IInv, CallsConsistent
  <2>2. \A s \in Resolvers : at[<<d, s>>] = "idle"
        BY <1>1, <1>3, DirectFacts DEF DirectCallOK, ResolverOK
  <2>3. RunOK(d)' /\ PendingOK(d)'
        BY <2>1, <1>1, <1>2, <1>3, DirectFacts
        DEF DirectCallOK, RunOK, PendingOK, Run, RunPlaces
  <2>4. QED BY <2>1, <2>2, <2>3 DEF DirectCallOK, ResolverOK
<1>5. /\ call' = [call EXCEPT ![d] = call[d]] /\ effects' = [effects EXCEPT ![d] = effects[d]]
      /\ call[d] \in RowType /\ effects[d] \in {0, 1} /\ turn' \in Turns
      /\ "done" \notin {"acting", "detached"}
      /\ effects[d] > 0 => call[d].policy = "allow"
                           \/ (call[d].policy = "ask" /\ call[d].approval = "approved")
      BY <1>1, <1>2, DirectFacts DEF Authorized
<1>6. QED BY <1>1, <1>2, <1>4, <1>5, DirectMove, ZenonT(60)

-----------------------------------------------------------------------------
(* The steps of child calls.                                               *)

\* A child whose row and task stay as they are keeps its part while its program
\* is in the same process.
LEMMA ChildFrame ==
    ASSUME NEW c \in Children, ChildOK(c),
           call'[c] = call[c], effects'[c] = effects[c], at'[Run(c)] = at[Run(c)],
           parent'[c] = parent[c],
           \A p \in Programs : program[p].pc = "process" => program'[p].pc = "process"
    PROVE  ChildOK(c)'
BY DEF ChildOK, Run

\* What the invariant says of one child call.
LEMMA ChildFacts ==
    ASSUME IInv, NEW c \in Children
    PROVE  /\ TypeOK /\ ChildOK(c) /\ c \in Calls /\ c \notin Direct /\ c \notin Programs
           /\ call[c] \in RowType /\ effects[c] \in {0, 1} /\ turn \in Turns
           /\ parent[c] \in Programs \cup {NoCall}
BY ToolAssumption DEF IInv, CallsConsistent, TypeOK, ChildrenOK, EffectsOK, Calls, RowType, Turns

\* The rows there are of child calls are at most those of the other programs and
\* what this one has asked for.
LEMMA CallCount ==
    ASSUME TypeOK, NEW p \in Programs, NEW S \in SUBSET Children
    PROVE  /\ Cardinality(S) \in Nat /\ Cardinality(Child(p)) \in Nat
           /\ Cardinality({c \in S : parent[c] # p}) \in Nat
           /\ Cardinality(S) <= Cardinality({c \in S : parent[c] # p}) + Cardinality(Child(p))
<1> DEFINE O == {c \in S : parent[c] # p}
           M == {c \in S : parent[c] = p}
<1>1. IsFiniteSet(Children) /\ O \in SUBSET Children /\ M \in SUBSET Child(p)
      /\ Child(p) \in SUBSET Children
      BY ToolAssumption DEF Child
<1>2. IsFiniteSet(S) /\ IsFiniteSet(O) /\ IsFiniteSet(Child(p))
      BY <1>1, FS_Subset
<1>3. IsFiniteSet(M) /\ Cardinality(M) <= Cardinality(Child(p))
      BY <1>1, <1>2, FS_Subset
<1>4. /\ Cardinality(S) \in Nat /\ Cardinality(O) \in Nat /\ Cardinality(M) \in Nat
      /\ Cardinality(Child(p)) \in Nat
      BY <1>2, <1>3, FS_CardinalityType
<1>5. S = O \cup M /\ O \cap M = {}
      OBVIOUS
<1>6. Cardinality(S) = Cardinality(O) + Cardinality(M)
  <2>1. Cardinality(O \cup M) = Cardinality(O) + Cardinality(M) - Cardinality(O \cap M)
        BY <1>2, <1>3, FS_Union
  <2>2. Cardinality(O \cap M) = 0 /\ Cardinality(O \cup M) = Cardinality(S)
        BY FS_EmptySet, <1>5, Zenon
  <2>3. QED BY <2>1, <2>2, <1>4
<1>7. QED BY <1>3, <1>4, <1>6

\* The run of a child moves, and with it the row and the count of this call may
\* change; a first row may appear only while its program is in its process.
LEMMA ChildMove ==
    ASSUME IInv, NEW c \in Children, NEW pc \in Places, NEW row \in RowType, NEW n \in {0, 1},
           Goto(Run(c), pc), call' = [call EXCEPT ![c] = row], effects' = [effects EXCEPT ![c] = n],
           UNCHANGED <<parent, program, turn, protecting, changed, up, crashes>>,
           call[c].status # "none" => row.status # "none",
           call[c].status = "none" /\ row.status # "none" =>
              parent[c] \in Programs /\ program[parent[c]].pc = "process",
           row.status = "running" => call[parent[c]].status = "running" /\ parent[c] \in Programs,
           n > 0 => row.policy = "allow" \/ (row.policy = "ask" /\ row.approval = "approved"),
           changed => pc \notin {"acting", "detached"},
           ChildOK(c)'
    PROVE  IInv'
<1>1. \A b \in Actors : at'[b] = IF b = Run(c) THEN pc ELSE at[b]
      BY GotoFacts, ActorFacts DEF IInv, CallsConsistent
<1>2. /\ call'[c] = row /\ \A e \in Calls \ {c} : call'[e] = call[e]
      /\ effects'[c] = n /\ \A e \in Calls \ {c} : effects'[e] = effects[e]
      BY DEF IInv, CallsConsistent, TypeOK, Calls
<1>3. TypeOK'
  <2>1. Run(c) \in Actors
        BY ActorFacts
  <2>2. QED BY <2>1 DEF IInv, CallsConsistent, TypeOK, Goto, Calls, Places, RowType
<1>4. \A p \in Programs : p # c /\ p \in Calls /\ call'[p] = call[p] /\ effects'[p] = effects[p]
      BY <1>2, ToolAssumption DEF Calls
<1>5. \A e \in Children : e \in Calls /\ (e # c => at'[Run(e)] = at[Run(e)])
      BY <1>1, ActorFacts DEF Calls
<1>6. \A p \in Programs : program[p].pc = "process" =>
         /\ Child(p)' = Child(p)
         /\ {e \in Children : call'[e].status # "none" /\ parent'[e] # p}
              = {e \in Children : call[e].status # "none" /\ parent[e] # p}
  <2>1. ASSUME NEW p \in Programs, program[p].pc = "process", NEW e \in Children, parent[e] # p
        PROVE  call'[e].status # "none" <=> call[e].status # "none"
        BY <2>1, <1>2, <1>5 DEF IInv, ProgramsOK, Supervised
  <2>2. QED BY <2>1 DEF Child
<1>7. ChildCallLimit'
  <2> DEFINE S == {e \in Children : call[e].status # "none"}
             T == {e \in Children : call'[e].status # "none"}
  <2>1. CASE call[c].status # "none" \/ row.status = "none"
    <3>1. T = S
          BY <2>1, <1>2, <1>5
    <3>2. QED BY <3>1 DEF IInv, CallsConsistent, ChildCallLimit
  <2>2. CASE call[c].status = "none" /\ row.status # "none"
    <3> DEFINE p == parent[c]
    <3>1. p \in Programs /\ program[p].pc = "process"
          BY <2>2
    <3>2. Cardinality(T) <= Cardinality({e \in T : parent[e] # p}) + Cardinality(Child(p))
          /\ Cardinality(T) \in Nat /\ Cardinality({e \in T : parent[e] # p}) \in Nat
          BY <3>1, CallCount DEF IInv, CallsConsistent
    <3>3. {e \in T : parent[e] # p} = {e \in Children : call[e].status # "none" /\ parent[e] # p}
          BY <3>1, <1>6
    <3>4. /\ Cardinality(Child(p)) = program[p].calls
          /\ program[p].calls <= program[p].remaining
          /\ Cardinality({e \in T : parent[e] # p}) + program[p].remaining <= MaxCalls
          BY <3>1, <3>3 DEF IInv, BudgetOK
    <3>5. program[p].calls \in Nat /\ program[p].remaining \in Nat /\ MaxCalls \in Nat
          BY <3>1, ToolAssumption DEF IInv, CallsConsistent, TypeOK
    <3>6. Cardinality(T) <= MaxCalls
          BY <3>2, <3>4, <3>5
    <3>7. QED BY <3>6 DEF ChildCallLimit
  <2>3. QED BY <2>1, <2>2
<1>8. NoChildOutlivesProgram'
  <2>1. ASSUME NEW e \in Children, call'[e].status = "running"
        PROVE  call'[parent'[e]].status = "running"
    <3>1. parent[e] \in Programs /\ call[parent[e]].status = "running"
      <4>1. CASE e = c
            BY <4>1, <2>1, <1>2
      <4>2. CASE e # c
            BY <4>2, <2>1, <1>2, <1>5, ChildFacts
            DEF IInv, CallsConsistent, NoChildOutlivesProgram, ChildOK, NoRow, Row
      <4>3. QED BY <4>1, <4>2
    <3>2. QED BY <3>1, <1>4
  <2>2. QED BY <2>1 DEF NoChildOutlivesProgram
<1>9. RunningProgramIsSupervised'
      BY <1>4 DEF IInv, CallsConsistent, RunningProgramIsSupervised
<1>10. DirectOK'
  <2>1. ASSUME NEW d \in Direct PROVE DirectCallOK(d)'
    <3>1. d # c /\ d \in Calls
          BY ToolAssumption DEF Calls
    <3>2. at'[Run(d)] = at[Run(d)] /\ \A r \in Resolvers : at'[<<d, r>>] = at[<<d, r>>]
          BY <1>1, <3>1, ActorFacts
    <3>3. QED BY <3>1, <3>2, <1>2, DirectFrame DEF IInv, DirectOK
  <2>2. QED BY <2>1 DEF DirectOK
<1>11. ChildrenOK'
  <2>1. ASSUME NEW e \in Children, e # c PROVE ChildOK(e)'
        BY <2>1, <1>2, <1>5, ChildFrame DEF IInv, ChildrenOK
  <2>2. QED BY <2>1 DEF ChildrenOK
<1>12. ProgramsOK'
      BY <1>4 DEF IInv, ProgramsOK, Child
<1>13. BudgetOK'
      BY <1>6 DEF IInv, BudgetOK
<1>14. EffectsOK'
      BY <1>2 DEF IInv, EffectsOK, Authorized
<1>15. ProtectionHolds'
      BY <1>1 DEF IInv, ProtectionHolds
<1>16. QED BY <1>3, <1>7, <1>8, <1>9, <1>10, <1>11, <1>12, <1>13, <1>14, <1>15
       DEF IInv, CallsConsistent

\* code_mode_child records the admission, if the program still runs.
LEMMA AdmitStep ==
    ASSUME IInv, NEW c \in Children, Admit(c)
    PROVE  IInv'
<1>1. PICK pc \in Places, row \in RowType :
         /\ Goto(Run(c), pc) /\ call' = [call EXCEPT ![c] = row]
         /\ \/ /\ pc = "preflight" /\ row = Row("running", "admission")
               /\ call[parent[c]].status = "running"
            \/ pc = "done" /\ row = NoRow
  <2>1. call[c] = NoRow /\ call = [call EXCEPT ![c] = NoRow]
        BY ChildFacts DEF Admit, ChildOK, TypeOK
  <2>2. /\ "preflight" \in Places /\ "done" \in Places
        /\ Row("running", "admission") \in RowType /\ NoRow \in RowType
        BY DEF Places, RowType, Row, NoRow, Statuses
  <2>3. QED BY <2>1, <2>2 DEF Admit
<1>2. UNCHANGED <<parent, program, turn, protecting, changed, up, crashes, effects>>
      BY DEF Admit, policy, daemon
<1>3. /\ call[c] = NoRow /\ effects[c] = 0 /\ call'[c] = row /\ at'[Run(c)] = pc
      /\ parent[c] \in Programs /\ program[parent[c]].pc = "process"
  <2>1. Run(c) \in Actors /\ at[Run(c)] = "admit"
        BY ActorFacts DEF Admit
  <2>2. QED BY <2>1, <1>1, ChildFacts, GotoFacts DEF ChildOK, TypeOK
<1>4. ChildOK(c)'
      BY <1>1, <1>2, <1>3, ToolAssumption DEF ChildOK, Run, NoRow, Row
<1>5. /\ effects' = [effects EXCEPT ![c] = 0] /\ call[c].status = "none"
      /\ row.status = "running" => call[parent[c]].status = "running"
      /\ pc \notin {"acting", "detached"} /\ 0 \in {0, 1} /\ ~(0 > 0)
      BY <1>1, <1>2, <1>3, ChildFacts DEF TypeOK, NoRow, Row
<1>6. QED BY <1>1, <1>2, <1>3, <1>4, <1>5, ChildMove

\* authorize_code_mode_call: a compare and swap on the admission.
LEMMA AuthorizeChildStep ==
    ASSUME IInv, NEW c \in Children, AuthorizeChild(c)
    PROVE  IInv'
<1>1. PICK pc \in Places, row \in RowType :
         /\ Goto(Run(c), pc) /\ call' = [call EXCEPT ![c] = row]
         /\ \/ pc = "abandon" /\ row = call[c]
            \/ /\ pc = "execute" /\ row.policy = "allow" /\ row.status = "running"
               /\ call[c].status = "running" /\ call[parent[c]].status = "running"
            \/ /\ pc = "done" /\ row.status = "denied" /\ call[c].status = "running"
  <2> DEFINE allow == [call[c] EXCEPT !.policy = "allow"]
  <2>1. /\ [call EXCEPT ![c].policy = "allow"] = [call EXCEPT ![c] = allow]
        /\ allow \in RowType /\ allow.policy = "allow" /\ allow.status = call[c].status
        /\ call = [call EXCEPT ![c] = call[c]]
        BY ChildFacts DEF RowType, TypeOK
  <2>2. /\ {"abandon", "execute", "done"} \subseteq Places /\ call[c] \in RowType
        /\ Row("denied", "deny") \in RowType /\ Row("denied", "deny").status = "denied"
        BY ChildFacts DEF Places, RowType, Row, Statuses
  <2>3. QED BY <2>1, <2>2 DEF AuthorizeChild
<1>2. UNCHANGED <<parent, program, turn, protecting, changed, up, crashes, effects>>
      BY DEF AuthorizeChild, policy, daemon
<1>3. /\ effects[c] = 0 /\ call'[c] = row /\ at'[Run(c)] = pc
      /\ parent[c] \in Programs /\ program[parent[c]].pc = "process"
  <2>1. Run(c) \in Actors /\ at[Run(c)] = "preflight"
        BY ActorFacts DEF AuthorizeChild
  <2>2. QED BY <2>1, <1>1, ChildFacts, GotoFacts DEF ChildOK, TypeOK
<1>4. ChildOK(c)'
      BY <1>1, <1>2, <1>3, ToolAssumption DEF ChildOK, Run
<1>5. /\ effects' = [effects EXCEPT ![c] = 0] /\ pc \notin {"acting", "detached"}
      /\ call[c].status # "none" => row.status # "none"
      /\ call[c].status = "none" => row.status = "none"
      /\ row.status = "running" => call[parent[c]].status = "running"
      /\ 0 \in {0, 1} /\ ~(0 > 0)
      BY <1>1, <1>2, <1>3, ChildFacts DEF TypeOK, IInv, CallsConsistent, NoChildOutlivesProgram
<1>6. QED BY <1>1, <1>2, <1>3, <1>4, <1>5, ChildMove

\* A settled child: what finish_tool_call may write.
LEMMA SettleChild ==
    ASSUME IInv, NEW c \in Children, NEW t \in {"completed", "failed"},
           at[Run(c)] \in {"abandon", "execute", "acting", "detached"}, Goto(Run(c), "done"),
           call' = IF MayFinish(c) THEN [call EXCEPT ![c].status = t] ELSE call,
           UNCHANGED <<parent, program, turn, protecting, changed, up, crashes, effects>>
    PROVE  IInv'
<1>1. PICK row \in RowType :
         /\ call' = [call EXCEPT ![c] = row]
         /\ row.policy = call[c].policy /\ row.approval = call[c].approval
         /\ \/ row.status = call[c].status
            \/ row.status = t /\ call[c].status = "running"
  <2> DEFINE settled == [call[c] EXCEPT !.status = t]
  <2>1. /\ [call EXCEPT ![c].status = t] = [call EXCEPT ![c] = settled]
        /\ settled \in RowType /\ settled.policy = call[c].policy
        /\ settled.approval = call[c].approval /\ settled.status = t
        /\ call = [call EXCEPT ![c] = call[c]] /\ call[c] \in RowType
        BY ChildFacts DEF RowType, TypeOK, Statuses
  <2>2. QED BY <2>1 DEF MayFinish
<1>2. call'[c] = row /\ at'[Run(c)] = "done"
  <2>1. Run(c) \in Actors
        BY ActorFacts
  <2>2. QED BY <2>1, <1>1, ChildFacts, GotoFacts DEF TypeOK
<1>3. parent[c] # NoCall /\ "done" \in Places
      BY ChildFacts DEF ChildOK, Places
<1>4. ChildOK(c)'
      BY <1>1, <1>2, <1>3, ChildFacts DEF ChildOK, Run
<1>5. /\ effects' = [effects EXCEPT ![c] = effects[c]] /\ "done" \notin {"acting", "detached"}
      /\ call[c].status # "none" => row.status # "none"
      /\ call[c].status = "none" => row.status = "none"
      /\ row.status = "running" => call[parent[c]].status = "running"
      BY <1>1, ChildFacts DEF TypeOK, IInv, CallsConsistent, NoChildOutlivesProgram
<1>6. effects[c] \in {0, 1} /\ parent[c] \in Programs
      /\ (effects[c] > 0 => row.policy = "allow" \/ (row.policy = "ask" /\ row.approval = "approved"))
      BY <1>1, <1>3, ChildFacts DEF IInv, EffectsOK, Authorized
<1>7. QED BY <1>1, <1>3, <1>4, <1>5, <1>6, ChildMove

\* A child is executed under the decision authorize_code_mode_call recorded.
LEMMA ExecuteChildStep ==
    ASSUME IInv, NEW c \in Children, Execute(Run(c))
    PROVE  IInv'
<1>1. Run(c) \in Actors /\ Run(c)[1] = c /\ Run(c)[2] = "run" /\ at[Run(c)] = "execute"
      BY ActorFacts DEF Execute
<1>2. CASE changed
      BY <1>1, <1>2, SettleChild DEF Execute, FinishToolCall, policy, daemon
<1>3. CASE ~changed
  <2>1. /\ Goto(Run(c), "acting") /\ UNCHANGED call /\ effects' = [effects EXCEPT ![c] = @ + 1]
        /\ UNCHANGED <<parent, program, turn, protecting, changed, up, crashes>>
        BY <1>1, <1>3 DEF Execute, policy, daemon
  <2>2. /\ effects[c] = 0 /\ call[c].policy = "allow" /\ call[c].status # "none"
        /\ parent[c] \in Programs /\ program[parent[c]].pc = "process"
        BY <1>1, ChildFacts DEF ChildOK
  <2>3. at'[Run(c)] = "acting" /\ effects'[c] = 1 /\ effects' = [effects EXCEPT ![c] = 1]
        BY <1>1, <2>1, <2>2, ChildFacts, GotoFacts DEF TypeOK
  <2>4. ChildOK(c)'
        BY <2>1, <2>2, <2>3, ToolAssumption DEF ChildOK, Run
  <2>5. /\ call' = [call EXCEPT ![c] = call[c]] /\ call[c] \in RowType /\ "acting" \in Places
        /\ call[c].status = "running" => call[parent[c]].status = "running"
        /\ 1 \in {0, 1}
        BY <2>1, ChildFacts DEF TypeOK, Places, IInv, CallsConsistent, NoChildOutlivesProgram
  <2>6. QED BY <1>3, <2>1, <2>2, <2>3, <2>4, <2>5, ChildMove
<1>4. QED BY <1>2, <1>3

\* finish_tool_call settles a child only while it and its program run.
LEMMA OperationEndsChildStep ==
    ASSUME IInv, NEW c \in Children, OperationEnds(Run(c))
    PROVE  IInv'
<1>1. Run(c)[1] = c /\ Run(c)[2] = "run" /\ at[Run(c)] = "acting"
      BY ActorFacts DEF OperationEnds
<1>2. QED BY <1>1, SettleChild DEF OperationEnds, FinishToolCall, policy, daemon

\* A child whose execution never began is recorded as failed.
LEMMA AbandonChildStep ==
    ASSUME IInv, NEW c \in Children, AbandonChild(c)
    PROVE  IInv'
BY SettleChild DEF AbandonChild, policy, daemon

\* A child's operation that went on after its process ended.
LEMMA DetachedChildStep ==
    ASSUME IInv, NEW c \in Children, DetachedReturns(Run(c))
    PROVE  IInv'
<1>1. /\ Goto(Run(c), "done") /\ at[Run(c)] = "detached"
      /\ UNCHANGED <<call, parent, program, turn, protecting, changed, up, crashes, effects>>
      BY DEF DetachedReturns, rows, policy, daemon
<1>2. at'[Run(c)] = "done" /\ parent[c] \in Programs
      BY <1>1, ActorFacts, ChildFacts, GotoFacts DEF ChildOK
<1>3. ChildOK(c)'
      BY <1>1, <1>2, ChildFacts DEF ChildOK, Run
<1>4. /\ call' = [call EXCEPT ![c] = call[c]] /\ call[c] \in RowType /\ "done" \in Places
      /\ effects' = [effects EXCEPT ![c] = effects[c]] /\ effects[c] \in {0, 1}
      /\ call[c].status = "running" => call[parent[c]].status = "running"
      BY <1>1, ChildFacts DEF TypeOK, Places, IInv, CallsConsistent, NoChildOutlivesProgram
<1>5. effects[c] > 0 => call[c].policy = "allow"
                        \/ (call[c].policy = "ask" /\ call[c].approval = "approved")
      BY ChildFacts DEF IInv, EffectsOK, Authorized
<1>6. QED BY <1>1, <1>2, <1>3, <1>4, <1>5, ChildMove

-----------------------------------------------------------------------------
(* The steps of the programs.                                              *)

\* Steps that touch no direct call keep all of them in order.
LEMMA DirectsFrame ==
    ASSUME IInv, \A d \in Direct : call'[d] = call[d] /\ effects'[d] = effects[d],
           \A d \in Direct : at'[Run(d)] = at[Run(d)],
           \A d \in Direct, r \in Resolvers : at'[<<d, r>>] = at[<<d, r>>]
    PROVE  DirectOK'
BY DirectFrame DEF IInv, DirectOK

\* What the invariant says of one program.
LEMMA ProgramFacts ==
    ASSUME IInv, NEW p \in Programs
    PROVE  /\ TypeOK /\ p \in Calls /\ p \notin Direct /\ p \notin Children /\ p # NoCall
           /\ call[p] \in RowType /\ effects[p] = 0
           /\ \A q \in Programs : program[p].pc \in Supervised /\ program[q].pc \in Supervised => p = q
           /\ program[p].pc \in {"idle", "count"} => Child(p) = {} /\ program[p].calls = 0
           /\ program \in [Programs -> ProgramType] /\ program[p] \in ProgramType
BY ToolAssumption DEF ProgramType, IInv, CallsConsistent, TypeOK, ProgramsOK, Calls, RowType

\* code_mode_supervise starts the next program, alone in its wave.
LEMMA StartProgramStep ==
    ASSUME IInv, StartProgram
    PROVE  IInv'
<1>1. PICK p \in Programs :
         /\ program[p].pc = "idle" /\ \A q \in Programs : program[q].pc \notin Supervised
         /\ program' = [program EXCEPT ![p].pc = "count"]
         /\ call' = [call EXCEPT ![p] = Row("running", "allow")]
      BY DEF StartProgram, RunGoesOn
<1>2. UNCHANGED <<parent, at, turn, protecting, changed, up, crashes, effects>>
      BY DEF StartProgram, policy, daemon
<1>3. /\ call'[p] = Row("running", "allow") /\ \A c \in Calls \ {p} : call'[c] = call[c]
      /\ program'[p].pc = "count" /\ program'[p].calls = program[p].calls
      /\ \A q \in Programs \ {p} : program'[q] = program[q]
      BY <1>1, ProgramFacts DEF TypeOK
<1>4. TypeOK'
  <2>1. Row("running", "allow") \in RowType
        BY DEF Row, RowType, Statuses
  <2>2. call' \in [Calls -> RowType]
        BY <1>1, <2>1, ProgramFacts DEF TypeOK, RowType
  <2>3. program' \in [Programs -> ProgramType]
        BY <1>1, ProgramFacts DEF ProgramType, Supervised
  <2>4. QED BY <1>2, <2>2, <2>3 DEF IInv, CallsConsistent, TypeOK, RowType, ProgramType
<1>5. \A c \in Children : c \in Calls \ {p}
      BY ProgramFacts DEF Calls
<1>6. \A d \in Direct : d \in Calls \ {p}
      BY ProgramFacts DEF Calls
<1>7. ChildCallLimit'
  <2>1. {c \in Children : call'[c].status # "none"} = {c \in Children : call[c].status # "none"}
        BY <1>3, <1>5
  <2>2. QED BY <2>1 DEF IInv, CallsConsistent, ChildCallLimit
<1>8. NoChildOutlivesProgram'
  <2>1. ASSUME NEW c \in Children, call'[c].status = "running"
        PROVE  call'[parent'[c]].status = "running"
    <3>1. call[c].status = "running" /\ parent[c] \in Programs
          BY <2>1, <1>3, <1>5, ChildFacts DEF ChildOK, NoRow, Row
    <3>2. call[parent[c]].status = "running" /\ parent[c] \in Calls
          BY <3>1, ProgramFacts DEF IInv, CallsConsistent, NoChildOutlivesProgram
    <3>3. QED BY <3>2, <1>2, <1>3 DEF Row
  <2>2. QED BY <2>1 DEF NoChildOutlivesProgram
<1>9. RunningProgramIsSupervised'
      BY <1>2, <1>3, ProgramFacts
      DEF IInv, CallsConsistent, RunningProgramIsSupervised, Supervised
<1>10. DirectOK'
      BY <1>2, <1>3, <1>6, DirectsFrame
<1>11. ChildrenOK'
  <2>1. \A q \in Programs : program[q].pc = "process" => program'[q].pc = "process"
        BY <1>1, <1>3
  <2>2. QED BY <2>1, <1>2, <1>3, <1>5, ChildFrame DEF IInv, ChildrenOK
<1>12. ProgramsOK'
  <2>1. \A q \in Programs : q # p => program'[q].pc \notin Supervised /\ call'[q] = call[q]
        BY <1>1, <1>3, ProgramFacts
  <2>2. \A q \in Programs : Child(q)' = Child(q)
        BY <1>2 DEF Child
  <2>3. Child(p) = {} /\ program[p].calls = 0
        BY <1>1, ProgramFacts
  <2>4. QED BY <2>1, <2>2, <2>3, <1>2, <1>3 DEF IInv, ProgramsOK, Supervised
<1>13. BudgetOK'
      BY <1>1, <1>3 DEF BudgetOK, Supervised
<1>14. EffectsOK'
      BY <1>2, <1>3, ProgramFacts DEF IInv, EffectsOK, Authorized
<1>15. ProtectionHolds'
      BY <1>2 DEF IInv, ProtectionHolds
<1>16. QED BY <1>4, <1>7, <1>8, <1>9, <1>10, <1>11, <1>12, <1>13, <1>14, <1>15
       DEF IInv, CallsConsistent

\* The supervisor of one program moves on; its children keep their rows.  What
\* is left to show is about this program and where its children are.
LEMMA ProgramMove ==
    ASSUME IInv, NEW p \in Programs, program[p].pc \in {"count", "process"},
           program' \in [Programs -> ProgramType],
           program'[p].pc \in {"process", "ended"},
           \A q \in Programs \ {p} : program'[q] = program[q],
           at' \in [Actors -> Places],
           \A d \in Direct : at'[Run(d)] = at[Run(d)],
           \A d \in Direct, r \in Resolvers : at'[<<d, r>>] = at[<<d, r>>],
           changed => \A c \in Children : at'[Run(c)] \notin {"acting", "detached"},
           parent' \in [Children -> Programs \cup {NoCall}],
           \A c \in Children : parent'[c] # parent[c] =>
              parent[c] = NoCall /\ parent'[c] = p /\ program'[p].pc = "process",
           UNCHANGED <<call, turn, protecting, changed, up, crashes, effects>>,
           ChildrenOK', BudgetOK'
    PROVE  IInv'
<1>1. TypeOK'
      BY DEF IInv, CallsConsistent, TypeOK, Places, ProgramType
<1>2. ChildCallLimit'
      BY DEF IInv, CallsConsistent, ChildCallLimit
<1>3. NoChildOutlivesProgram'
      BY ChildFacts DEF IInv, CallsConsistent, NoChildOutlivesProgram, ChildOK, NoRow, Row
<1>4. RunningProgramIsSupervised'
      BY DEF IInv, CallsConsistent, RunningProgramIsSupervised, Supervised
<1>5. DirectOK'
      BY DirectsFrame
<1>6. ProgramsOK'
  <2>1. \A q \in Programs : program'[q].pc \in Supervised => program[q].pc \in Supervised
        BY DEF Supervised
  <2>2. \A q \in Programs : program'[q].pc \in {"idle", "count"} =>
          q # p /\ program'[q] = program[q] /\ Child(q)' = Child(q)
        BY ProgramFacts DEF Child
  <2>3. QED BY <2>1, <2>2 DEF IInv, ProgramsOK
<1>7. EffectsOK'
      BY DEF IInv, EffectsOK, Authorized
<1>8. ProtectionHolds'
  <2>1. ASSUME changed, NEW a \in Actors PROVE at'[a] \notin {"acting", "detached"}
        BY <2>1, ActorFacts DEF IInv, ProtectionHolds
  <2>2. QED BY <2>1 DEF ProtectionHolds
<1>9. QED BY <1>1, <1>2, <1>3, <1>4, <1>5, <1>6, <1>7, <1>8 DEF IInv, CallsConsistent

\* There is a least number in a set of numbers, so a program that asks for a
\* call gets one that is not in use.
LEMMA LessThanWellFounded == IsWellFoundedOn({ss \in Nat \X Nat : ss[1] < ss[2]}, Nat)
<1>1. OpToRel(<, Nat) = {ss \in Nat \X Nat : ss[1] < ss[2]}
      BY Zenon DEF OpToRel
<1>2. QED BY <1>1, NatLessThanWellFounded, Zenon

\* Min picks a member.
LEMMA MinIsMember ==
    ASSUME NEW S \in SUBSET Nat, S # {}
    PROVE  Min(S) \in S
<1> DEFINE less == {ss \in Nat \X Nat : ss[1] < ss[2]}
<1>1. PICK x \in S : \A y \in S : <<y, x>> \notin less
      BY LessThanWellFounded, WFMin
<1>2. ASSUME NEW y \in S PROVE x <= y
  <2> DEFINE pair == <<y, x>>
  <2>1. pair \in Nat \X Nat /\ pair[1] = y /\ pair[2] = x
        OBVIOUS
  <2>2. ~(pair[1] < pair[2])
        BY <1>1, <2>1, Zenon
  <2>3. QED BY <2>1, <2>2
<1>3. QED BY <1>2 DEF Min

\* code_mode_process counts the calls there are.
LEMMA CountCallsStep ==
    ASSUME IInv, NEW p \in Programs, CountCalls(p)
    PROVE  IInv'
<1>1. /\ program[p].pc = "count" /\ Child(p) = {} /\ program[p].calls = 0
      /\ UNCHANGED <<call, parent, at, turn, protecting, changed, up, crashes, effects>>
      BY ProgramFacts DEF CountCalls, rows, policy, daemon
<1>2. Used \in Nat /\ MaxCalls \in Nat
      BY CallCount, ProgramFacts, ToolAssumption DEF Used
<1>3. PICK pc \in {"process", "ended"}, n \in 0..MaxCalls :
         /\ program' = [program EXCEPT ![p].pc = pc, ![p].remaining = n]
         /\ pc = "process" => Used + n = MaxCalls
  <2>1. CASE Used >= MaxCalls
    <3>1. [program EXCEPT ![p].pc = "ended"]
            = [program EXCEPT ![p].pc = "ended", ![p].remaining = program[p].remaining]
          BY ProgramFacts DEF TypeOK
    <3>2. program[p].remaining \in 0..MaxCalls
          BY ProgramFacts DEF ProgramType
    <3>3. QED BY <2>1, <3>1, <3>2 DEF CountCalls
  <2>2. CASE ~(Used >= MaxCalls)
    <3>1. MaxCalls - Used \in 0..MaxCalls /\ Used + (MaxCalls - Used) = MaxCalls
          BY <2>2, <1>2
    <3>2. program' = [program EXCEPT ![p].pc = "process", ![p].remaining = MaxCalls - Used]
          BY <2>2 DEF CountCalls
    <3>3. QED BY <3>1, <3>2
  <2>3. QED BY <2>1, <2>2
<1>4. /\ program'[p].pc = pc /\ program'[p].remaining = n /\ program'[p].calls = 0
      /\ \A q \in Programs \ {p} : program'[q] = program[q]
      BY <1>1, <1>3, ProgramFacts DEF TypeOK
<1>5. program' \in [Programs -> ProgramType]
      BY <1>3, ProgramFacts DEF ProgramType, Supervised
<1>6. ChildrenOK'
      BY <1>1, <1>4, ChildFrame DEF IInv, ChildrenOK
<1>7. BudgetOK'
  <2>1. ASSUME NEW q \in Programs, program'[q].pc = "process" PROVE q = p
        BY <2>1, <1>1, <1>4, ProgramFacts DEF Supervised
  <2>2. {c \in Children : call[c].status # "none" /\ parent[c] # p}
          = {c \in Children : call[c].status # "none"}
        BY <1>1 DEF Child
  <2>3. Cardinality({c \in Children : call'[c].status # "none" /\ parent'[c] # p}) = Used
        BY <2>2, <1>1 DEF Used
  <2>4. Cardinality(Child(p)') = 0
        BY <1>1, FS_EmptySet DEF Child
  <2>5. program'[p].pc = "process" =>
          /\ Cardinality(Child(p)') = program'[p].calls
          /\ program'[p].calls <= program'[p].remaining
          /\ Cardinality({c \in Children : call'[c].status # "none" /\ parent'[c] # p})
               + program'[p].remaining <= MaxCalls
        BY <2>3, <2>4, <1>2, <1>3, <1>4
  <2>6. QED BY <2>1, <2>5 DEF BudgetOK
<1>8. at' \in [Actors -> Places] /\ parent' \in [Children -> Programs \cup {NoCall}]
      /\ (changed => \A c \in Children : at'[Run(c)] \notin {"acting", "detached"})
      BY <1>1, ProgramFacts, ActorFacts DEF TypeOK, Places, IInv, ProtectionHolds
<1>9. /\ \A d \in Direct : at'[Run(d)] = at[Run(d)]
      /\ \A d \in Direct, r \in Resolvers : at'[<<d, r>>] = at[<<d, r>>]
      /\ \A c \in Children : parent'[c] # parent[c] =>
           parent[c] = NoCall /\ parent'[c] = p /\ program'[p].pc = "process"
      /\ program'[p].pc \in {"process", "ended"}
      BY <1>1, <1>4
<1>10. QED BY <1>1, <1>4, <1>5, <1>6, <1>7, <1>8, <1>9, ProgramMove

\* The worker is done or has failed, or its supervisor stops it: the calls the
\* process waits for are dropped with its future.
LEMMA ProcessEndsStep ==
    ASSUME IInv, NEW p \in Programs, NEW ok \in BOOLEAN, program[p].pc \in {"count", "process"},
           ProcessEnds(p, ok),
           UNCHANGED <<call, parent, turn, protecting, changed, up, crashes, effects>>
    PROVE  IInv'
<1>1. /\ program'[p].pc = "ended" /\ \A q \in Programs \ {p} : program'[q] = program[q]
      /\ program' \in [Programs -> ProgramType]
      BY ProgramFacts DEF ProcessEnds, ProgramType, Supervised
<1>2. at' = Dropped(Pending(p) \X {"run"})
      BY DEF ProcessEnds
<1>3. \A c \in Children : at'[Run(c)] = IF c \notin Pending(p) THEN at[Run(c)]
                                        ELSE IF at[Run(c)] = "acting" THEN "detached" ELSE "done"
  <2>1. \A c \in Children : Run(c) \in Actors /\ (Run(c) \in Pending(p) \X {"run"} <=> c \in Pending(p))
        BY ActorFacts DEF Run
  <2>2. QED BY <2>1, <1>2 DEF Dropped
<1>4. \A d \in Direct : at'[Run(d)] = at[Run(d)]
  <2>1. \A d \in Direct : d \notin Pending(p)
        BY ToolAssumption DEF Pending, Child
  <2>2. \A d \in Direct : Run(d) \in Actors /\ Run(d) \notin Pending(p) \X {"run"}
        BY <2>1, ActorFacts DEF Run
  <2>3. QED BY <2>2, <1>2 DEF Dropped
<1>5. \A d \in Direct, r \in Resolvers : at'[<<d, r>>] = at[<<d, r>>]
  <2>1. \A d \in Direct, r \in Resolvers : <<d, r>> \in Actors /\ <<d, r>> \notin Pending(p) \X {"run"}
        BY ActorFacts
  <2>2. QED BY <2>1, <1>2 DEF Dropped
<1>6. at' \in [Actors -> Places] /\ parent' \in [Children -> Programs \cup {NoCall}]
      /\ (changed => \A c \in Children : at'[Run(c)] \notin {"acting", "detached"})
  <2>1. at' \in [Actors -> Places]
        BY <1>2, ProgramFacts DEF Dropped, TypeOK, Places
  <2>2. changed => \A c \in Children : at[Run(c)] \notin {"acting", "detached"}
        BY ActorFacts DEF IInv, ProtectionHolds
  <2>3. QED BY <2>1, <2>2, <1>3, ProgramFacts DEF TypeOK
<1>7. ChildrenOK'
  <2>1. ASSUME NEW c \in Children PROVE ChildOK(c)'
    <3>1. CASE c \in Pending(p)
      <4>1. at'[Run(c)] \in {"done", "detached"} /\ parent[c] = p /\ p # NoCall
            BY <3>1, <1>3, ProgramFacts DEF Pending, Child
      <4>2. QED BY <4>1, ChildFacts DEF ChildOK, Run
    <3>2. CASE c \notin Pending(p)
      <4>1. at'[Run(c)] = at[Run(c)]
            BY <3>2, <1>3
      <4>2. CASE at[Run(c)] \in {"admit", "preflight", "abandon", "execute", "acting"}
        <5>1. parent[c] # p /\ parent[c] \in Programs
              BY <3>2, <4>2, ChildFacts DEF ChildOK, Pending, Child
        <5>2. QED BY <5>1, <4>1, <1>1, ChildFacts DEF ChildOK, Run
      <4>3. CASE at[Run(c)] \notin {"admit", "preflight", "abandon", "execute", "acting"}
            BY <4>3, <4>1, ChildFacts DEF ChildOK, Run
      <4>4. QED BY <4>2, <4>3
    <3>3. QED BY <3>1, <3>2
  <2>2. QED BY <2>1 DEF ChildrenOK
<1>8. BudgetOK'
  <2>1. \A q \in Programs : program'[q].pc # "process"
        BY <1>1, ProgramFacts DEF Supervised
  <2>2. QED BY <2>1 DEF BudgetOK
<1>9. \A c \in Children : parent'[c] # parent[c] =>
         parent[c] = NoCall /\ parent'[c] = p /\ program'[p].pc = "process"
      OBVIOUS
<1>10. QED BY <1>1, <1>4, <1>5, <1>6, <1>7, <1>8, <1>9, ProgramMove

\* The worker asks for a call: it gets one that is not in use, or has used up
\* what the turn grants it.
LEMMA WorkerCallsStep ==
    ASSUME IInv, NEW p \in Programs, WorkerCalls(p)
    PROVE  IInv'
<1> DEFINE unused == {c \in Children : parent[c] = NoCall}
<1>1. /\ program[p].pc = "process"
      /\ UNCHANGED <<call, turn, protecting, changed, up, crashes, effects>>
      BY DEF WorkerCalls, policy, daemon
<1>2. CASE ProcessEnds(p, FALSE) /\ UNCHANGED parent
      BY <1>1, <1>2, ProcessEndsStep
<1>3. CASE /\ program[p].calls < program[p].remaining /\ unused # {}
           /\ program' = [program EXCEPT ![p].calls = @ + 1]
           /\ parent' = [parent EXCEPT ![Min(unused)] = p]
           /\ Goto(Run(Min(unused)), "admit")
  <2>1. PICK c \in Children : c = Min(unused) /\ parent[c] = NoCall
    <3>1. unused \in SUBSET Nat
          BY ToolAssumption
    <3>2. Min(unused) \in unused
          BY <1>3, <3>1, MinIsMember
    <3>3. QED BY <3>2
  <2>2. /\ c \in Children /\ parent[c] = NoCall
        /\ parent' = [parent EXCEPT ![c] = p] /\ Goto(Run(c), "admit")
        BY <2>1, <1>3
  <2>3. /\ call[c] = NoRow /\ effects[c] = 0 /\ at[Run(c)] \in {"idle", "done"}
        /\ parent'[c] = p /\ \A e \in Children \ {c} : parent'[e] = parent[e]
        /\ parent' \in [Children -> Programs \cup {NoCall}]
        BY <2>2, ChildFacts, ProgramFacts DEF ChildOK, TypeOK, NoRow, Row
  <2>4. \A b \in Actors : at'[b] = IF b = Run(c) THEN "admit" ELSE at[b]
        BY <2>2, GotoFacts, ActorFacts DEF IInv, CallsConsistent
  <2>5. /\ program'[p].pc = "process" /\ program'[p].remaining = program[p].remaining
        /\ program'[p].calls = program[p].calls + 1
        /\ \A q \in Programs \ {p} : program'[q] = program[q]
        /\ program' \in [Programs -> ProgramType]
    <3>1. program[p].calls + 1 \in 0..MaxCalls
          BY <1>3, ProgramFacts, ToolAssumption DEF ProgramType
    <3>2. QED BY <3>1, <1>1, <1>3, ProgramFacts DEF ProgramType
  <2>6. ChildrenOK'
    <3>1. ChildOK(c)'
      <4>1. at'[Run(c)] = "admit"
            BY <2>2, <2>4, ActorFacts
      <4>2. p # NoCall
            BY ProgramFacts
      <4>3. QED BY <4>1, <4>2, <1>1, <2>3, <2>5 DEF ChildOK, Run
    <3>2. ASSUME NEW e \in Children, e # c PROVE ChildOK(e)'
      <4>1. at'[Run(e)] = at[Run(e)]
            BY <3>2, <2>4, ActorFacts
      <4>2. \A q \in Programs : program[q].pc = "process" => program'[q].pc = "process"
            BY <2>5
      <4>3. QED BY <4>1, <4>2, <3>2, <1>1, <2>3, ChildFrame DEF IInv, ChildrenOK
    <3>3. QED BY <3>1, <3>2 DEF ChildrenOK
  <2>7. BudgetOK'
    <3>1. ASSUME NEW q \in Programs, program'[q].pc = "process" PROVE q = p
          BY <3>1, <1>1, <2>5, ProgramFacts DEF Supervised
    <3>2. Child(p)' = Child(p) \cup {c} /\ c \notin Child(p)
          BY <2>2, <2>3, ProgramFacts DEF Child
    <3>3. Cardinality(Child(p)') = program[p].calls + 1
      <4>1. IsFiniteSet(Child(p))
            BY ToolAssumption, FS_Subset DEF Child
      <4>2. Cardinality(Child(p)) = program[p].calls
            BY <1>1 DEF IInv, BudgetOK
      <4>3. QED BY <3>2, <4>1, <4>2, FS_AddElement
    <3>4. {e \in Children : call'[e].status # "none" /\ parent'[e] # p}
            = {e \in Children : call[e].status # "none" /\ parent[e] # p}
          BY <1>1, <2>2, <2>3 DEF NoRow, Row
    <3>5. Cardinality({e \in Children : call'[e].status # "none" /\ parent'[e] # p})
            + program'[p].remaining <= MaxCalls
          BY <3>4, <1>1, <2>5 DEF IInv, BudgetOK
    <3>6. program'[p].calls <= program'[p].remaining
          BY <1>3, <2>5, ProgramFacts DEF ProgramType
    <3>7. QED BY <3>1, <3>3, <3>5, <3>6, <2>5 DEF BudgetOK
  <2>8. at' \in [Actors -> Places]
        BY <2>2, ProgramFacts DEF Goto, TypeOK, Places
  <2>9. /\ \A d \in Direct : at'[Run(d)] = at[Run(d)]
        /\ \A d \in Direct, r \in Resolvers : at'[<<d, r>>] = at[<<d, r>>]
        /\ changed => \A e \in Children : at'[Run(e)] \notin {"acting", "detached"}
    <3>1. \A d \in Direct : d # c
          BY <2>2, ToolAssumption
    <3>2. QED BY <3>1, <2>4, ActorFacts DEF IInv, ProtectionHolds
  <2>10. \A e \in Children : parent'[e] # parent[e] =>
           parent[e] = NoCall /\ parent'[e] = p /\ program'[p].pc = "process"
        BY <2>2, <2>3, <2>5
  <2>11. program[p].pc \in {"count", "process"} /\ program'[p].pc \in {"process", "ended"}
        BY <1>1, <2>5
  <2>12. QED BY <1>1, <2>3, <2>5, <2>6, <2>7, <2>8, <2>9, <2>10, <2>11, ProgramMove
<1>4. QED BY <1>2, <1>3 DEF WorkerCalls

\* A program whose worker is done, or that is stopped.
LEMMA WorkerEndsStep ==
    ASSUME IInv, NEW p \in Programs, WorkerEnds(p) \/ StopProgram(p)
    PROVE  IInv'
<1>1. /\ program[p].pc \in {"count", "process"} /\ \E ok \in BOOLEAN : ProcessEnds(p, ok)
      /\ UNCHANGED <<call, parent, turn, protecting, changed, up, crashes, effects>>
      BY DEF WorkerEnds, StopProgram, rows, policy, daemon
<1>2. QED BY <1>1, ProcessEndsStep

\* Running calls that have no task left are settled, and their rows keep the
\* decision.
Settles(S) ==
    call' \in [Calls -> RowType] /\ \A c \in Calls :
        /\ call'[c].policy = call[c].policy /\ call'[c].approval = call[c].approval
        /\ IF c \in S /\ call[c].status = "running" THEN call'[c].status \in Settled
           ELSE call'[c] = call[c]

\* finish_code_mode and interrupt_code_mode_calls settle calls by themselves.
LEMMA SettlesStep ==
    ASSUME IInv, NEW S \in SUBSET (Programs \cup Children), Settles(S),
           program' \in [Programs -> ProgramType], turn' \in Turns, up' \in BOOLEAN,
           UNCHANGED <<parent, at, protecting, changed, crashes, effects>>,
           \A c \in Children : parent[c] \in S \cap Programs => c \in S,
           \A q \in Programs : program'[q] # program[q] =>
              q \in S /\ program[q].pc = "ended" /\ program'[q].pc = "done",
           \A q \in Programs : up' /\ ~up => q \in S
    PROVE  IInv'
<1>1. TypeOK'
      BY DEF IInv, CallsConsistent, TypeOK, Settles, RowType, ProgramType, Turns
<1>2. \A c \in Children : c \in Calls /\ (call'[c].status # "none" <=> call[c].status # "none")
      BY DEF Settles, Settled, Calls
<1>3. ChildCallLimit'
  <2>1. {c \in Children : call'[c].status # "none"} = {c \in Children : call[c].status # "none"}
        BY <1>2
  <2>2. QED BY <2>1 DEF IInv, CallsConsistent, ChildCallLimit
<1>4. NoChildOutlivesProgram'
  <2>1. ASSUME NEW c \in Children, call'[c].status = "running"
        PROVE  call'[parent'[c]].status = "running"
    <3>1. call[c].status = "running" /\ c \notin S
          BY <2>1, <1>2 DEF Settles, Settled
    <3>2. parent[c] \in Programs /\ parent[c] \notin S /\ call[parent[c]].status = "running"
          BY <3>1, ChildFacts DEF ChildOK, NoRow, Row, IInv, CallsConsistent, NoChildOutlivesProgram
    <3>3. parent[c] \in Calls
          BY <3>2 DEF Calls
    <3>4. QED BY <3>2, <3>3 DEF Settles
  <2>2. QED BY <2>1 DEF NoChildOutlivesProgram
<1>5. RunningProgramIsSupervised'
  <2>1. ASSUME up', NEW q \in Programs, call'[q].status = "running"
        PROVE  program'[q].pc \in Supervised
    <3>1. call[q].status = "running" /\ q \notin S
          BY <2>1 DEF Settles, Settled, Calls
    <3>2. up /\ program'[q] = program[q]
          BY <3>1, <2>1
    <3>3. QED BY <3>1, <3>2 DEF IInv, CallsConsistent, RunningProgramIsSupervised
  <2>2. QED BY <2>1 DEF RunningProgramIsSupervised
<1>6. DirectOK'
  <2>1. \A d \in Direct : call'[d] = call[d]
        BY ToolAssumption DEF Settles, Calls
  <2>2. QED BY <2>1, DirectsFrame
<1>7. ChildrenOK'
  <2>1. ASSUME NEW c \in Children PROVE ChildOK(c)'
    <3>1. /\ call[c] = NoRow => call'[c] = NoRow
          /\ call'[c].policy = call[c].policy
          BY <1>2 DEF Settles, NoRow, Row
    <3>2. \A q \in Programs : program[q].pc = "process" => program'[q].pc = "process"
          OBVIOUS
    <3>3. QED BY <3>1, <3>2, <1>2, ChildFacts DEF ChildOK, Run
  <2>2. QED BY <2>1 DEF ChildrenOK
<1>8. ProgramsOK'
  <2>1. \A q \in Programs : program'[q].pc \in Supervised \cup {"idle"} => program'[q] = program[q]
        BY DEF Supervised
  <2>2. \A q \in Programs : call[q] = NoRow => call'[q] = NoRow
        BY DEF Settles, Calls, NoRow, Row
  <2>3. \A q \in Programs : Child(q)' = Child(q)
        BY DEF Child
  <2>4. QED BY <2>1, <2>2, <2>3 DEF IInv, ProgramsOK, Supervised
<1>9. BudgetOK'
  <2>1. ASSUME NEW q \in Programs, program'[q].pc = "process"
        PROVE  /\ program[q].pc = "process" /\ program'[q] = program[q] /\ Child(q)' = Child(q)
               /\ {c \in Children : call'[c].status # "none" /\ parent'[c] # q}
                    = {c \in Children : call[c].status # "none" /\ parent[c] # q}
        BY <2>1, <1>2 DEF Child
  <2>2. QED BY <2>1 DEF IInv, BudgetOK
<1>10. EffectsOK'
      BY DEF IInv, EffectsOK, Authorized, Settles
<1>11. ProtectionHolds'
      BY DEF IInv, ProtectionHolds
<1>12. QED BY <1>1, <1>3, <1>4, <1>5, <1>6, <1>7, <1>8, <1>9, <1>10, <1>11
       DEF IInv, CallsConsistent

\* finish_code_mode settles the program and its running children.
LEMMA FinishCodeModeStep ==
    ASSUME IInv, NEW p \in Programs, FinishCodeMode(p)
    PROVE  IInv' /\ Settles({p} \cup Child(p))
<1> DEFINE S == {p} \cup Child(p)
<1>1. S \in SUBSET (Programs \cup Children)
      BY DEF Child
<1>2. Settles(S)
  <2>1. Outcome(p) \in {"cancelled", "completed", "failed"}
        BY DEF Outcome
  <2>2. call \in [Calls -> RowType] /\ call' = FinishProgram(p)
        BY ProgramFacts DEF TypeOK, RowType, FinishCodeMode
  <2>3. ASSUME NEW c \in Calls
        PROVE  /\ call'[c] \in RowType
               /\ call'[c].policy = call[c].policy /\ call'[c].approval = call[c].approval
               /\ IF c \in S /\ call[c].status = "running" THEN call'[c].status \in Settled
                  ELSE call'[c] = call[c]
    <3>1. \A t \in Settled : /\ [call[c] EXCEPT !.status = t] \in RowType
                             /\ [call[c] EXCEPT !.status = t].policy = call[c].policy
                             /\ [call[c] EXCEPT !.status = t].approval = call[c].approval
                             /\ [call[c] EXCEPT !.status = t].status = t
          BY <2>2 DEF RowType, Settled, Statuses
    <3>2. call'[c] = IF c = p /\ call[p].status = "running" THEN [call[c] EXCEPT !.status = Outcome(p)]
                     ELSE IF c \in Child(p) /\ call[c].status = "running"
                          THEN [call[c] EXCEPT !.status = "cancelled"]
                     ELSE call[c]
          BY <2>2 DEF FinishProgram
    <3>3. QED BY <3>1, <3>2, <2>1, <2>2 DEF Settled
  <2>4. call' = [c \in Calls |-> call'[c]]
        BY <2>2 DEF FinishProgram
  <2>5. QED BY <2>3, <2>4 DEF Settles
<1>3. /\ program[p].pc = "ended" /\ program' = [program EXCEPT ![p] = NotSupervised("done")]
      /\ UNCHANGED <<parent, at, turn, protecting, changed, up, crashes, effects>>
      BY DEF FinishCodeMode, policy, daemon
<1>4. program' \in [Programs -> ProgramType] /\ NotSupervised("done").pc = "done"
      BY <1>3, ProgramFacts, ToolAssumption DEF NotSupervised, ProgramType
<1>5. \A q \in Programs : program'[q] # program[q] =>
         q \in S /\ program[q].pc = "ended" /\ program'[q].pc = "done"
      BY <1>3, <1>4, ProgramFacts
<1>6. \A c \in Children : parent[c] \in S \cap Programs => c \in S
      BY ProgramFacts, ToolAssumption, ChildFacts DEF Child
<1>7. turn' \in Turns /\ up' \in BOOLEAN /\ ~(up' /\ ~up)
      BY <1>3, ProgramFacts DEF TypeOK, Turns
<1>8. IInv'
      BY <1>1, <1>2, <1>3, <1>4, <1>5, <1>6, <1>7, SettlesStep
<1>9. QED BY <1>2, <1>8

-----------------------------------------------------------------------------
(* The steps of the gate, the turn and the daemon.                         *)

\* A step that moves tasks and leaves the rows alone, as all the following do
\* but the restart: what is left to show is about the tasks.
LEMMA TasksMove ==
    ASSUME IInv, at' \in [Actors -> Places], program' \in [Programs -> ProgramType],
           turn' \in Turns, {protecting', changed', up'} \subseteq BOOLEAN,
           crashes' \in 0..MaxCrashes,
           UNCHANGED <<call, parent, effects>>,
           \A d \in Direct : DirectCallOK(d)',
           \/ /\ up' = up /\ \A c \in Children : at'[Run(c)] = at[Run(c)]
              /\ \A p \in Programs : /\ program'[p].pc = program[p].pc
                                     /\ program'[p].calls = program[p].calls
                                     /\ program'[p].remaining = program[p].remaining
           \/ /\ ~up' /\ \A c \in Children : at'[Run(c)] = "done"
              /\ \A p \in Programs : program'[p].pc = "done",
           changed' => \A a \in Actors : at'[a] \notin {"acting", "detached"}
    PROVE  IInv'
<1>1. TypeOK'
      BY DEF IInv, CallsConsistent, TypeOK, Places, ProgramType, Turns
<1>2. ChildCallLimit' /\ NoChildOutlivesProgram'
      BY DEF IInv, CallsConsistent, ChildCallLimit, NoChildOutlivesProgram
<1>3. RunningProgramIsSupervised'
      BY DEF IInv, CallsConsistent, RunningProgramIsSupervised
<1>4. DirectOK'
      BY DEF DirectOK
<1>5. ChildrenOK'
  <2>1. ASSUME NEW c \in Children PROVE ChildOK(c)'
        BY ChildFacts DEF ChildOK, Run
  <2>2. QED BY <2>1 DEF ChildrenOK
<1>6. ProgramsOK'
      BY DEF IInv, ProgramsOK, Child, Supervised
<1>7. BudgetOK'
      BY DEF IInv, BudgetOK, Child
<1>8. EffectsOK' /\ ProtectionHolds'
      BY DEF IInv, EffectsOK, Authorized, ProtectionHolds
<1>9. QED BY <1>1, <1>2, <1>3, <1>4, <1>5, <1>6, <1>7, <1>8 DEF IInv, CallsConsistent

\* activate takes the gate when nothing is inside.
LEMMA ProtectStep ==
    ASSUME IInv, ProtectBegins \/ ProtectCommits
    PROVE  IInv'
<1>1. /\ {protecting', changed', up'} \subseteq BOOLEAN /\ up' = up
      /\ UNCHANGED <<call, parent, at, program, turn, up, crashes, effects>>
      BY DEF ProtectBegins, ProtectCommits, rows, daemon, IInv, CallsConsistent, TypeOK
<1>2. /\ at' \in [Actors -> Places] /\ program' \in [Programs -> ProgramType] /\ turn' \in Turns
      /\ crashes' \in 0..MaxCrashes
      BY <1>1 DEF IInv, CallsConsistent, TypeOK, Places, ProgramType, Turns
<1>3. \A d \in Direct : DirectCallOK(d)'
      BY <1>1, DirectFrame DEF IInv, DirectOK
<1>4. changed' => \A a \in Actors : at'[a] \notin {"acting", "detached"}
      BY <1>1 DEF ProtectBegins, ProtectCommits, Holds, IInv, ProtectionHolds
<1>5. QED BY <1>1, <1>2, <1>3, <1>4, TasksMove

\* What the steps below say of the runs of the direct calls: each stays, or
\* goes where a call is that was not begun or is given up.
RunsMove ==
    /\ at' \in [Actors -> Places]
    /\ \A d \in Direct :
         \/ at'[Run(d)] = at[Run(d)]
         \/ at'[Run(d)] = "submit" /\ at[Run(d)] \in {"ready", "may_pause"}
         \/ at'[Run(d)] = "done"
         \/ at'[Run(d)] = "detached" /\ at[Run(d)] = "acting"
    /\ \A d \in Direct, r \in Resolvers : at'[<<d, r>>] = at[<<d, r>>]
    /\ \A c \in Children : at'[Run(c)] = at[Run(c)]

\* Such a move keeps every direct call in order.
LEMMA RunsMoveKeeps ==
    ASSUME IInv, RunsMove, UNCHANGED <<call, effects>>
    PROVE  \A d \in Direct : DirectCallOK(d)'
<1>1. ASSUME NEW d \in Direct PROVE DirectCallOK(d)'
  <2>1. RunOK(d)'
        BY DirectFacts DEF RunsMove, DirectCallOK, RunOK, RunPlaces, Run, Authorized
  <2>2. PendingOK(d)'
        BY DirectFacts DEF RunsMove, DirectCallOK, PendingOK, Run
  <2>3. \A r \in Resolvers : ResolverOK(d, r)'
        BY DirectFacts DEF RunsMove, DirectCallOK, ResolverOK, Run
  <2>4. QED BY <2>1, <2>2, <2>3 DEF DirectCallOK
<1>2. QED BY <1>1

\* take_ready_wave starts runs that are ready.
LEMMA StartWaveStep ==
    ASSUME IInv, StartWave
    PROVE  IInv'
<1>1. PICK wave \in SUBSET Direct :
         /\ \A d \in wave : at[Run(d)] \in {"ready", "may_pause"}
         /\ at' = [a \in Actors |-> IF a \in wave \X {"run"} THEN "submit" ELSE at[a]]
      BY DEF StartWave
<1>2. UNCHANGED <<call, parent, program, turn, protecting, changed, up, crashes, effects>>
      BY DEF StartWave, rows, policy, daemon
<1>3. RunsMove
  <2>1. at' \in [Actors -> Places]
        BY <1>1 DEF IInv, CallsConsistent, TypeOK, Places
  <2>2. \A d \in Direct : at'[Run(d)] = IF d \in wave THEN "submit" ELSE at[Run(d)]
        BY <1>1, ActorFacts DEF Run
  <2>3. \A d \in Direct, r \in Resolvers : at'[<<d, r>>] = at[<<d, r>>]
        BY <1>1, ActorFacts
  <2>4. \A c \in Children : at'[Run(c)] = at[Run(c)]
    <3>1. \A c \in Children : c \notin wave
          BY ToolAssumption
    <3>2. QED BY <3>1, <1>1, ActorFacts DEF Run
  <2>5. QED BY <2>1, <2>2, <2>3, <2>4, <1>1 DEF RunsMove
<1>4. \A d \in Direct : DirectCallOK(d)'
      BY <1>2, <1>3, RunsMoveKeeps
<1>5. changed' => \A a \in Actors : at'[a] \notin {"acting", "detached"}
      BY <1>1, <1>2 DEF IInv, ProtectionHolds
<1>6. /\ program' \in [Programs -> ProgramType] /\ turn' \in Turns
      /\ crashes' \in 0..MaxCrashes /\ {protecting', changed', up'} \subseteq BOOLEAN
      BY <1>2 DEF IInv, CallsConsistent, TypeOK, ProgramType, Turns
<1>7. QED BY <1>2, <1>3, <1>4, <1>5, <1>6, TasksMove DEF RunsMove

\* The run pauses for an approval and gives up what it has not started.
LEMMA PauseTurnStep ==
    ASSUME IInv, PauseTurn
    PROVE  IInv'
<1>1. at' = [a \in Actors |-> IF at[a] \in {"paused", "ready", "may_pause"} THEN "done" ELSE at[a]]
      BY DEF PauseTurn
<1>2. /\ turn' \in Turns
      /\ UNCHANGED <<call, parent, program, protecting, changed, up, crashes, effects>>
      BY DEF PauseTurn, rows, policy, daemon, Turns
<1>3. RunsMove
  <2>1. at' \in [Actors -> Places]
        BY <1>1 DEF IInv, CallsConsistent, TypeOK, Places
  <2>2. \A d \in Direct : at'[Run(d)] \in {at[Run(d)], "done"}
        BY <1>1, ActorFacts
  <2>3. \A d \in Direct, r \in Resolvers : at'[<<d, r>>] = at[<<d, r>>]
    <3>1. ASSUME NEW d \in Direct, NEW r \in Resolvers
          PROVE  <<d, r>> \in Actors /\ at[<<d, r>>] \notin {"paused", "ready", "may_pause"}
          BY ActorFacts, DirectFacts DEF DirectCallOK, ResolverOK
    <3>2. QED BY <3>1, <1>1
  <2>4. \A c \in Children : at'[Run(c)] = at[Run(c)]
        BY <1>1, ActorFacts, ChildFacts DEF ChildOK
  <2>5. QED BY <2>1, <2>2, <2>3, <2>4 DEF RunsMove
<1>4. \A d \in Direct : DirectCallOK(d)'
      BY <1>2, <1>3, RunsMoveKeeps
<1>5. changed' => \A a \in Actors : at'[a] \notin {"acting", "detached"}
      BY <1>1, <1>2 DEF IInv, ProtectionHolds
<1>6. /\ program' \in [Programs -> ProgramType]
      /\ crashes' \in 0..MaxCrashes /\ {protecting', changed', up'} \subseteq BOOLEAN
      BY <1>2 DEF IInv, CallsConsistent, TypeOK, ProgramType
<1>7. QED BY <1>2, <1>3, <1>4, <1>5, <1>6, TasksMove DEF RunsMove

\* close_session ends a turn that waits or is stale.
LEMMA CloseSessionStep ==
    ASSUME IInv, CloseSession
    PROVE  IInv'
<1>1. /\ turn' \in Turns
      /\ UNCHANGED <<call, parent, at, program, protecting, changed, up, crashes, effects>>
      BY DEF CloseSession, rows, policy, daemon, Turns
<1>2. RunsMove
      BY <1>1 DEF RunsMove, IInv, CallsConsistent, TypeOK, Places
<1>3. \A d \in Direct : DirectCallOK(d)'
      BY <1>1, <1>2, RunsMoveKeeps
<1>4. changed' => \A a \in Actors : at'[a] \notin {"acting", "detached"}
      BY <1>1 DEF IInv, ProtectionHolds
<1>5. /\ program' \in [Programs -> ProgramType]
      /\ crashes' \in 0..MaxCrashes /\ {protecting', changed', up'} \subseteq BOOLEAN
      BY <1>1 DEF IInv, CallsConsistent, TypeOK, ProgramType
<1>6. QED BY <1>1, <1>2, <1>3, <1>4, <1>5, TasksMove DEF RunsMove

\* The run ends and drops the futures of its calls.
LEMMA TurnEndsStep ==
    ASSUME IInv, TurnEnds
    PROVE  IInv'
<1> DEFINE S == (Direct \X {"run"}) \ {a \in Actors : at[a] = "detached"}
<1>1. at' = Dropped(S)
      BY DEF TurnEnds
<1>2. /\ turn' \in Turns
      /\ UNCHANGED <<call, parent, protecting, changed, up, crashes, effects>>
      BY DEF TurnEnds, rows, policy, daemon, Turns
<1>3. program' = [p \in Programs |-> IF program[p].pc \in Supervised
                                     THEN [program[p] EXCEPT !.cancelled = TRUE] ELSE program[p]]
      BY DEF TurnEnds
<1>4. /\ program' \in [Programs -> ProgramType]
      /\ \A p \in Programs : /\ program'[p].pc = program[p].pc
                             /\ program'[p].calls = program[p].calls
                             /\ program'[p].remaining = program[p].remaining
  <2>1. ASSUME NEW p \in Programs
        PROVE  /\ program'[p] \in ProgramType
               /\ program'[p].pc = program[p].pc
               /\ program'[p].calls = program[p].calls
               /\ program'[p].remaining = program[p].remaining
    <3>1. program[p] \in ProgramType
          BY ProgramFacts
    <3>2. program'[p] = program[p] \/ program'[p] = [program[p] EXCEPT !.cancelled = TRUE]
          BY <1>3
    <3>3. QED BY <3>1, <3>2 DEF ProgramType
  <2>2. QED BY <2>1, <1>3
<1>5. RunsMove
  <2>1. at' \in [Actors -> Places]
        BY <1>1 DEF Dropped, IInv, CallsConsistent, TypeOK, Places
  <2>2. \A d \in Direct : at'[Run(d)] = IF at[Run(d)] = "detached" THEN "detached"
                                        ELSE IF at[Run(d)] = "acting" THEN "detached" ELSE "done"
        BY <1>1, ActorFacts DEF Dropped, Run
  <2>3. \A d \in Direct, r \in Resolvers : at'[<<d, r>>] = at[<<d, r>>]
        BY <1>1, ActorFacts DEF Dropped
  <2>4. \A c \in Children : at'[Run(c)] = at[Run(c)]
    <3>1. \A c \in Children : c \notin Direct
          BY ToolAssumption
    <3>2. QED BY <3>1, <1>1, ActorFacts DEF Dropped, Run
  <2>5. QED BY <2>1, <2>2, <2>3, <2>4 DEF RunsMove
<1>6. \A d \in Direct : DirectCallOK(d)'
      BY <1>2, <1>5, RunsMoveKeeps
<1>7. changed' => \A a \in Actors : at'[a] \notin {"acting", "detached"}
      BY <1>1, <1>2 DEF Dropped, IInv, ProtectionHolds
<1>8. crashes' \in 0..MaxCrashes /\ {protecting', changed', up'} \subseteq BOOLEAN
      BY <1>2 DEF IInv, CallsConsistent, TypeOK
<1>9. QED BY <1>2, <1>4, <1>5, <1>6, <1>7, <1>8, TasksMove DEF RunsMove

\* A crash takes every task with it.
LEMMA CrashStep ==
    ASSUME IInv, Crash
    PROVE  IInv'
<1>1. /\ at' = [a \in Actors |-> IF at[a] = "idle" /\ a[2] # "run" THEN "idle" ELSE "done"]
      /\ program' = [p \in Programs |-> NotSupervised("done")]
      /\ ~up' /\ protecting' = FALSE /\ UNCHANGED <<call, parent, changed, effects>>
      BY DEF Crash, rows
<1>2. \A c \in Children : at'[Run(c)] = "done"
      BY <1>1, ActorFacts
<1>3. \A d \in Direct : DirectCallOK(d)'
  <2>1. ASSUME NEW d \in Direct PROVE DirectCallOK(d)'
    <3>1. at'[Run(d)] = "done"
          BY <1>1, ActorFacts
    <3>2. \A r \in Resolvers : at'[<<d, r>>] = IF at[<<d, r>>] = "idle" THEN "idle" ELSE "done"
          BY <1>1, ActorFacts
    <3>3. RunOK(d)' /\ PendingOK(d)'
          BY <3>1, <1>1, DirectFacts DEF DirectCallOK, RunOK, PendingOK, RunPlaces, Run
    <3>4. \A r \in Resolvers : ResolverOK(d, r)'
          BY <3>1, <3>2, <1>1, DirectFacts DEF DirectCallOK, ResolverOK, Run
    <3>5. QED BY <3>3, <3>4 DEF DirectCallOK
  <2>2. QED BY <2>1
<1>4. /\ at' \in [Actors -> Places] /\ turn' \in Turns
      /\ {protecting', changed', up'} \subseteq BOOLEAN
  <2>1. at' \in [Actors -> Places]
        BY <1>1 DEF Places
  <2>2. turn' \in Turns
        BY DEF Crash, IInv, CallsConsistent, TypeOK, Turns
  <2>3. {protecting', changed', up'} \subseteq BOOLEAN
        BY <1>1 DEF Crash, IInv, CallsConsistent, TypeOK
  <2>4. QED BY <2>1, <2>2, <2>3
<1>5. /\ program' \in [Programs -> ProgramType] /\ \A p \in Programs : program'[p].pc = "done"
      /\ crashes' \in 0..MaxCrashes
      BY <1>1, ToolAssumption DEF Crash, IInv, CallsConsistent, TypeOK, NotSupervised, ProgramType
<1>6. changed' => \A a \in Actors : at'[a] \notin {"acting", "detached"}
      BY <1>1
<1>7. QED BY <1>1, <1>2, <1>3, <1>4, <1>5, <1>6, TasksMove

\* interrupt_code_mode_calls settles programs and children after a crash.
LEMMA RestartStep ==
    ASSUME IInv, Restart
    PROVE  IInv' /\ Settles(Programs \cup Children)
<1> DEFINE S == Programs \cup Children
<1>1. Settles(S)
  <2>1. call \in [Calls -> RowType] /\ call' = Interrupted
        BY DEF Restart, IInv, CallsConsistent, TypeOK, RowType
  <2>2. ASSUME NEW c \in Calls
        PROVE  /\ call'[c] \in RowType
               /\ call'[c].policy = call[c].policy /\ call'[c].approval = call[c].approval
               /\ IF c \in S /\ call[c].status = "running" THEN call'[c].status \in Settled
                  ELSE call'[c] = call[c]
    <3>1. call'[c] = IF c \notin Direct /\ call[c].status = "running"
                     THEN [call[c] EXCEPT !.status = "cancelled"] ELSE call[c]
          BY <2>1 DEF Interrupted
    <3>2. c \in S <=> c \notin Direct
          BY ToolAssumption DEF Calls
    <3>3. QED BY <2>1, <3>1, <3>2 DEF RowType, Settled, Statuses
  <2>3. call' = [c \in Calls |-> call'[c]]
        BY <2>1 DEF Interrupted
  <2>4. QED BY <2>2, <2>3 DEF Settles
<1>2. /\ UNCHANGED <<parent, at, program, protecting, changed, crashes, effects>>
      /\ turn' \in Turns /\ up' \in BOOLEAN /\ program' \in [Programs -> ProgramType]
      BY DEF Restart, policy, IInv, CallsConsistent, TypeOK, Turns, ProgramType
<1>3. IInv'
      BY <1>1, <1>2, SettlesStep
<1>4. QED BY <1>1, <1>3

-----------------------------------------------------------------------------
(* The theorems.                                                           *)

\* The turn starts with nothing recorded and nothing under way.
LEMMA InitIInv == Init => IInv
<1> SUFFICES ASSUME Init PROVE IInv
    OBVIOUS
<1>1. PICK made \in Requests :
         /\ at = [a \in Actors |-> IF a \in (Direct \ made) \X {"run"} THEN "done" ELSE "idle"]
         /\ program = [p \in Programs |-> NotSupervised(IF p \in made THEN "idle" ELSE "done")]
      BY DEF Init
<1>2. TypeOK
  <2>1. call \in [Calls -> RowType] /\ effects \in [Calls -> Nat]
        BY DEF Init, NoRow, Row, RowType, Statuses
  <2>2. at \in [Actors -> Places] /\ program \in [Programs -> ProgramType]
        BY <1>1, ToolAssumption DEF NotSupervised, ProgramType, Places
  <2>3. /\ parent \in [Children -> Programs \cup {NoCall}] /\ turn \in Turns
        /\ {protecting, changed, up} \subseteq BOOLEAN
        BY DEF Init, Turns
  <2>4. crashes \in 0..MaxCrashes
    <3>1. crashes = 0 /\ MaxCrashes \in Nat
          BY ToolAssumption DEF Init
    <3>2. QED BY <3>1
  <2>5. QED BY <2>1, <2>2, <2>3, <2>4 DEF TypeOK, RowType, Places, ProgramType, Turns
<1>3. \A a \in Actors : at[a] \in {"idle", "done"} /\ (a[2] # "run" => at[a] = "idle")
      BY <1>1, ActorFacts
<1>4. \A c \in Calls : call[c] = NoRow /\ effects[c] = 0
      BY DEF Init
<1>5. \A p \in Programs : program[p].pc \in {"idle", "done"} /\ program[p].calls = 0
      BY <1>1 DEF NotSupervised
<1>6. Direct \subseteq Calls /\ Programs \subseteq Calls /\ Children \subseteq Calls
      /\ \A c \in Children : parent[c] = NoCall
      BY DEF Calls, Init
<1>7. ChildCallLimit
  <2>1. {c \in Children : call[c].status # "none"} = {}
        BY <1>4, <1>6 DEF NoRow, Row
  <2>2. Cardinality({c \in Children : call[c].status # "none"}) = 0
        BY <2>1, FS_EmptySet, Zenon
  <2>3. MaxCalls \in Nat
        BY ToolAssumption
  <2>4. QED BY <2>2, <2>3 DEF ChildCallLimit
<1>8. NoChildOutlivesProgram /\ RunningProgramIsSupervised
      BY <1>4, <1>6 DEF NoChildOutlivesProgram, RunningProgramIsSupervised, NoRow, Row
<1>9. DirectOK
  <2>1. ASSUME NEW d \in Direct PROVE DirectCallOK(d)
    <3>1. at[Run(d)] \in {"idle", "done"} /\ \A r \in Resolvers : at[<<d, r>>] = "idle"
          BY <1>3, ActorFacts
    <3>2. QED BY <3>1, <1>4, <1>6
          DEF DirectCallOK, RunOK, RunPlaces, PendingOK, ResolverOK, NoRow, Row
  <2>2. QED BY <2>1 DEF DirectOK
<1>10. ChildrenOK
      BY <1>3, <1>4, <1>6, ActorFacts DEF ChildrenOK, ChildOK
<1>11. ProgramsOK
      BY <1>4, <1>5, <1>6, ToolAssumption DEF ProgramsOK, Child, Supervised
<1>12. BudgetOK /\ EffectsOK /\ ProtectionHolds
      BY <1>3, <1>4, <1>5 DEF BudgetOK, EffectsOK, ProtectionHolds
<1>13. QED BY <1>2, <1>7, <1>8, <1>9, <1>10, <1>11, <1>12 DEF IInv, CallsConsistent

\* Every step of the tool calls keeps the invariant.
LEMMA NextIInv == IInv /\ [Next]_vars => IInv'
<1> SUFFICES ASSUME IInv, [Next]_vars PROVE IInv'
    OBVIOUS
<1>1. CASE ProtectBegins \/ ProtectCommits
      BY <1>1, ProtectStep
<1>2. CASE StartWave \/ PauseTurn \/ CloseSession \/ TurnEnds
      BY <1>2, StartWaveStep, PauseTurnStep, CloseSessionStep, TurnEndsStep
<1>3. CASE StartProgram
      BY <1>3, StartProgramStep
<1>4. CASE Crash \/ Restart
      BY <1>4, CrashStep, RestartStep
<1>5. ASSUME NEW d \in Direct, Prepare(d) \/ Submit(d) \/ CreateApproval(d) PROVE IInv'
      BY <1>5, PrepareStep, SubmitStep, CreateApprovalStep
<1>6. ASSUME NEW d \in Direct, NEW r \in Resolvers,
             \/ \E v \in {"approved", "rejected"} : Decide(d, r, v)
             \/ Resolve(<<d, r>>)
      PROVE  IInv'
      BY <1>6, DecideStep, CheckAwaitingStep, ApplyDecisionStep, MaybeResumeStep DEF Resolve
<1>7. ASSUME NEW a \in Actors, Operation(a) PROVE IInv'
  <2>1. CASE a[1] \in Direct
        BY <2>1, <1>7, ExecuteDirectStep, OperationEndsDirectStep, DetachedDirectStep DEF Operation
  <2>2. CASE a[1] \in Children
    <3>1. a = Run(a[1])
          BY <2>2, ActorFacts, ToolAssumption
    <3>2. QED BY <2>2, <3>1, <1>7, ExecuteChildStep, OperationEndsChildStep, DetachedChildStep
          DEF Operation
  <2>3. QED BY <2>1, <2>2, ActorFacts
<1>8. ASSUME NEW p \in Programs,
             CountCalls(p) \/ WorkerCalls(p) \/ WorkerEnds(p) \/ StopProgram(p) \/ FinishCodeMode(p)
      PROVE  IInv'
      BY <1>8, CountCallsStep, WorkerCallsStep, WorkerEndsStep, FinishCodeModeStep
<1>9. ASSUME NEW c \in Children, Admit(c) \/ AuthorizeChild(c) \/ AbandonChild(c) PROVE IInv'
      BY <1>9, AdmitStep, AuthorizeChildStep, AbandonChildStep
<1>10. CASE UNCHANGED vars
  <2>1. UNCHANGED <<call, parent, at, program, turn, protecting, changed, up, crashes, effects>>
        BY <1>10 DEF vars
  <2>2. RunsMove
        BY <2>1 DEF RunsMove, IInv, CallsConsistent, TypeOK, Places
  <2>3. \A d \in Direct : DirectCallOK(d)'
        BY <2>1, <2>2, RunsMoveKeeps
  <2>4. /\ program' \in [Programs -> ProgramType] /\ turn' \in Turns
        /\ crashes' \in 0..MaxCrashes /\ {protecting', changed', up'} \subseteq BOOLEAN
        BY <2>1 DEF IInv, CallsConsistent, TypeOK, ProgramType, Turns
  <2>5. changed' => \A a \in Actors : at'[a] \notin {"acting", "detached"}
        BY <2>1 DEF IInv, ProtectionHolds
  <2>6. QED BY <2>1, <2>2, <2>3, <2>4, <2>5, TasksMove DEF RunsMove
<1>11. QED BY <1>1, <1>2, <1>3, <1>4, <1>5, <1>6, <1>7, <1>8, <1>9, <1>10 DEF Next

\* No step overwrites the status of a settled call: a row is created where there
\* is none, an approval is granted to a call that waits, and what finishes a call
\* finds it running.
LEMMA SettledStays ==
    IInv /\ [Next]_vars =>
        \A c \in Calls : call[c].status \in Settled => call'[c].status = call[c].status
<1> DEFINE Stays == \A c \in Calls : call[c].status \in Settled => call'[c].status = call[c].status
<1> SUFFICES ASSUME IInv, [Next]_vars PROVE Stays
    OBVIOUS
<1>1. ASSUME UNCHANGED call PROVE Stays
      BY <1>1
<1>2. ASSUME NEW e \in Calls, call[e].status \notin Settled,
             \E row : call' = [call EXCEPT ![e] = row]
      PROVE  Stays
      BY <1>2 DEF IInv, CallsConsistent, TypeOK
<1>3. \A e \in Calls, t \in STRING :
         [call EXCEPT ![e].status = t] = [call EXCEPT ![e] = [call[e] EXCEPT !.status = t]]
      BY DEF IInv, CallsConsistent, TypeOK
<1>4. ASSUME \/ ProtectBegins \/ ProtectCommits \/ StartWave \/ PauseTurn \/ CloseSession
             \/ TurnEnds \/ Crash \/ UNCHANGED vars
      PROVE  Stays
      BY <1>1, <1>4
      DEF ProtectBegins, ProtectCommits, StartWave, PauseTurn, CloseSession, TurnEnds, Crash, rows, vars
<1>5. ASSUME StartProgram PROVE Stays
  <2>1. PICK p \in Programs : program[p].pc = "idle" /\ call' = [call EXCEPT ![p] = Row("running", "allow")]
        BY <1>5 DEF StartProgram
  <2>2. call[p].status \notin Settled /\ p \in Calls
        BY <2>1, ProgramFacts DEF IInv, ProgramsOK, NoRow, Row, Settled
  <2>3. QED BY <2>1, <2>2, <1>2
<1>6. ASSUME Restart PROVE Stays
      BY <1>6, RestartStep DEF Settles, Settled
<1>7. ASSUME NEW d \in Direct, Prepare(d) \/ Submit(d) PROVE Stays
  <2>1. UNCHANGED call \/ \E row : call' = [call EXCEPT ![d] = row]
        BY <1>7 DEF Prepare, Submit
  <2>2. call[d].status \notin Settled /\ d \in Calls
        BY <1>7, DirectFacts DEF Prepare, Submit, DirectCallOK, RunOK, NoRow, Row, Settled
  <2>3. QED BY <2>1, <2>2, <1>1, <1>2
<1>8. ASSUME NEW d \in Direct, CreateApproval(d) PROVE Stays
  <2>1. \E v \in {"pending", "approved"} : call' = [call EXCEPT ![d].approval = v]
        BY <1>8 DEF CreateApproval
  <2>2. QED BY <2>1 DEF IInv, CallsConsistent, TypeOK
<1>9. ASSUME NEW d \in Direct, NEW r \in Resolvers, NEW v \in {"approved", "rejected"},
             Decide(d, r, v)
      PROVE  Stays
      BY <1>9 DEF Decide, IInv, CallsConsistent, TypeOK
<1>10. ASSUME NEW d \in Direct, NEW r \in Resolvers, Resolve(<<d, r>>) PROVE Stays
  <2>1. CASE ApplyDecision(<<d, r>>)
    <3>1. \E t \in {"running", "denied"} : call' = [call EXCEPT ![d].status = t]
          BY <2>1, ActorFacts DEF ApplyDecision
    <3>2. call[d].status \notin Settled /\ d \in Calls
          BY <2>1, DirectFacts DEF ApplyDecision, DirectCallOK, ResolverOK, Settled
    <3>3. QED BY <3>1, <3>2, <1>2, <1>3
  <2>2. CASE CheckAwaiting(<<d, r>>) \/ MaybeResume(<<d, r>>)
        BY <2>2, <1>1 DEF CheckAwaiting, MaybeResume, rows
  <2>3. QED BY <1>10, <2>1, <2>2 DEF Resolve
<1>11. ASSUME NEW c \in Calls, NEW t \in Settled, c \notin Children => call[c].status = "running",
              call' = IF MayFinish(c) THEN [call EXCEPT ![c].status = t] ELSE call
       PROVE  Stays
  <2>1. CASE MayFinish(c)
    <3>1. call[c].status \notin Settled
          BY <2>1, <1>11 DEF MayFinish, Settled
    <3>2. QED BY <2>1, <3>1, <1>2, <1>3, <1>11 DEF Settled
  <2>2. CASE ~MayFinish(c)
        BY <2>2, <1>1, <1>11
  <2>3. QED BY <2>1, <2>2
<1>12. ASSUME NEW a \in Actors, Operation(a) PROVE Stays
  <2>1. a[1] \in Calls /\ (at[a] \in {"execute", "acting"} /\ a[1] \notin Children
                           => call[a[1]].status = "running")
        BY ActorFacts, DirectFacts DEF Calls, DirectCallOK, RunOK, ResolverOK
  <2>2. CASE Execute(a) /\ changed
        BY <2>1, <2>2, <1>11 DEF Execute, FinishToolCall, Settled
  <2>3. CASE OperationEnds(a)
        BY <2>1, <2>3, <1>11 DEF OperationEnds, FinishToolCall, Settled
  <2>4. CASE (Execute(a) /\ ~changed) \/ DetachedReturns(a)
        BY <2>4, <1>1 DEF Execute, DetachedReturns, rows
  <2>5. QED BY <1>12, <2>2, <2>3, <2>4 DEF Operation
<1>13. ASSUME NEW p \in Programs,
              CountCalls(p) \/ WorkerCalls(p) \/ WorkerEnds(p) \/ StopProgram(p) \/ FinishCodeMode(p)
       PROVE  Stays
  <2>1. CASE FinishCodeMode(p)
        BY <2>1, FinishCodeModeStep DEF Settles, Settled
  <2>2. CASE CountCalls(p) \/ WorkerCalls(p) \/ WorkerEnds(p) \/ StopProgram(p)
        BY <2>2, <1>1 DEF CountCalls, WorkerCalls, WorkerEnds, StopProgram, rows
  <2>3. QED BY <1>13, <2>1, <2>2
<1>14. ASSUME NEW c \in Children, Admit(c) \/ AuthorizeChild(c) \/ AbandonChild(c) PROVE Stays
  <2>1. CASE Admit(c)
    <3>1. call[c].status \notin Settled /\ c \in Calls
          BY <2>1, ChildFacts DEF Admit, ChildOK, NoRow, Row, Settled
    <3>2. QED BY <2>1, <3>1, <1>1, <1>2 DEF Admit
  <2>2. CASE AuthorizeChild(c)
    <3>1. \/ UNCHANGED call
          \/ call[c].status = "running" /\ call' = [call EXCEPT ![c].policy = "allow"]
          \/ call[c].status = "running" /\ call' = [call EXCEPT ![c] = Row("denied", "deny")]
          BY <2>2 DEF AuthorizeChild
    <3>2. [call EXCEPT ![c].policy = "allow"] = [call EXCEPT ![c] = [call[c] EXCEPT !.policy = "allow"]]
          BY ChildFacts DEF TypeOK
    <3>3. c \in Calls
          BY ChildFacts
    <3>4. QED BY <3>1, <3>2, <3>3, <1>1, <1>2 DEF Settled
  <2>3. CASE AbandonChild(c)
        BY <2>3, <1>11, ChildFacts DEF AbandonChild, Settled
  <2>4. QED BY <1>14, <2>1, <2>2, <2>3
<1>15. QED BY <1>4, <1>5, <1>6, <1>7, <1>8, <1>9, <1>10, <1>12, <1>13, <1>14 DEF Next

\* The invariant holds in every reachable state.
LEMMA Invariance == Spec => []IInv
BY InitIInv, NextIInv, PTL DEF Spec

\* The records of calls and programs fit the tasks that carry them out: at most
\* MAX_CALLS child calls in a turn, none of them running after its program, and
\* no running program without its supervisor, also after a crash.
THEOREM RecordsFitTasks == Spec => []CallsConsistent
<1>1. IInv => CallsConsistent
      BY DEF IInv
<1>2. QED BY <1>1, Invariance, PTL

\* An operation is begun only if the policy allows it or an approval was given.
THEOREM NothingActsUnauthorized == Spec => []OnlyAuthorizedActs
<1>1. IInv => OnlyAuthorizedActs
      BY DEF IInv, EffectsOK, Authorized, OnlyAuthorizedActs
<1>2. QED BY <1>1, Invariance, PTL

\* Whatever requests decide and wherever the daemon crashes, the operation of a
\* call is begun at most once.
THEOREM EveryCallActsOnce == Spec => []ActsOnce
<1>1. IInv => ActsOnce
      BY DEF IInv, EffectsOK, ActsOnce
<1>2. QED BY <1>1, Invariance, PTL

\* A change of the file protection that was acknowledged has no operation of the
\* old rules left in progress.
THEOREM ProtectionIsExclusive == Spec => []ProtectionHolds
<1>1. IInv => ProtectionHolds
      BY DEF IInv
<1>2. QED BY <1>1, Invariance, PTL

\* The outcome of a call is never overwritten.
THEOREM OutcomesStay == Spec => OutcomeIsFinal
<1>1. IInv /\ [Next]_vars => [\A c \in Calls : call[c].status \in Settled
                                => call'[c].status = call[c].status]_vars
      BY SettledStays
<1>2. QED BY <1>1, Invariance, PTL DEF Spec, OutcomeIsFinal

=============================================================================
