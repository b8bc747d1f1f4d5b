----------------------------- MODULE BudgetLedger -----------------------------
(***************************************************************************)
(* What the team budget promises, without leases, retries or reservation   *)
(* rows: every piece of work is opened with the most it may cost, charged  *)
(* while it is open, and closed once.  Closing gives back what was not     *)
(* spent.  Under a hard limit nothing may be opened, and nothing spent     *)
(* outside the tasks, that could take the team past its limit.             *)
(*                                                                         *)
(* DurableTasks implements this module: `team_budgets`, the reservation    *)
(* rows and the task rows of storage/src/lib.rs together keep this ledger. *)
(***************************************************************************)
EXTENDS Integers, Functions

CONSTANTS
    Tasks,      \* the durable tasks that may be created
    Costs,      \* the maxima a task may be created with
    Limit,      \* the limit of the team's budget period
    HardLimit   \* whether the budget refuses to go past its limit

VARIABLES
    phase,      \* "none", "open" or "closed", for each task
    promised,   \* the maximum a task was opened with
    spent,      \* what a task has been charged so far
    other       \* what was consumed outside the tasks

ledger == <<phase, promised, spent, other>>

(* What the team is committed to: all that open work may still cost, all   *)
(* that closed work has cost, and what was consumed directly.              *)
Committed ==
    other + SumFunction([t \in Tasks |-> IF phase[t] = "open" THEN promised[t]
                                         ELSE spent[t]])

Affordable(n) == HardLimit => Committed + n <= Limit

Init ==
    /\ phase = [t \in Tasks |-> "none"]
    /\ promised = [t \in Tasks |-> 0]
    /\ spent = [t \in Tasks |-> 0]
    /\ other = 0

Open(t, m) ==
    /\ phase[t] = "none"
    /\ Affordable(m)
    /\ phase' = [phase EXCEPT ![t] = "open"]
    /\ promised' = [promised EXCEPT ![t] = m]
    /\ UNCHANGED <<spent, other>>

Charge(t, n) ==
    /\ phase[t] = "open"
    /\ n \in spent[t] .. promised[t]
    /\ spent' = [spent EXCEPT ![t] = n]
    /\ UNCHANGED <<phase, promised, other>>

Close(t, n) ==
    /\ phase[t] = "open"
    /\ n \in spent[t] .. promised[t]
    /\ phase' = [phase EXCEPT ![t] = "closed"]
    /\ spent' = [spent EXCEPT ![t] = n]
    /\ UNCHANGED <<promised, other>>

CloseAll ==
    /\ phase' = [t \in Tasks |-> IF phase[t] = "open" THEN "closed"
                                 ELSE phase[t]]
    /\ UNCHANGED <<promised, spent, other>>

Spend(n) ==
    /\ Affordable(n)
    /\ other' = other + n
    /\ UNCHANGED <<phase, promised, spent>>

Next ==
    \/ \E t \in Tasks, m \in Costs : Open(t, m)
    \/ \E t \in Tasks : \E n \in 0 .. promised[t] : Charge(t, n) \/ Close(t, n)
    \/ CloseAll
    \/ \E n \in Costs : Spend(n)

Spec == Init /\ [][Next]_ledger
=============================================================================
