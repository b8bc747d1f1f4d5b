----------------------------- MODULE MCTurnUndo ------------------------------
(* Instances of TurnUndo for TLC.                                            *)
EXTENDS TurnUndo, TLC

CONSTANT f1

\* Bound: one call, and one request at a time, use several files and the goal, and the
\* user only one of the files; several of them use one file, or only the goal, with one
\* disturbance (of the user, or a fault).
OneActor ==
    /\ \A f \in Files \ {f1} : kept[f] = Absent
    /\ Cardinality({c \in Calls : call[c].pc # "ready"}) <= 1
    /\ Cardinality({u \in Undos : undo[u].pc # "idle"}) <= 1
Unused(f) ==
    disk[f] = Absent /\ kept[f] = Absent /\ row[f] = NoRow /\ \A c \in Calls : f \notin call[c].todo
OneFile ==
    /\ \A f \in Files \ {f1} : Unused(f)
    /\ checkpoint = NoRow /\ \A c \in Calls : ~At(c, "goal_read")
OnlyGoal == \A f \in Files : Unused(f)
Bounded == OneActor \/ ((OneFile \/ OnlyGoal) /\ user + faults <= 1)

Symmetry == Permutations(Contents) \cup Permutations(Goals)
            \cup Permutations(Undos) \cup Permutations(Calls)
=============================================================================
