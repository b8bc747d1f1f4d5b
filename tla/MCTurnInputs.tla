---------------------------- MODULE MCTurnInputs ----------------------------
(* Instances of TurnInputs for TLC.                                        *)
EXTENDS TurnInputs, TLC

CONSTANTS s1, s2

\* Two sessions that nothing befalls, and one that everything may.
MCScenarios ==
    {[sessions |-> {s1, s2}, resets |-> 0, faults |-> {}],
     [sessions |-> {s1}, resets |-> 1, faults |-> {"crash", "launch", "refuse", "pause"}]}
=============================================================================
