---------------------------- MODULE MCAgentRunner ----------------------------
(* TLC instance of AgentRunner: calls that share a file, calls that exclude  *)
(* every other, and two inputs of the same mode or of both modes.            *)
EXTENDS AgentRunner

MCToolClaims ==
    { {},
      {[namespace |-> "workspace", key |-> <<"f">>, mode |-> "read",
        recursive |-> FALSE]} }

MCInputs == {<<"q1", "s1">>, <<"q1", "q2">>}
==============================================================================
