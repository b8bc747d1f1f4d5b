--------------------------- MODULE MCToolSchedule ---------------------------
(* TLC instance of ToolSchedule: a directory, a file in it, a file beside it *)
(* and a process, claimed by reads, writes and recursive searches.           *)
EXTENDS ToolSchedule

Claim(n, k, m, rec) ==
    [namespace |-> n, key |-> k, mode |-> m, recursive |-> rec]

MCClaimSets ==
    { {},                                                   \* nothing declared
      {Claim("workspace", <<"d", "f">>, "read", FALSE)},
      {Claim("workspace", <<"d", "f">>, "write", FALSE)},
      {Claim("workspace", <<"d">>, "search", TRUE)},
      {Claim("workspace", <<"d">>, "write", TRUE),
       Claim("process", <<"p">>, "read_write", FALSE)},
      {Claim("workspace", <<>>, "search", TRUE)},
      {Claim("workspace", <<"d2">>, "write", FALSE)},
      {Claim("process", <<"p">>, "read_write", FALSE)} }

MCResources ==
    { [namespace |-> "workspace", key |-> <<"d">>],
      [namespace |-> "workspace", key |-> <<"d", "f">>],
      [namespace |-> "workspace", key |-> <<"d2">>],
      [namespace |-> "process", key |-> <<"p">>] }
=============================================================================
