--------------------------- MODULE ResourceClaims ---------------------------
(***************************************************************************)
(* Resource claims of tool calls and the conflict relation the tool        *)
(* scheduler is built on (agent-core/src/tool/resource.rs).                *)
(*                                                                         *)
(* A claim names a resource by namespace and key.  A key is a normalised   *)
(* relative path; it is modelled as the sequence of its components, so     *)
(* that "." is the empty sequence and "the child continues with '/' after  *)
(* the parent" is "the parent is a proper prefix of the child".            *)
(***************************************************************************)
EXTENDS Integers, Sequences

Modes == {"read", "write", "read_write", "search"}

Namespaces ==
    {"workspace", "process", "network", "mcp", "artifact", "external", "global"}

Writes(mode) == mode \in {"write", "read_write"}

\* "." contains everything; any other parent only what lies strictly below it.
ContainsKey(parent, child) ==
    \/ parent = <<>>
    \/ /\ Len(parent) < Len(child)
       /\ \A i \in 1..Len(parent) : parent[i] = child[i]

\* Mutant: the recursive flag is not looked at.
KeysEqual(l, r) == l.key = r.key

KeysOverlap(l, r) ==
    \/ l.key = r.key
    \/ l.recursive /\ ContainsKey(l.key, r.key)
    \/ r.recursive /\ ContainsKey(r.key, l.key)

ConflictsWith(l, r) ==
    \/ l.namespace = "global" \/ r.namespace = "global"
    \/ /\ l.namespace = r.namespace
       /\ Writes(l.mode) \/ Writes(r.mode)
       /\ KeysOverlap(l, r)

\* Its key "*" is never compared: conflicts_with looks at the namespace first.
GlobalExclusive ==
    [namespace |-> "global", key |-> <<>>,
     mode |-> "read_write", recursive |-> TRUE]

\* A call that declares nothing fails closed: it excludes everything.
NormalizedClaims(claims) ==
    IF claims = {} THEN {GlobalExclusive} ELSE claims

ToolsConflict(lclaims, rclaims) ==
    \E l \in lclaims, r \in rclaims : ConflictsWith(l, r)

ClaimType(Component) ==
    [namespace : Namespaces, key : Seq(Component),
     mode : Modes, recursive : BOOLEAN]
=============================================================================
