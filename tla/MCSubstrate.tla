---------------------------- MODULE MCSubstrate ----------------------------
(***************************************************************************)
(* Two agents, one with a verifier, and two tokens that tell the parts of  *)
(* the floor apart: one that runs tools and writes, whatever their kind,   *)
(* and expires, and a forged one whose kind no file is of.                 *)
(***************************************************************************)
EXTENDS Substrate

MCAgents  == {"x", "y"}
MCTargets == {"web", "mem"}

Token(subject, permissions, resource, pattern) ==
    [subject |-> subject, permissions |-> permissions,
     scope |-> {[resource |-> resource, pattern |-> pattern]},
     authentic |-> TRUE, expires |-> 0]

MCTokens ==
    {[Token("x", {"Execute", "Write"}, "Any", {"web", "mem"}) EXCEPT !.expires = 2],
     [Token("y", {"Write", "Spawn", "Communicate"}, "Agent", {"mem"})
        EXCEPT !.authentic = FALSE]}

\* Tools, and memory and spaces, have kinds of their own; nothing ties a message,
\* or a sub-agent, to a kind; a think is charged to memory.
MCCallKinds ==
    [op : {"ToolInvoke"}, resource : {"Tool"}, target : MCTargets]
    \cup [op : {"MemWrite", "MemSearch"}, resource : {"Memory", "Space"},
          target : MCTargets]
    \cup [op : {"VSend", "AgentSpawn"}, resource : ResourceKinds \ {"Any"},
          target : MCTargets]
    \cup [op : {"Think"}, resource : {"Memory"}, target : MCTargets]

MCSyscalls ==
    [op \in {"ToolInvoke", "MemWrite", "MemSearch", "VSend", "AgentSpawn", "Think"} |->
       CASE op \in {"ToolInvoke", "VSend", "Think"} -> {"Network"}
         [] op = "MemWrite"                         -> {"FilesystemWrite"}
         [] op = "AgentSpawn"                       -> {"ProcessSpawn"}
         [] OTHER                                   -> {}]

=============================================================================
