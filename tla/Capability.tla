----------------------------- MODULE Capability -----------------------------
(***************************************************************************)
(* Capability tokens and the deny floor compiled from them                 *)
(* (core/src/capability.rs, core/src/call.rs, substrate/src/policy.rs).    *)
(* A token has permissions and scopes; a scope is a kind of resource and a *)
(* glob pattern, kept as the set of targets it matches.  Whether a token's *)
(* signature is sound and when it expires are for a verifier to look at.   *)
(***************************************************************************)

Permissions   == {"Read", "Write", "Execute", "Spawn", "Communicate", "Admin"}
ResourceKinds == {"Memory", "Agent", "Tool", "Space", "Model", "Any"}

\* Admin implies every permission, the others only themselves.
Implies(p, needed) == p \in {needed, "Admin"}

Matches(s, resource, target) ==
    s.resource \in {"Any", resource} /\ target \in s.pattern

Authorizes(token, permission, resource, target) ==
    /\ \E p \in token.permissions : Implies(p, permission)
    /\ \E s \in token.scope : Matches(s, resource, target)

\* The permission an operation needs, if any.
RequiredPermission(op) ==
    CASE op = "Think"                        -> "None"
      [] op \in {"VSend", "VRecv"}           -> "Communicate"
      [] op \in {"MemRead", "MemSearch"}     -> "Read"
      [] op \in {"MemWrite", "MemSummarize"} -> "Write"
      [] op = "ToolInvoke"                   -> "Execute"
      [] op = "AgentSpawn"                   -> "Spawn"
      [] OTHER                               -> "Admin"

----------------------------------------------------------------------------
\* The families of system calls the floor reasons in.
SyscallGroups == {"Network", "FilesystemWrite", "ProcessSpawn",
                  "Ptrace", "ModuleLoad", "MountNs"}

\* Mutant: a scope over any kind of resource is not counted.
WarrantedByKind(group, permission, resource) ==
    \/ permission = "Admin"
    \/ group = "Network" /\ \/ permission = "Communicate"
                            \/ permission = "Execute" /\ resource = "Tool"
    \/ group = "FilesystemWrite" /\ permission = "Write"
                                 /\ resource \in {"Memory", "Space"}
    \/ group = "ProcessSpawn" /\ permission = "Spawn"

\* What a permission over a kind of resource warrants; the high-risk groups
\* only Admin does.
WarrantedBy(group, permission, resource) ==
    \/ permission = "Admin"
    \/ group = "Network" /\ \/ permission = "Communicate"
                            \/ permission = "Execute" /\ resource \in {"Tool", "Any"}
    \/ group = "FilesystemWrite" /\ permission = "Write"
                                 /\ resource \in {"Memory", "Space", "Any"}
    \/ group = "ProcessSpawn" /\ permission = "Spawn"

\* Every group that nothing held warrants is denied.
CompileDenyFloor(caps) ==
    {group \in SyscallGroups :
       ~ \E token \in caps : \E p \in token.permissions, s \in token.scope :
            WarrantedBy(group, p, s.resource)}

=============================================================================
