------------------------------ MODULE Substrate ------------------------------
(***************************************************************************)
(* Below userland (the substrate crate): the deny floor attached to each   *)
(* agent's process, and the ledger that joins the samples of a probe with  *)
(* the audit trail (substrate/src/policy.rs, probe.rs, ledger.rs).         *)
(*                                                                         *)
(* The caller is left open: it may poll the probe and join at any time,    *)
(* with all audit records it has not handed over yet.  As policy.rs asks,  *)
(* the floor is compiled anew when an agent's capabilities change.  A      *)
(* sample's five counters are one number.                                  *)
(***************************************************************************)
EXTENDS Capability, Integers, Sequences

CONSTANTS
    Agents,
    Targets,
    Tokens,       \* the capability tokens that exist
    Verifying,    \* the agents whose gate has a verifier of tokens
    CallKinds,    \* the calls there are: operation, kind of resource, target
    Syscalls,     \* Syscalls[op]: the groups of system calls an operation makes
    Window,       \* how far a sample may be from its audit record
    Batch,        \* the samples a poll releases at most (0: all)
    SampleCosts,
    Metered,      \* bound: the operations called and sampled
    MaxTime, MaxCalls, MaxSamples    \* bounds

ASSUME SubstrateAssumption ==
    /\ \A token \in Tokens :
         /\ token.subject \in Agents /\ token.permissions \subseteq Permissions
         /\ token.scope \subseteq [resource : ResourceKinds, pattern : SUBSET Targets]
         /\ token.authentic \in BOOLEAN /\ token.expires \in Nat    \* 0: never
    /\ Verifying \subseteq Agents
    /\ \A call \in CallKinds : call.resource \in ResourceKinds /\ call.target \in Targets
    /\ Syscalls \in [{k.op : k \in CallKinds} -> SUBSET SyscallGroups]
    /\ Metered \subseteq {k.op : k \in CallKinds}
    /\ {Window, Batch, MaxTime, MaxCalls, MaxSamples} \subseteq Nat
    /\ SampleCosts \subseteq Nat

\* What calls do below userland (policy.rs): messages and tools reach the
\* network, writes to memory or to a space the files, a sub-agent is a process;
\* the rest takes an operation of Admin's class.  A think may ask a model over the
\* network, too.
ASSUME FootprintAssumption ==
    \A call \in CallKinds : \A group \in Syscalls[call.op] :
        \/ group = "Network" /\ call.op \in {"VSend", "VRecv"}
        \/ group = "Network" /\ call.op = "ToolInvoke" /\ call.resource = "Tool"
        \/ /\ group = "FilesystemWrite" /\ call.op \in {"MemWrite", "MemSummarize"}
           /\ call.resource \in {"Memory", "Space"}
        \/ group = "ProcessSpawn" /\ call.op = "AgentSpawn"
        \/ group = "Network" /\ call.op = "Think"
        \/ RequiredPermission(call.op) = "Admin"

\* Such calls are there: one of an operation on a target that makes system
\* calls of a group.
Occurs(op, resource, target, group) ==
    \E call \in CallKinds : /\ call.op = op /\ group \in Syscalls[op]
                           /\ call.resource = resource /\ call.target = target

\* A scope matches some target, and anything may be sent to or spawned, whatever
\* its kind, any tool invoked, any memory and space written.
ASSUME CoverageAssumption ==
    /\ \A token \in Tokens : \A s \in token.scope : s.pattern # {}
    /\ \A target \in Targets :
         /\ Occurs("ToolInvoke", "Tool", target, "Network")
         /\ \A kind \in {"Memory", "Space"} :
              Occurs("MemWrite", kind, target, "FilesystemWrite")
         /\ \A kind \in ResourceKinds \ {"Any"} :
              /\ Occurs("VSend", kind, target, "Network")
              /\ Occurs("AgentSpawn", kind, target, "ProcessSpawn")

VARIABLES
    clock,
    held,          \* held[a]: the tokens agent a has been granted
    floor,         \* floor[a]: the groups denied to the process of a
    trail,         \* the audit records not handed to the ledger yet
    samples,       \* the samples the probe has not released yet
    entries, unattributed,   \* the ledger
    issued,        \* the calls so far
    emitted        \* history variable: the samples so far

vars == <<clock, held, floor, trail, samples, entries, unattributed,
          issued, emitted>>

Init ==
    /\ clock = 0
    /\ held = [a \in Agents |-> {}]
    /\ floor = [a \in Agents |-> CompileDenyFloor({})]
    /\ trail = <<>>
    /\ samples = <<>>
    /\ entries = <<>>
    /\ unattributed = <<>>
    /\ issued = 0
    /\ emitted = <<>>

Gated(call) == RequiredPermission(call.op) # "None"

Covers(token, call) ==
    Authorizes(token, RequiredPermission(call.op), call.resource, call.target)

\* A verifier, where there is one, takes no forged and no expired token.
Verified(a, token) ==
    a \in Verifying =>
        token.authentic /\ (token.expires = 0 \/ clock < token.expires)

\* The gate of an agent's calls: a token held that is valid and covers them.
Authorized(a, call) ==
    Gated(call) => \E token \in held[a] : Verified(a, token) /\ Covers(token, call)

----------------------------------------------------------------------------
Passes ==
    /\ clock < MaxTime
    /\ clock' = clock + 1
    /\ UNCHANGED <<held, floor, trail, samples, entries, unattributed,
                   issued, emitted>>

GrantCap(token) ==
    /\ held' = [held EXCEPT ![token.subject] = @ \cup {token}]
    /\ floor' = [floor EXCEPT ![token.subject] = CompileDenyFloor(held'[token.subject])]
    /\ UNCHANGED <<clock, trail, samples, entries, unattributed,
                   issued, emitted>>

\* A call is recorded, refused or not.
Call(a, op) ==
    /\ issued < MaxCalls
    /\ issued' = issued + 1
    /\ trail' = Append(trail, [agent |-> a, op |-> op, at |-> clock])
    /\ UNCHANGED <<clock, held, floor, samples, entries, unattributed,
                   emitted>>

\* The probe sees work it attributes to an agent and an operation.
Sampled(a, op, cost) ==
    /\ Len(emitted) < MaxSamples
    /\ LET sample == [agent |-> a, op |-> op, at |-> clock, cost |-> cost]
       IN  /\ samples' = Append(samples, sample)
           /\ emitted' = Append(emitted, sample)
    /\ UNCHANGED <<clock, held, floor, trail, entries, unattributed,
                   issued>>

----------------------------------------------------------------------------
\* The ledger.

\* The entry of an audit record before any sample is charged to it.
Opened(r) == [agent |-> r.agent, op |-> r.op, at |-> r.at, cost |-> 0, samples |-> 0]

Gap(e, s) == IF e.at >= s.at THEN e.at - s.at ELSE s.at - e.at

\* Mutant: whose call it is is not asked.
ClaimantsOfAnyAgent(ledger, base, s) ==
    {i \in base + 1 .. Len(ledger.entries) :
        ledger.entries[i].op = s.op /\ Gap(ledger.entries[i], s) <= Window}

\* The entries of this batch that a sample may be charged to.
Claimants(ledger, base, s) ==
    {i \in base + 1 .. Len(ledger.entries) :
        LET e == ledger.entries[i]
        IN  e.agent = s.agent /\ e.op = s.op /\ Gap(e, s) <= Window}

\* An entry that a sample is folded into.
ChargedWith(e, s) == [e EXCEPT !.cost = @ + s.cost, !.samples = @ + 1]

\* One sample: the nearest entry is charged, the first of the nearest when
\* there are several.
Attributed(ledger, base, s) ==
    LET claimants == Claimants(ledger, base, s)
        nearest   == CHOOSE i \in claimants : \A j \in claimants :
                        \/ Gap(ledger.entries[i], s) < Gap(ledger.entries[j], s)
                        \/ Gap(ledger.entries[i], s) = Gap(ledger.entries[j], s) /\ i <= j
    IN  IF claimants = {}
        THEN [ledger EXCEPT !.unattributed = Append(@, s)]
        ELSE [ledger EXCEPT !.entries[nearest] = ChargedWith(@, s)]

\* A batch of samples, one after the other.
Charged(ledger, base, events) ==
    LET after[k \in 0 .. Len(events)] ==
            IF k = 0 THEN ledger ELSE Attributed(after[k - 1], base, events[k])
    IN  after[Len(events)]

\* The ledger with an entry for every audit record of a batch.
Extended(audits) ==
    [entries |-> entries \o [i \in DOMAIN audits |-> Opened(audits[i])],
     unattributed |-> unattributed]

\* Mutant: the whole ledger is searched, not this batch.
JoinedAnywhere(audits, events) == Charged(Extended(audits), 0, events)

\* join: an entry for every audit record of the batch, and each sample charged
\* to one of them or kept apart.
Joined(audits, events) == Charged(Extended(audits), Len(entries), events)

Polled == IF Batch = 0 \/ Len(samples) < Batch THEN Len(samples) ELSE Batch

\* The caller polls the probe and joins what it gets with its audit records.
Join ==
    LET ledger == Joined(trail, SubSeq(samples, 1, Polled))
    IN  /\ entries' = ledger.entries
        /\ unattributed' = ledger.unattributed
        /\ samples' = SubSeq(samples, Polled + 1, Len(samples))
        /\ trail' = <<>>
        /\ UNCHANGED <<clock, held, floor, issued, emitted>>

Next ==
    \/ Passes
    \/ \E token \in Tokens : GrantCap(token)
    \/ \E a \in Agents, op \in Metered : Call(a, op)
    \/ \E a \in Agents, op \in Metered, cost \in SampleCosts : Sampled(a, op, cost)
    \/ Join

Spec == Init /\ [][Next]_vars

----------------------------------------------------------------------------
\* Properties.

\* The sum of a sequence of numbers.
Total(q) ==
    LET sum[k \in 0 .. Len(q)] == IF k = 0 THEN 0 ELSE sum[k - 1] + q[k]
    IN  sum[Len(q)]

\* What samples or entries of an agent and an operation cost, how many samples
\* there are, and how many the entries have folded in.
Costs(s, a, op) ==
    Total([i \in DOMAIN s |-> IF s[i].agent = a /\ s[i].op = op THEN s[i].cost ELSE 0])
Count(s, a, op) ==
    Total([i \in DOMAIN s |-> IF s[i].agent = a /\ s[i].op = op THEN 1 ELSE 0])
Folded(s, a, op) ==
    Total([i \in DOMAIN s |-> IF s[i].agent = a /\ s[i].op = op THEN s[i].samples ELSE 0])

\* "Counted, never silently dropped": per agent and operation, what the ledger
\* has charged, what it keeps apart and what the probe still holds are all the
\* samples there were; no agent pays for another.
ColumnAddsUp ==
    \A a \in Agents, op \in Metered :
        /\ Costs(emitted, a, op) =
             Costs(samples, a, op) + Costs(entries, a, op) + Costs(unattributed, a, op)
        /\ Count(emitted, a, op) =
             Count(samples, a, op) + Folded(entries, a, op) + Count(unattributed, a, op)

\* A baseline drawn from the ledger stays: once a batch is joined the cost of
\* its calls is final, whatever late samples the probe releases.
PricesAreFinal == [][SubSeq(entries', 1, Len(entries)) = entries]_vars

\* The calls that need a permission.
GatedCalls == {call \in CallKinds : Gated(call)}

\* Some token an agent holds covers a call.
Covered(a, call) == \E token \in held[a] : Covers(token, call)

\* The floor and the gate agree.  Of the calls that need a permission, none that
\* makes a system call the floor denies is admitted by the gate now; and for an
\* agent without an Admin token the floor lets nothing through but what some call
\* makes that its tokens cover.  (It does let through what forged or expired
\* tokens cover, which it does not tell from the others, and what the gate, where
\* it has a verifier, refuses.)
FloorAgrees ==
    \A a \in Agents :
        /\ \A call \in GatedCalls :
             Syscalls[call.op] \cap floor[a] # {} => ~Authorized(a, call)
        /\ \/ \E token \in held[a] : "Admin" \in token.permissions
           \/ \A group \in SyscallGroups \ floor[a] : \E call \in GatedCalls :
                group \in Syscalls[call.op] /\ Covered(a, call)

=============================================================================
