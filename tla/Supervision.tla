----------------------------- MODULE Supervision -----------------------------
(***************************************************************************)
(* Supervision of one agent over the network (runtime/src/supervisor.rs    *)
(* with send_heartbeat and serve_supervisor of fabric/src/lib.rs).  Nodes  *)
(* host instances of the agent and report them; the supervisor counts the  *)
(* beats it misses, restores the last good checkpoint elsewhere, and       *)
(* merges what a superseded instance comes back with.                      *)
(*                                                                         *)
(* When to tick, heal and reconcile is the caller's (supervisor.rs, head). *)
(* The caller modelled here heals only a suspected agent, and reconciles   *)
(* and retires an instance on a node the registry does not point to.       *)
(* Nobody tells that instance of the heal: it goes on acting and reporting *)
(* until then.                                                             *)
(***************************************************************************)
EXTENDS SupervisorRegistry, FiniteSets

CONSTANTS
    Node,
    None,        \* no instance, or no heartbeat
    MaxWork,     \* bound: records of work ever done
    MaxMisses,   \* bound: the supervisor stops ticking at this many misses
    MaxFaults    \* bound: crashes of nodes and heartbeats lost

ASSUME SupervisionAssumption ==
    /\ MaxWork \in Nat
    /\ MaxMisses \in Nat
    /\ MaxFaults \in Nat

\* What travels in a checkpoint, by what the properties tell apart: the audit
\* records, each by its identity, and the tokens spent; each record costs one.
Records     == 1 .. MaxWork
Checkpoints == [audit : SUBSET Records, spent : 0 .. MaxWork]

\* Mutant: the spends are added, what both sides share counting twice.
MergeAddsSpend(c, d) ==
    [audit |-> c.audit \cup d.audit, spent |-> c.spent + d.spent]

\* Checkpoint::merge: the union of the trails and the larger of the spends.
Merge(c, d) ==
    [audit |-> c.audit \cup d.audit,
     spent |-> IF c.spent >= d.spent THEN c.spent ELSE d.spent]

VARIABLES
    inst,        \* inst[n]: the checkpoint of the instance node n runs, or None
    beat,        \* beat[n]: the heartbeat of node n on its way, or None
    reg,         \* the agent's registry record
    done,        \* history variable: how many records were ever made
    faults,      \* crashes and lost heartbeats so far
    superseded,  \* history variable: nodes whose instance a heal left behind
    reconciled,  \* history variable: the records handed to reconcile
    outdated,    \* history variable: nodes whose heartbeat on its way is of an
                 \* instance that a heal left behind, sent before or after it
    late         \* history variable: such a heartbeat has been processed since
                 \* the last heal

ghosts == <<superseded, reconciled, outdated, late>>
vars    == <<inst, beat, reg, done, faults, ghosts>>

Fresh == [audit |-> {}, spent |-> 0]

\* The agent runs on one node, and the supervisor has just observed it.
Init ==
    \E n \in Node :
      /\ inst = [m \in Node |-> IF m = n THEN Fresh ELSE None]
      /\ beat = [m \in Node |-> None]
      /\ reg = Register(n, Fresh)
      /\ done = 0
      /\ faults = 0
      /\ superseded = {}
      /\ reconciled = {}
      /\ outdated = {}
      /\ late = FALSE

Hosts(n) == inst[n] # None

----------------------------------------------------------------------------
\* The instance on n acts: one more audit record, one more token spent.
Work(n) ==
    /\ Hosts(n)
    /\ done < MaxWork
    /\ done' = done + 1
    /\ inst' = [inst EXCEPT ![n] = [audit |-> @.audit \cup {done + 1},
                                    spent |-> @.spent + 1]]
    /\ UNCHANGED <<beat, reg, faults, ghosts>>

\* send_heartbeat, of any node that runs an instance, wherever the registry
\* points.  The node then waits for the acknowledgement: at most one heartbeat
\* per node is on its way (of a node that died and hosts again, too: a bound).
SendHeartbeat(n) ==
    /\ Hosts(n)
    /\ beat[n] = None
    /\ beat' = [beat EXCEPT ![n] = inst[n]]
    /\ outdated' = IF reg.node = n THEN outdated ELSE outdated \cup {n}
    /\ UNCHANGED <<inst, reg, done, faults, superseded, reconciled, late>>

\* serve_supervisor: observe, then heartbeat, under one lock.
Deliver(n) ==
    /\ beat[n] # None
    /\ reg' = Heartbeat(Observe(reg, n, beat[n]))
    /\ beat' = [beat EXCEPT ![n] = None]
    /\ late' = (late \/ n \in outdated)
    /\ outdated' = outdated \ {n}
    /\ UNCHANGED <<inst, done, faults, superseded, reconciled>>

\* The connection breaks before the supervisor has read the heartbeat.
Lose(n) ==
    /\ beat[n] # None
    /\ faults < MaxFaults
    /\ faults' = faults + 1
    /\ beat' = [beat EXCEPT ![n] = None]
    /\ outdated' = outdated \ {n}
    /\ UNCHANGED <<inst, reg, done, superseded, reconciled, late>>

\* The caller pulls the checkpoint of the agent where the registry has it.
Pull ==
    /\ Hosts(reg.node)
    /\ reg' = Observe(reg, reg.node, inst[reg.node])
    /\ UNCHANGED <<inst, beat, done, faults, ghosts>>

Tick ==
    /\ reg.misses < MaxMisses
    /\ reg' = Missed(reg)
    /\ UNCHANGED <<inst, beat, done, faults, ghosts>>

\* Mutant: the new instance starts from scratch.
SelfHealFromScratch(n) ==
    /\ Suspected(reg)
    /\ inst' = [inst EXCEPT ![n] = Fresh]
    /\ reg' = Healed(reg, n)
    /\ superseded' = {m \in Node : inst'[m] # None} \ {n}
    /\ outdated' = {m \in Node : beat[m] # None}
    /\ late' = FALSE
    /\ UNCHANGED <<beat, done, faults, reconciled>>

\* self_heal onto n.  A suspected instance may well be alive; if n runs one
\* already, hosting the restored agent replaces it.
SelfHeal(n) ==
    /\ Suspected(reg)
    /\ inst' = [inst EXCEPT ![n] = reg.lastGood]
    /\ reg' = Healed(reg, n)
    /\ superseded' = {m \in Node : inst'[m] # None} \ {n}
    /\ outdated' = {m \in Node : beat[m] # None}
    /\ late' = FALSE
    /\ UNCHANGED <<beat, done, faults, reconciled>>

\* An instance the registry does not point to is merged and retired.
Reconcile(n) ==
    /\ Hosts(n)
    /\ reg.node # n
    /\ reg' = Reconciled(reg, Merge(reg.lastGood, inst[n]))
    /\ inst' = [inst EXCEPT ![n] = None]
    /\ superseded' = superseded \ {n}
    /\ reconciled' = reconciled \cup inst[n].audit
    /\ UNCHANGED <<beat, done, faults, outdated, late>>

\* The node dies, and its instance with it; what it sent may still arrive.
Crash(n) ==
    /\ Hosts(n)
    /\ faults < MaxFaults
    /\ faults' = faults + 1
    /\ inst' = [inst EXCEPT ![n] = None]
    /\ superseded' = superseded \ {n}
    /\ UNCHANGED <<beat, reg, done, reconciled, outdated, late>>

Next ==
    \/ \E n \in Node :
         \/ Work(n) \/ SendHeartbeat(n) \/ Deliver(n) \/ Lose(n)
         \/ SelfHeal(n) \/ Reconcile(n) \/ Crash(n)
    \/ Pull
    \/ Tick

Spec == Init /\ [][Next]_vars

Healing == \E n \in Node : SelfHeal(n)

\* The supervisor ticks and its caller heals what it suspects; a heartbeat on its
\* way arrives or its connection breaks, and an instance is reconciled if the
\* registry points elsewhere for good.  No node is obliged to report.
FairSpec ==
    /\ Spec
    /\ WF_vars(Tick)
    /\ WF_vars(Healing)
    /\ \A n \in Node : /\ WF_vars(Deliver(n))
                       /\ WF_vars(Reconcile(n))

----------------------------------------------------------------------------
\* Properties.

\* Every variable keeps its type.
TypeOK ==
    /\ inst \in [Node -> Checkpoints \cup {None}]
    /\ beat \in [Node -> Checkpoints \cup {None}]
    /\ reg \in [node : Node, lastGood : Checkpoints, misses : Nat]
    /\ done \in 0 .. MaxWork
    /\ faults \in 0 .. MaxFaults
    /\ superseded \subseteq Node
    /\ reconciled \subseteq Records
    /\ outdated \subseteq Node
    /\ late \in BOOLEAN

\* self_heal's comment: "The registry pointing to the new node *is* the fence".
\* A heartbeat of a superseded instance breaks it, be it sent before the heal and
\* processed after it or sent by an instance that does not know of the heal.
RegistryIsFence == reg.node \notin superseded

\* What the fence does hold.  Its comment leaves it to the returning instance to
\* "reconcile, not resume": as long as no heartbeat of an instance left behind is
\* processed, none of them becomes the authority again, whatever else is lost,
\* late, crashes or is reconciled; and the next heal restores the fence when
\* one was.
Fence == ~late => RegistryIsFence

\* Whatever a heal would restore, the instance in authority knows, but for what
\* was reconciled: under the same condition, and again from the next heal on, a
\* heal can rewind an agent, never graft onto it work its authority never did.
AuthorityKnowsLastGood ==
    ~late /\ Hosts(reg.node) =>
        reg.lastGood.audit \subseteq inst[reg.node].audit \cup reconciled

\* The checkpoints there are: running, on their way, and in the registry.
Held == {reg.lastGood}
        \cup (({inst[n] : n \in Node} \cup {beat[n] : n \in Node}) \ {None})

\* Merging never charges an expense twice: no checkpoint has spent more than
\* its own trail accounts for, however often the instances were split, healed
\* and reconciled and whichever heartbeats came late.
SpendNeverInvented == \A c \in Held : c.spent <= Cardinality(c.audit)

\* A takeover always comes: whatever crashes, is lost or comes late, the
\* registered node hosts the agent again.
Takeover == []<>Hosts(reg.node)

=============================================================================
