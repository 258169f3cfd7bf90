------------------------- MODULE SupervisorRegistry -------------------------
(***************************************************************************)
(* One record of the supervisor's registry (runtime/src/supervisor.rs):    *)
(* where an agent runs, its last good checkpoint, and how many beats in a  *)
(* row it has missed.                                                      *)
(***************************************************************************)
EXTENDS Integers

CONSTANT MissThreshold    \* consecutive missed beats that raise suspicion

\* Supervisor::new raises a threshold of 0 to 1.
ASSUME MissThresholdAssumption == MissThreshold \in Nat \ {0}

Entry(node, lastGood, misses) ==
    [node |-> node, lastGood |-> lastGood, misses |-> misses]

\* observe, of an agent seen for the first time and of one already registered.
Register(node, checkpoint)   == Entry(node, checkpoint, 0)
Observe(r, node, checkpoint) == Entry(node, checkpoint, r.misses)

Heartbeat(r) == Entry(r.node, r.lastGood, 0)

\* tick: one supervision cycle.
Missed(r) == Entry(r.node, r.lastGood, r.misses + 1)

Suspected(r) == r.misses >= MissThreshold

\* Mutant: the registry is not flipped.
HealedInPlace(r, node) == Entry(r.node, r.lastGood, 0)

\* self_heal flips the registry to the node that was given the checkpoint.
Healed(r, node) == Entry(node, r.lastGood, 0)

\* reconcile keeps the node and the misses.
Reconciled(r, merged) == Entry(r.node, merged, r.misses)

=============================================================================
