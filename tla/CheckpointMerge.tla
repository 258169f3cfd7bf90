--------------------------- MODULE CheckpointMerge ---------------------------
(***************************************************************************)
(* The merge of two checkpoints of one agent, field by field (AgentState   *)
(* and Checkpoint::merge of runtime/src/agent.rs), and the laws of a join  *)
(* that it has: which of them always, and exactly when the others.         *)
(*                                                                         *)
(* When the supervisor merges is the subject of Supervision.               *)
(***************************************************************************)
EXTENDS AttentionBudget, Sequences

CONSTANTS
    Keys,       \* what audit_key tells records apart by: agent, operation,
                \* millisecond, target, and whether it was allowed
    CallCosts,  \* what a record may say a call has cost
    Jtis        \* the identities of capability tokens

PhaseRank ==
    [Born |-> 0, Live |-> 1, Forking |-> 2, Merging |-> 3, Migrating |-> 4,
     Healing |-> 5, Dead |-> 6]

Phases == {"Born", "Live", "Forking", "Merging", "Migrating", "Healing", "Dead"}

\* A trail by its keys: the costs of the records under a key, in their order.
\* A merge sorts the trail by the keys, so this is what is left of its order.
Trails == [Keys -> Seq(CallCosts)]

AgentStates ==
    [budget : AttentionBudgets, caps : SUBSET Jtis, phase : Phases, trail : Trails]

----------------------------------------------------------------------------
\* The total is self's; of the spends, the larger.
JoinSpent(b, c) ==
    [total |-> b.total, spent |-> IF b.spent >= c.spent THEN b.spent ELSE c.spent]

JoinPhase(p, q) == IF PhaseRank[p] >= PhaseRank[q] THEN p ELSE q

\* The records of other under a key join those of self only if self has none.
JoinTrail(t, u) == [k \in Keys |-> IF t[k] # <<>> THEN t[k] ELSE u[k]]

Merge(a, b) ==
    [budget |-> JoinSpent(a.budget, b.budget), caps |-> a.caps \cup b.caps,
     phase |-> JoinPhase(a.phase, b.phase), trail |-> JoinTrail(a.trail, b.trail)]

----------------------------------------------------------------------------
\* The laws.

\* An instance merged twice changes nothing, and instances may be merged with
\* each other first: of the laws AgentState::merge claims, these always hold.
Joins(a, b, c) ==
    /\ Merge(a, a) = a
    /\ Merge(Merge(a, b), b) = Merge(a, b)
    /\ Merge(Merge(a, b), c) = Merge(a, Merge(b, c))

\* The keys a trail has records of.
Recorded(t) == {k \in Keys : t[k] # <<>>}

\* A merge has what either side has, and no more: no less spent than either,
\* the tokens of both, the later phase, records under the keys of both.
Unites(a, b) ==
    LET m == Merge(a, b)
    IN  /\ m.budget.spent \in {a.budget.spent, b.budget.spent}
        /\ \A s \in {a, b} : /\ m.budget.spent >= s.budget.spent
                             /\ PhaseRank[m.phase] >= PhaseRank[s.phase]
        /\ m.caps = a.caps \cup b.caps
        /\ Recorded(m.trail) = Recorded(a.trail) \cup Recorded(b.trail)

\* Two trails that agree on the keys both have records of.
Agreeing(t, u) == \A k \in Recorded(t) \cap Recorded(u) : t[k] = u[k]

\* "No record is ever lost": so it is exactly if no two different sequences of
\* records were made under one key.
KeepsRecords(a, b) ==
    (\A t \in {a.trail, b.trail} : \A k \in Recorded(t) : Merge(a, b).trail[k] = t[k])
        <=> Agreeing(a.trail, b.trail)

\* "The order of merges does not matter": who merges whom does not, exactly if
\* the totals are the same too.
Commutes(a, b) ==
    Merge(a, b) = Merge(b, a)
        <=> a.budget.total = b.budget.total /\ Agreeing(a.trail, b.trail)

\* They agree where the trail v has no records.
AgreeingBeside(t, u, v) ==
    \A k \in (Recorded(t) \cap Recorded(u)) \ Recorded(v) : t[k] = u[k]

\* Two instances may be reconciled into one record in either order whatever
\* their totals: exactly if they agree where that record says nothing.
Reconciles(good, a, b) ==
    Merge(Merge(good, a), b) = Merge(Merge(good, b), a)
        <=> AgreeingBeside(a.trail, b.trail, good.trail)

MergeLaws(a, b, c) ==
    /\ Joins(a, b, c)
    /\ Unites(a, b)
    /\ KeepsRecords(a, b)
    /\ Commutes(a, b)
    /\ Reconciles(a, b, c)

=============================================================================
