------------------------------ MODULE Governor ------------------------------
(***************************************************************************)
(* The governor (runtime/src/control.rs): the control plane run by an      *)
(* agent of its own.  Each tick it observes, pays for a think, lets its    *)
(* policy decide, and actuates what its capabilities and its mode permit.  *)
(* The policy is any policy: the list it returns is any list of decisions. *)
(***************************************************************************)
EXTENDS Fleet, AttentionBudget

CONSTANTS
    GovernorTotal,   \* the budget of the governor's agent
    ThinkCost,       \* what a tick reserves to deliberate
    MinActual,       \* the least and
    MaxActual,       \* the most (a bound) a think turns out to cost
    CanaryLimits,    \* the limits a canary mode is given
    MaxApplied       \* bound: decisions of one tick that are applied

ASSUME GovernorAssumption ==
    /\ GovernorTotal \in Tokens
    /\ ThinkCost \in Tokens
    /\ MinActual \in Nat
    /\ MaxActual \in Nat
    /\ CanaryLimits \subseteq Nat
    /\ MaxApplied \in Nat

Modes == {[kind |-> k, limit |-> 0] : k \in {"Shadow", "Act"}}
         \cup {[kind |-> "Canary", limit |-> n] : n \in CanaryLimits}

VARIABLES
    mode,
    budget,         \* the attention budget of the governor's agent
    governed,       \* the agents its capabilities cover now
    tick,           \* the tick under way: how many decisions it has applied
    touched,        \* history variable: the agents this tick has changed
    deliberations   \* history variable: ticks that got as far as the policy

governor == <<mode, budget, governed, tick, touched, deliberations>>
vars     == <<fleet, governor>>

Between == ~tick.active
NoTick  == [active |-> FALSE, applied |-> 0]

Init ==
    /\ FleetInit
    /\ mode \in Modes
    /\ budget = NewBudget(GovernorTotal)
    /\ governed \in SUBSET Agents
    /\ tick = NoTick
    /\ touched = {}
    /\ deliberations = 0

\* What a decision may change of one agent.
Slice(a) == <<[n \in Node |-> placement[n][a]], reg[a], histories[a]>>

\* Mutant: a canary applies one decision too many.
PermitsOneMore(m, applied) ==
    \/ m.kind = "Act"
    \/ m.kind = "Canary" /\ applied <= m.limit

Permits(m, applied) ==
    \/ m.kind = "Act"
    \/ m.kind = "Canary" /\ applied < m.limit

----------------------------------------------------------------------------
SetMode(m) ==
    /\ Between
    /\ mode' = m
    /\ UNCHANGED <<fleet, budget, governed, tick, touched, deliberations>>

\* A capability over an agent expires, between ticks or in the middle of one:
\* it is verified against the clock at each decision.
Lapse(a) ==
    /\ a \in governed
    /\ governed' = governed \ {a}
    /\ UNCHANGED <<fleet, mode, budget, tick, touched, deliberations>>

\* The governor thinks, and the think is settled to what it cost.  (A governor
\* that cannot afford the think, or whose mind fails, governs nothing in that
\* tick: nothing changes.)
Deliberate(actual) ==
    /\ Between
    /\ CanCharge(budget, ThinkCost)
    /\ budget' = Settle(Charge(budget, ThinkCost), ThinkCost, actual)
    /\ tick' = [active |-> TRUE, applied |-> 0]
    /\ touched' = {}
    /\ deliberations' = deliberations + 1
    /\ UNCHANGED <<fleet, mode, governed>>

\* The tick is dropped while the mind deliberates: the reservation is lost.
Abandon ==
    /\ Between
    /\ CanCharge(budget, ThinkCost)
    /\ budget' = Charge(budget, ThinkCost)
    /\ UNCHANGED <<fleet, mode, governed, tick, touched, deliberations>>

\* Mutant: the capability gate is left out.
ApplyUngoverned(d) ==
    /\ tick.active
    /\ tick.applied < MaxApplied
    /\ Permits(mode, tick.applied)
    /\ Actuate(d)
    /\ tick' = [tick EXCEPT !.applied = @ + 1]
    /\ touched' = touched \cup {a \in Agents : Slice(a)' # Slice(a)}
    /\ UNCHANGED <<mode, budget, governed, deliberations>>

\* The next decision of the policy passes both gates and is applied.  (One that
\* is denied, shadowed or inapplicable is only reported.)
Apply(d) ==
    /\ tick.active
    /\ tick.applied < MaxApplied
    /\ d.agent \in governed
    /\ Permits(mode, tick.applied)
    /\ Actuate(d)
    /\ tick' = [tick EXCEPT !.applied = @ + 1]
    /\ touched' = touched \cup {a \in Agents : Slice(a)' # Slice(a)}
    /\ UNCHANGED <<mode, budget, governed, deliberations>>

EndTick ==
    /\ tick.active
    /\ tick' = NoTick
    /\ touched' = {}
    /\ UNCHANGED <<fleet, mode, budget, governed, deliberations>>

\* The tick borrows cluster and supervisor: the rest happens between ticks.
Elsewhere == Between /\ Surroundings /\ UNCHANGED governor

Next ==
    \/ \E m \in Modes : SetMode(m)
    \/ \E a \in Agents : Lapse(a)
    \/ \E actual \in MinActual .. MaxActual : Deliberate(actual)
    \/ Abandon
    \/ \E d \in Decisions : Apply(d)
    \/ EndTick
    \/ Elsewhere

Spec == Init /\ [][Next]_vars

----------------------------------------------------------------------------
\* Properties.

\* Every variable keeps its type.
TypeOK ==
    /\ FleetTypeOK
    /\ mode \in Modes
    /\ budget \in AttentionBudgets
    /\ governed \subseteq Agents
    /\ tick \in [active : BOOLEAN, applied : 0 .. MaxApplied]
    /\ touched \subseteq Agents
    /\ deliberations \in Nat

\* Mode's promise: a bounded blast radius.  In shadow no agent's instance,
\* record or history changes in a tick, in a canary those of at most limit
\* agents do, whatever the policy decides.
BlastRadius ==
    /\ mode.kind = "Shadow" => touched = {}
    /\ mode.kind = "Canary" => Cardinality(touched) <= mode.limit

\* INV-2: a tick changes only agents the governor holds a capability over at
\* that moment.
OnlyGoverned ==
    [][tick.active =>
         \A a \in Agents : Slice(a)' # Slice(a) => a \in governed]_vars

\* INV-1: the governor cannot deliberate for free.  When a think reserves and
\* costs at least a token, its budget bounds the ticks in which it governs.
DeliberationIsMetered ==
    ThinkCost > 0 /\ MinActual > 0 => deliberations <= GovernorTotal

=============================================================================
