-------------------------- MODULE HeuristicControl --------------------------
(***************************************************************************)
(* The control plane under its baseline policy (HeuristicPolicy and        *)
(* ControlPlane::tick of runtime/src/control.rs): each tick observes the   *)
(* fleet, plans heals, refills and at most one migration, and actuates the *)
(* plan in order.  Self-updates, which the heuristic ignores, are left to  *)
(* Governor.                                                               *)
(***************************************************************************)
EXTENDS Fleet, SequencesExt

CONSTANTS
    Imbalance    \* the load gap that triggers a migration

ASSUME HeuristicAssumption ==
    /\ IsFiniteSet(Node)
    /\ IsFiniteSet(Agents)
    /\ Imbalance \in Nat

VARIABLE plan    \* the decisions of the tick under way still to be actuated

heuristicVars == <<fleet, plan>>

HeuristicInit == FleetInit /\ plan = <<>>

----------------------------------------------------------------------------
\* What the policy observes.

\* An agent the supervisor does not know is assumed healthy.
Unhealthy(a) == reg[a] # NotRegistered /\ Suspected(reg[a])

Load(n) == Cardinality({a \in Agents : Hosts(n, a)})

\* min_by_key keeps the first of the least, max_by_key the last of the most.
Lightest(S) == CHOOSE n \in S : \A m \in S :
    Load(n) < Load(m) \/ (Load(n) = Load(m) /\ Rank[n] <= Rank[m])
Busiest(S) == CHOOSE n \in S : \A m \in S :
    Load(n) > Load(m) \/ (Load(n) = Load(m) /\ Rank[n] >= Rank[m])

\* The instances there are to observe.
Observable == {o \in [node : Node, agent : Agents] : Hosts(o.node, o.agent)}

\* They are observed node by node, on a node in any order (a HashMap's).
Observations ==
    {s \in SetToSeqs(Observable) :
        \A i, j \in DOMAIN s : i < j => Rank[s[i].node] <= Rank[s[j].node]}

Sick == {o \in Observable : Unhealthy(o.agent)}
Poor == {o \in Observable : ~Unhealthy(o.agent) /\ placement[o.node][o.agent].low}
Movable(n) == {o \in Observable : o.node = n /\ ~Unhealthy(o.agent)}

\* The observations in S, in their order (SelectSeq with a set in the place of
\* the test).
Among(obs, S) ==
    LET kept[i \in 0 .. Len(obs)] ==
            IF i = 0 THEN <<>>
            ELSE IF obs[i] \in S THEN Append(kept[i - 1], obs[i])
            ELSE kept[i - 1]
    IN  kept[Len(obs)]

\* Mutant: the filter on the target node is inverted.
HealPlanInPlace(obs) ==
    LET sick == Among(obs, Sick)
    IN  [i \in 1 .. Len(sick) |->
           [kind |-> "Heal", agent |-> sick[i].agent,
            onto |-> Lightest({sick[i].node})]]

\* Rule 1: heal each suspected agent onto the lightest node but its own.
HealPlan(obs) ==
    LET sick == Among(obs, Sick)
    IN  [i \in 1 .. Len(sick) |->
           [kind |-> "Heal", agent |-> sick[i].agent,
            onto |-> LET others == Node \ {sick[i].node}
                     IN  Lightest(IF others = {} THEN Node ELSE others)]]

\* Rule 2: refill each healthy agent below the floor, which does, or does not,
\* bring it above.
RefillPlan(obs, enough) ==
    LET poor == Among(obs, Poor)
    IN  [i \in 1 .. Len(poor) |->
           [kind |-> "Refill", agent |-> poor[i].agent,
            enough |-> enough[poor[i].agent]]]

\* Mutant: the balance rule does not ask for the agent's health.
MigratePlanSick(obs) ==
    LET hi == Busiest(Node)
        lo == Lightest(Node)
        movable == Among(obs, {o \in Observable : o.node = hi})
    IN  IF hi # lo /\ Load(hi) - Load(lo) >= Imbalance /\ movable # <<>>
        THEN <<[kind |-> "Migrate", agent |-> movable[1].agent,
                from |-> hi, to |-> lo]>>
        ELSE <<>>

\* Rule 3: move the first healthy agent off the busiest node if it is
\* imbalanced.
MigratePlan(obs) ==
    LET hi == Busiest(Node)
        lo == Lightest(Node)
        movable == Among(obs, Movable(hi))
    IN  IF hi # lo /\ Load(hi) - Load(lo) >= Imbalance /\ movable # <<>>
        THEN <<[kind |-> "Migrate", agent |-> movable[1].agent,
                from |-> hi, to |-> lo]>>
        ELSE <<>>

----------------------------------------------------------------------------
\* No tick is under way.
AtRest == plan = <<>>

ControlTick ==
    /\ AtRest
    /\ \E obs \in Observations, enough \in [Agents -> BOOLEAN] :
         plan' = HealPlan(obs) \o RefillPlan(obs, enough) \o MigratePlan(obs)
    /\ UNCHANGED fleet

\* An inapplicable decision is reported and skipped.
ActuateNext ==
    /\ plan # <<>>
    /\ \/ Actuate(plan[1])
       \/ ~Applicable(plan[1]) /\ UNCHANGED fleet
    /\ plan' = Tail(plan)

Reporting(n, a) == AtRest /\ Report(n, a) /\ UNCHANGED plan

SupervisorCycle ==
    /\ AtRest
    /\ SupervisorTick
    /\ UNCHANGED plan

Events ==
    /\ AtRest
    /\ \/ \E n \in Node, a \in Agents : Exhaust(n, a) \/ Pull(n, a)
       \/ \E n \in Node : Fail(n)
    /\ UNCHANGED plan

HeuristicNext ==
    \/ ControlTick
    \/ ActuateNext
    \/ \E n \in Node, a \in Agents : Reporting(n, a)
    \/ SupervisorCycle
    \/ Events

HeuristicSpec == HeuristicInit /\ [][HeuristicNext]_heuristicVars

\* The caller runs supervision and control cycles for ever, and a running agent
\* keeps reporting.
FairSpec ==
    /\ HeuristicSpec
    /\ SF_heuristicVars(ControlTick)
    /\ WF_heuristicVars(ActuateNext)
    /\ SF_heuristicVars(SupervisorCycle)
    /\ \A n \in Node, a \in Agents : SF_heuristicVars(Reporting(n, a))

----------------------------------------------------------------------------
\* Properties.

\* A plan is made from one observation and actuated decision by decision: no
\* decision of it takes away what a later one builds on, so none of them fails.
\* It needs the fence (else the instance a migration moves could be another one
\* than the one observed), and the rules to speak of different agents where they
\* disagree.
PlanStaysApplicable == plan # <<>> => Applicable(plan[1])

Served(a) == \E n \in Node : Running(n, a)

\* Self-healing: an agent whose node failed is brought up on a node that works.
\* It holds while one node has failed.  With two it does not: the policy does
\* not ask whether the lightest node works, and heals for ever from one failed
\* node onto the other.
Takeover ==
    \A a \in Agents : (reg[a] # NotRegistered /\ ~Served(a)) ~> Served(a)

=============================================================================
