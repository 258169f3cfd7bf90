----------------------------- MODULE Simulator -----------------------------
(***************************************************************************)
(* The falsification gate E5 (runtime/src/learn.rs): the cluster simulator *)
(* in which a learned policy is judged, the policies it judges, the gate   *)
(* over a held-out suite, and the ramp that turns verdicts into a mode.    *)
(*                                                                         *)
(* An episode is a run of ticks of three phases: failures (and a           *)
(* self-update) arrive; the policy observes and decides, and each decision *)
(* is applied or rejected by a mask; healthy agents work.  The seeded      *)
(* timeline is any timeline, the parameters theta any parameters: the      *)
(* learned policy may take any action it holds legal.  Yields are kept     *)
(* only as what they tell apart, better or worse than the baseline, and    *)
(* which of two mean efficiencies is greater is left open.                 *)
(***************************************************************************)
EXTENDS Integers, Sequences, FiniteSets

CONSTANTS
    NumAgents, NumNodes,
    Ticks,            \* the length of an episode
    InitialBudget,    \* each agent's tokens at birth
    Burn,             \* the tokens of a unit of work
    NodeCap,          \* a node with more agents than this works at half rate
    DownGrace,        \* phases an agent may be down,
    StarveGrace,      \* or starved, before the episode is lost
    MaxGrant,         \* INV-1: the most one refill may grant
    Grants,           \* the grades of refill the learned policy chooses from
    RefillTokens,     \* what the heuristic grants
    LowDenominator,   \* the heuristic refills under 1 / LowDenominator
    Imbalance,        \* the load gap at which the heuristic migrates
    UpdateTicks,      \* the ticks at which an update may land (Ticks: never)
    Suite             \* bound: the episodes of the held-out suite

ASSUME SimulatorAssumption ==
    /\ {NumAgents, NumNodes, Ticks, Burn, DownGrace, StarveGrace,
        LowDenominator, Suite} \subseteq Nat \ {0}
    /\ {InitialBudget, NodeCap, MaxGrant, RefillTokens, Imbalance} \subseteq Nat
    /\ UpdateTicks \subseteq Nat
    /\ Grants \subseteq 0 .. MaxGrant
    /\ RefillTokens <= MaxGrant

Agents    == 1 .. NumAgents
Nodes     == 1 .. NumNodes
Qualities == {"good", "regressed"}
Rungs     == {"Shadow", "Canary", "Act"}

\* Only what a policy can be judged on differs between scenarios; in any of
\* them any healthy agent may fail at any tick.
Scenarios == [packed : BOOLEAN, updateAt : UpdateTicks]

VARIABLES
    scenario,   \* of the episode under way
    tick, phase,
    agents,     \* the simulated agents
    tally,      \* what the outcome counts
    judged,     \* whose suite is run, how many episodes are done, the report
    mode,       \* the rung of the ramp
    breached,   \* history variable: the learned policy lost an episode of this
                \* suite, or had a decision rejected
    won         \* history variable: gates in a row, two at most, that it passed
                \* having done neither

episode == <<scenario, tick, phase, agents, tally>>
ladder  == <<judged, mode, breached, won>>
vars    == <<episode, ladder>>

NewTally == [promoted |-> 0, rolledBack |-> 0,
             violations |-> 0, survived |-> TRUE]

Born(s) ==
    [a \in Agents |->
       [node |-> IF s.packed THEN 1 ELSE ((a - 1) % NumNodes) + 1,
        suspected |-> FALSE, remaining |-> InitialBudget,
        total |-> InitialBudget, down |-> 0, starved |-> 0, busy |-> FALSE,
        quality |-> "par", candidate |-> "none"]]

Starts(s) ==
    /\ scenario' = s
    /\ tick' = 0
    /\ phase' = "failures"
    /\ agents' = Born(s)
    /\ tally' = NewTally

NewReport == [policy |-> "learned", episodes |-> 0, fit |-> TRUE]

Init ==
    /\ scenario \in Scenarios
    /\ tick = 0
    /\ phase = "failures"
    /\ agents = Born(scenario)
    /\ tally = NewTally
    /\ judged = NewReport
    /\ mode = "Shadow"
    /\ breached = FALSE
    /\ won = 0

----------------------------------------------------------------------------
\* The observation: the first of the least loaded nodes, the last of the most
\* loaded ones.
Load(ags, n) == Cardinality({a \in Agents : ags[a].node = n})

Lightest(ags, S) ==
    CHOOSE n \in S : \A m \in S :
        Load(ags, n) < Load(ags, m) \/ (Load(ags, n) = Load(ags, m) /\ n <= m)

Busiest(ags) ==
    CHOOSE n \in Nodes : \A m \in Nodes :
        Load(ags, n) > Load(ags, m) \/ (Load(ags, n) = Load(ags, m) /\ n >= m)

HealOnto(ags, a) ==
    LET others == Nodes \ {ags[a].node}
    IN  [kind |-> "Heal", agent |-> a,
         onto |-> Lightest(ags, IF others = {} THEN Nodes ELSE others)]

\* Mutant: an agent is fed once its budget is spent.
LowWhenSpent(agent) == agent.remaining = 0

Low(agent) == agent.remaining * LowDenominator < agent.total

\* A plan has a place for every decision there may be; some are held.
Hold == [kind |-> "Hold"]

\* First the heals, agent by agent, then the refills, then one migration.
HeuristicPlan(ags) ==
    LET hi      == Busiest(ags)
        lo      == Lightest(ags, Nodes)
        movable == {a \in Agents : ags[a].node = hi /\ ~ags[a].suspected}
        first   == CHOOSE a \in movable : \A b \in movable : a <= b
        fed(a)  == ~ags[a].suspected /\ Low(ags[a])
    IN  [i \in 1 .. 2 * NumAgents + 1 |->
           CASE i \in Agents /\ ags[i].suspected -> HealOnto(ags, i)
             [] i - NumAgents \in Agents /\ fed(i - NumAgents) ->
                  [kind |-> "Refill", agent |-> i - NumAgents, tokens |-> RefillTokens]
             [] /\ i = 2 * NumAgents + 1 /\ movable # {}
                /\ hi # lo /\ Load(ags, hi) - Load(ags, lo) >= Imbalance ->
                  [kind |-> "Migrate", agent |-> first, from |-> hi, to |-> lo]
             [] OTHER -> Hold]

\* Mutant: a verdict is scored without asking for a candidate.
VerdictsUnmasked(agent) == {"Promote", "Rollback"}

Verdicts(agent) == IF agent.candidate # "none" THEN {"Promote", "Rollback"} ELSE {}

\* The action-space masks: what is illegal is not scored.  To hold is always
\* possible.
LearnedActions(ags, a) ==
    LET others == Nodes \ {ags[a].node}
    IN  {Hold} \cup
        IF ags[a].suspected
        THEN {HealOnto(ags, a)}
        ELSE {[kind |-> "Refill", agent |-> a, tokens |-> t] : t \in Grants}
             \cup {[kind |-> "Migrate", agent |-> a, from |-> ags[a].node,
                     to |-> Lightest(ags, others)] : m \in others}
             \cup {[kind |-> k, agent |-> a] : k \in Verdicts(ags[a])}

LearnedPlans(ags) ==
    LET options == [a \in Agents |-> LearnedActions(ags, a)]
    IN  {plan \in [Agents -> UNION {options[a] : a \in Agents}] :
           \A a \in Agents : plan[a] \in options[a]}

Plans(policy) ==
    IF policy = "learned" THEN LearnedPlans(agents) ELSE {HeuristicPlan(agents)}

----------------------------------------------------------------------------
\* Actuation: the masks, and what a decision that passes them does.
Legal(ags, d) ==
    LET agent == ags[d.agent]
    IN  CASE d.kind = "Heal"    -> agent.suspected
          [] d.kind = "Migrate" -> /\ d.from # d.to /\ agent.node = d.from
                                   /\ ~agent.busy /\ ~agent.suspected
          [] d.kind = "Refill"  -> d.tokens <= MaxGrant /\ ~agent.suspected
          [] OTHER              -> ~agent.suspected /\ agent.candidate # "none"

Healed(agent, onto) ==
    [agent EXCEPT !.suspected = FALSE, !.node = onto, !.down = 0, !.busy = TRUE]

\* Mutant: the candidate stays staged.
PromotedStillStaged(agent) == [agent EXCEPT !.quality = agent.candidate]

\* The candidate becomes the committed baseline.
Promoted(agent) == [agent EXCEPT !.quality = agent.candidate, !.candidate = "none"]

Effect(agent, d) ==
    CASE d.kind = "Heal"     -> Healed(agent, d.onto)
      [] d.kind = "Migrate"  -> [agent EXCEPT !.node = d.to, !.busy = TRUE]
      [] d.kind = "Refill"   -> [agent EXCEPT !.remaining = @ + d.tokens,
                                              !.total = @ + d.tokens]
      [] d.kind = "Promote"  -> Promoted(agent)
      [] d.kind = "Rollback" -> [agent EXCEPT !.candidate = "none", !.busy = TRUE]

\* One decision on the cluster as the decisions before it have left it.  A
\* rejected one is counted and changes nothing.
Actuated(s, d) ==
    IF d = Hold THEN s
    ELSE IF ~Legal(s.agents, d)
    THEN [s EXCEPT !.tally.violations = @ + 1]
    ELSE [s EXCEPT
            !.agents[d.agent] = Effect(@, d),
            !.tally.promoted   = @ + (IF d.kind = "Promote" THEN 1 ELSE 0),
            !.tally.rolledBack = @ + (IF d.kind = "Rollback" THEN 1 ELSE 0)]

\* The decisions of a plan in turn.
Applied(s, plan) ==
    LET after[i \in 0 .. Len(plan)] ==
            IF i = 0 THEN s ELSE Actuated(after[i - 1], plan[i])
    IN  after[Len(plan)]

----------------------------------------------------------------------------
\* The phases of a tick.

\* Healthy agents fail and lose a staged candidate; at the tick of the update
\* every agent still healthy has one staged, of hidden quality.
FailuresArrive ==
    /\ phase = "failures" /\ tick < Ticks
    /\ \E failing \in SUBSET {a \in Agents : ~agents[a].suspected},
          staged \in [Agents -> IF tick = scenario.updateAt THEN Qualities ELSE {"none"}] :
         agents' = [a \in Agents |->
             CASE agents[a].suspected -> agents[a]
               [] a \in failing -> [agents[a] EXCEPT !.suspected = TRUE,
                                                     !.candidate = "none"]
               [] OTHER -> [agents[a] EXCEPT !.candidate =
                              IF tick = scenario.updateAt THEN staged[a] ELSE @]]
    /\ phase' = "control"
    /\ UNCHANGED <<scenario, tick, tally, ladder>>

\* The policy decides once, on one observation; its decisions are applied in
\* turn.
Control ==
    /\ phase = "control"
    /\ \E plan \in Plans(judged.policy) :
         LET after == Applied([agents |-> agents, tally |-> tally], plan)
         IN  agents' = after.agents /\ tally' = after.tally
    /\ phase' = "work"
    /\ UNCHANGED <<scenario, tick, ladder>>

Throttled(a) == Load(agents, agents[a].node) > NodeCap /\ tick % 2 = 1

Works(a) ==
    /\ ~agents[a].suspected /\ ~agents[a].busy /\ ~Throttled(a)
    /\ agents[a].remaining >= Burn

Starves(a) ==
    /\ ~agents[a].suspected /\ ~agents[a].busy /\ ~Throttled(a)
    /\ agents[a].remaining < Burn

\* Healthy agents work, and the survival floor is checked: an agent may not be
\* down, nor asked to work without the tokens to, for its grace.
Work ==
    LET worked == [a \in Agents |->
            CASE agents[a].suspected -> [agents[a] EXCEPT !.down = @ + 1]
              [] Works(a)   -> [agents[a] EXCEPT !.remaining = @ - Burn, !.starved = 0]
              [] Starves(a) -> [agents[a] EXCEPT !.starved = @ + 1]
              [] OTHER      -> [agents[a] EXCEPT !.busy = FALSE]]
    IN  /\ phase = "work"
        /\ agents' = worked
        /\ tally' = [tally EXCEPT !.survived = @ /\ \A a \in Agents :
                        /\ agents[a].suspected => worked[a].down < DownGrace
                        /\ Starves(a) => worked[a].starved < StarveGrace]
        /\ tick' = tick + 1
        /\ phase' = "failures"
        /\ UNCHANGED <<scenario, ladder>>

----------------------------------------------------------------------------
\* The gate and the ramp.

Breached == ~tally.survived \/ tally.violations > 0

\* Mutant: the scorecard keeps the last episode only.
ReportedLast(report) ==
    [report EXCEPT !.episodes = @ + 1,
                   !.fit = IF report.policy = "learned" THEN ~Breached ELSE @]

\* The episode enters the scorecard.  Of the baseline's only the efficiency
\* counts.
Reported(report) ==
    [report EXCEPT !.episodes = @ + 1,
                   !.fit = @ /\ (report.policy = "learned" => ~Breached)]

\* An episode is over and the next begins.
EpisodeEnds ==
    /\ phase = "failures" /\ tick = Ticks
    /\ \E s \in Scenarios : Starts(s)
    /\ breached' = (breached \/ (judged.policy = "learned" /\ Breached))

NextEpisode ==
    LET r == Reported(judged)
    IN  /\ EpisodeEnds
        /\ r.episodes < Suite
        /\ judged' = r
        /\ UNCHANGED <<mode, won>>

JudgeBaseline ==
    LET r == Reported(judged)
    IN  /\ EpisodeEnds
        /\ r.episodes = Suite /\ r.policy = "learned"
        /\ judged' = [policy |-> "heuristic", episodes |-> 0, fit |-> r.fit]
        /\ UNCHANGED <<mode, won>>

RampNext(current, passed) ==
    IF ~passed THEN "Shadow"
    ELSE IF current = "Shadow" THEN "Canary" ELSE "Act"

\* Both suites are done: the gate gives its verdict and the ramp acts on it.
Gate ==
    LET r == Reported(judged)
    IN  /\ phase = "failures" /\ tick = Ticks
        /\ \E s \in Scenarios : Starts(s)
        /\ r.episodes = Suite /\ r.policy = "heuristic"
        /\ \E beats \in BOOLEAN :
             /\ mode' = RampNext(mode, r.fit /\ beats)
             /\ won' = IF breached \/ ~beats THEN 0 ELSE IF won = 2 THEN 2 ELSE won + 1
        /\ judged' = NewReport
        /\ breached' = FALSE

Next ==
    \/ FailuresArrive \/ Control \/ Work
    \/ NextEpisode \/ JudgeBaseline \/ Gate

Spec == Init /\ [][Next]_vars

----------------------------------------------------------------------------
\* Properties.

\* RFC-0007 section 4: the invariants are masks.  The policies decide on one
\* observation, the masks judge each decision on the cluster the earlier ones
\* have left: even so neither policy ever has a decision rejected.
MasksAgree == tally.violations = 0

\* Every generation has one verdict: the agents that run a promoted one are as
\* many as the promotions, and no candidate is concluded twice, or pending
\* once concluded.
VerdictsAddUp ==
    LET committed == {a \in Agents : agents[a].quality # "par"}
        pending   == {a \in Agents : agents[a].candidate # "none"}
    IN  /\ tally.promoted = Cardinality(committed)
        /\ committed \cap pending = {}
        /\ tally.promoted + tally.rolledBack + Cardinality(pending) <= NumAgents

\* The baseline of record keeps the survival floor under every failure timeline,
\* so far as it refills before an agent is short of a unit of work.
BaselineSurvives ==
    /\ judged.policy = "heuristic"
    /\ (Burn - 1) * LowDenominator < InitialBudget
    /\ Burn <= RefillTokens
    => tally.survived

\* INV-5: each rung is earned.  Off shadow the learned policy has come through
\* the whole of its last suite, every episode survived and no decision rejected,
\* and beaten the baseline; on the last rung twice in a row.
RungsAreEarned ==
    /\ mode # "Shadow" => won >= 1
    /\ mode = "Act"    => won = 2

=============================================================================
