-------------------------- MODULE SimulatorProofs --------------------------
(***************************************************************************)
(* Proofs about the falsification gate's simulator, for any cluster, any   *)
(* failures and update, any learned policy and any suite: no decision of a *)
(* policy is rejected, verdicts add up, the baseline survives, and the     *)
(* rungs of the ramp are earned.                                           *)
(***************************************************************************)
EXTENDS Simulator, WellFoundedInduction, FiniteSetTheorems, TLAPS

----------------------------------------------------------------------------
\* The invariant.

SimAgents ==
    [node : Nodes, suspected : BOOLEAN, remaining : Nat, total : Nat,
     down : Nat, starved : Nat, busy : BOOLEAN,
     quality : Qualities \cup {"par"}, candidate : Qualities \cup {"none"}]

Tallies == [promoted : Nat, rolledBack : Nat, violations : Nat, survived : BOOLEAN]

Reports == [policy : {"learned", "heuristic"}, episodes : Nat, fit : BOOLEAN]

\* Every variable keeps its type.
TypeOK ==
    /\ scenario \in Scenarios
    /\ tick \in 0 .. Ticks
    /\ phase \in {"failures", "control", "work"}
    /\ agents \in [Agents -> SimAgents]
    /\ tally \in Tallies
    /\ judged \in Reports
    /\ mode \in Rungs
    /\ breached \in BOOLEAN
    /\ won \in 0 .. 2
    /\ phase # "failures" => tick < Ticks

\* A mechanism keeps an agent busy until its tick is over, and only one that is up.
Idle == \A a \in Agents : agents[a].busy => phase = "work" /\ ~agents[a].suspected

\* Before the update lands there is nothing to judge.
Unlanded ==
    tick < scenario.updateAt \/ (tick = scenario.updateAt /\ phase = "failures")
      => /\ tally.promoted = 0 /\ tally.rolledBack = 0
         /\ \A a \in Agents : agents[a].quality = "par" /\ agents[a].candidate = "none"

\* What BaselineSurvives asks of the constants.
Provident == (Burn - 1) * LowDenominator < InitialBudget /\ Burn <= RefillTokens

\* The baseline leaves no agent down, and none short of a unit of work that is
\* not busy.
Tended ==
    /\ \A a \in Agents : agents[a].total >= InitialBudget
    /\ judged.policy = "heuristic" /\ Provident /\ phase = "work" =>
         \A a \in Agents : /\ ~agents[a].suspected
                           /\ agents[a].busy \/ agents[a].remaining >= Burn

\* The scorecard says what the history variable remembers.
Truthful == judged.fit = ~breached

Inv ==
    /\ TypeOK /\ Idle /\ Unlanded /\ Tended /\ Truthful
    /\ MasksAgree /\ VerdictsAddUp /\ BaselineSurvives /\ RungsAreEarned

----------------------------------------------------------------------------
\* Least elements.

\* A set of naturals has a least element: the form in which induction is used.
LEMMA LeastElement ==
  ASSUME NEW T \in SUBSET Nat, T # {}
  PROVE  \E x \in T : \A y \in T : ~ (y < x)
  <1> DEFINE R == {p \in Nat \X Nat : p[1] < p[2]}
  <1>1. IsWellFoundedOn(R, Nat)
    BY NatLessThanWellFounded DEF OpToRel
  <1> HIDE DEF R
  <1>2. PICK x \in T : \A y \in T : ~(<<y, x>> \in R)
    BY <1>1, WFMin, Zenon
  <1> USE DEF R
  <1>3. \A y \in T : y < x => <<y, x>> \in R
    OBVIOUS
  <1>4. QED
    BY <1>2, <1>3

\* The agents are finitely many naturals.
LEMMA AgentsFinite ==
  /\ Agents \subseteq Nat /\ IsFiniteSet(Agents) /\ Cardinality(Agents) = NumAgents
  /\ NumAgents \in Nat \ {0} /\ Nodes \subseteq Nat
  <1>1. NumAgents \in Nat \ {0} /\ NumNodes \in Nat
    BY SimulatorAssumption
  <1>2. IsFiniteSet(1 .. NumAgents)
        /\ Cardinality(1 .. NumAgents) = IF 1 > NumAgents THEN 0 ELSE NumAgents - 1 + 1
    BY <1>1, FS_Interval
  <1>3. QED
    BY <1>1, <1>2 DEF Agents, Nodes

\* A load is a number.
LEMMA LoadNat ==
  ASSUME NEW ags, NEW n
  PROVE  Load(ags, n) \in Nat
  <1> DEFINE S == {a \in Agents : ags[a].node = n}
  <1>1. S \in SUBSET Agents
    OBVIOUS
  <1>2. IsFiniteSet(S)
    BY <1>1, AgentsFinite, FS_Subset
  <1>3. QED
    BY <1>2, FS_CardinalityType DEF Load

\* Among some nodes there is a lightest.
LEMMA LightestIn ==
  ASSUME NEW ags, NEW S \in SUBSET Nodes, S # {}
  PROVE  Lightest(ags, S) \in S
  <1> DEFINE load(n) == Load(ags, n)
             Loads == {l \in Nat : \E n \in S : l = load(n)}
  <1>1. \A n \in S : load(n) \in Nat /\ n \in Nat
    BY LoadNat, AgentsFinite
  <1> HIDE DEF load
  <1>2. Loads \in SUBSET Nat /\ Loads # {}
    BY <1>1
  <1>3. PICK l \in Loads : \A k \in Loads : ~(k < l)
    BY <1>2, LeastElement
  <1> DEFINE T == {n \in S : load(n) = l}
  <1>4. T \in SUBSET Nat /\ T # {}
    BY <1>1, <1>3
  <1>5. PICK n \in T : \A m \in T : ~(m < n)
    BY <1>4, LeastElement
  <1>6. n \in S /\ \A m \in S : load(n) < load(m) \/ (load(n) = load(m) /\ n <= m)
    <2>1. n \in S /\ load(n) = l
      BY <1>5
    <2>2. ASSUME NEW m \in S
          PROVE  load(n) < load(m) \/ (load(n) = load(m) /\ n <= m)
      <3>1. ~(load(m) < l)
        BY <1>1, <1>3
      <3>2. load(m) = l => ~(m < n)
        BY <1>5
      <3>3. QED
        BY <1>1, <2>1, <3>1, <3>2
    <2>3. QED
      BY <2>1, <2>2
  <1>7. QED
    BY <1>6 DEF Lightest, load

\* Among some agents there is a first.
LEMMA FirstIn ==
  ASSUME NEW M \in SUBSET Agents, M # {}
  PROVE  (CHOOSE a \in M : \A b \in M : a <= b) \in M
  <1>1. M \in SUBSET Nat
    BY AgentsFinite
  <1>2. PICK a \in M : \A b \in M : ~(b < a)
    BY <1>1, LeastElement
  <1>3. \A b \in M : a <= b
    BY <1>1, <1>2
  <1>4. QED
    BY <1>2, <1>3

----------------------------------------------------------------------------
\* One decision.

Decisions ==
    [kind : {"Heal"}, agent : Agents, onto : Nodes]
    \cup [kind : {"Migrate"}, agent : Agents, from : Nodes, to : Nodes]
    \cup [kind : {"Refill"}, agent : Agents, tokens : Nat]
    \cup [kind : {"Promote", "Rollback"}, agent : Agents]

\* What a policy acts on.
States == [agents : [Agents -> SimAgents], tally : Tallies]

\* The agents that run a promoted generation, and those with one on trial.
Committed(ags) == {a \in Agents : ags[a].quality # "par"}
Pending(ags)   == {a \in Agents : ags[a].candidate # "none"}

\* VerdictsAddUp, of any such state.
AddsUp(s) ==
    /\ s.tally.promoted = Cardinality(Committed(s.agents))
    /\ Committed(s.agents) \cap Pending(s.agents) = {}
    /\ s.tally.promoted + s.tally.rolledBack + Cardinality(Pending(s.agents)) <= NumAgents

\* The fields of what there is.
LEMMA Fields ==
  /\ \A d \in Decisions :
       /\ d.kind \in {"Heal", "Migrate", "Refill", "Promote", "Rollback"}
       /\ d.agent \in Agents /\ d # Hold
       /\ d.kind = "Heal" => d.onto \in Nodes
       /\ d.kind = "Migrate" => d.from \in Nodes /\ d.to \in Nodes
       /\ d.kind = "Refill" => d.tokens \in Nat
  /\ \A x \in SimAgents :
       /\ x.node \in Nodes /\ x.suspected \in BOOLEAN /\ x.busy \in BOOLEAN
       /\ x.remaining \in Nat /\ x.total \in Nat /\ x.down \in Nat /\ x.starved \in Nat
       /\ x.quality \in Qualities \cup {"par"} /\ x.candidate \in Qualities \cup {"none"}
  /\ \A s \in States : s.agents \in [Agents -> SimAgents] /\ s.tally \in Tallies
  /\ \A t \in Tallies : /\ t.promoted \in Nat /\ t.rolledBack \in Nat
                        /\ t.violations \in Nat /\ t.survived \in BOOLEAN
  <1>1. \A d \in Decisions :
       /\ d.kind \in {"Heal", "Migrate", "Refill", "Promote", "Rollback"}
       /\ d.agent \in Agents
       /\ d.kind = "Heal" => d.onto \in Nodes
       /\ d.kind = "Migrate" => d.from \in Nodes /\ d.to \in Nodes
       /\ d.kind = "Refill" => d.tokens \in Nat
    BY DEF Decisions
  <1>2. Hold.kind = "Hold"
    BY DEF Hold
  <1>3. QED
    BY <1>1, <1>2 DEF SimAgents, States, Tallies

\* An agent with one field changed.
LEMMA Edits ==
  ASSUME NEW x \in SimAgents
  PROVE  /\ \A v \in Nodes : [x EXCEPT !.node = v] \in SimAgents
         /\ \A v \in BOOLEAN : /\ [x EXCEPT !.suspected = v] \in SimAgents
                              /\ [x EXCEPT !.busy = v] \in SimAgents
         /\ \A v \in Nat : /\ [x EXCEPT !.remaining = v] \in SimAgents
                          /\ [x EXCEPT !.total = v] \in SimAgents
                          /\ [x EXCEPT !.down = v] \in SimAgents
                          /\ [x EXCEPT !.starved = v] \in SimAgents
         /\ \A v \in Qualities \cup {"par"} : [x EXCEPT !.quality = v] \in SimAgents
         /\ \A v \in Qualities \cup {"none"} : [x EXCEPT !.candidate = v] \in SimAgents
  <1>1. /\ \A v \in Nodes : [x EXCEPT !.node = v] \in SimAgents
        /\ \A v \in BOOLEAN : [x EXCEPT !.suspected = v] \in SimAgents
    BY DEF SimAgents
  <1>2. /\ \A v \in BOOLEAN : [x EXCEPT !.busy = v] \in SimAgents
        /\ \A v \in Nat : [x EXCEPT !.remaining = v] \in SimAgents
    BY DEF SimAgents
  <1>3. /\ \A v \in Nat : [x EXCEPT !.total = v] \in SimAgents
        /\ \A v \in Nat : [x EXCEPT !.down = v] \in SimAgents
    BY DEF SimAgents
  <1>4. /\ \A v \in Nat : [x EXCEPT !.starved = v] \in SimAgents
        /\ \A v \in Qualities \cup {"par"} : [x EXCEPT !.quality = v] \in SimAgents
    BY DEF SimAgents
  <1>5. \A v \in Qualities \cup {"none"} : [x EXCEPT !.candidate = v] \in SimAgents
    BY DEF SimAgents
  <1>6. QED
    BY <1>1, <1>2, <1>3, <1>4, <1>5

\* A legal decision leaves its agent well typed, and this is what it changes.
LEMMA EffectTyped ==
  ASSUME NEW ags \in [Agents -> SimAgents], NEW d \in Decisions, Legal(ags, d)
  PROVE  LET x == ags[d.agent]
             y == Effect(x, d)
         IN  /\ y \in SimAgents
             /\ y.total >= x.total /\ y.remaining >= x.remaining
             /\ ~y.suspected
             /\ y.quality = IF d.kind = "Promote" THEN x.candidate ELSE x.quality
             /\ y.candidate = IF d.kind \in {"Promote", "Rollback"} THEN "none"
                              ELSE x.candidate
             /\ d.kind \in {"Promote", "Rollback"} => x.candidate # "none"
  <1> DEFINE x == ags[d.agent]
             y == Effect(x, d)
             Fit(z) == /\ z.total >= x.total /\ z.remaining >= x.remaining
                       /\ ~z.suspected
             Concluded(z) ==
               /\ z.quality = IF d.kind = "Promote" THEN x.candidate ELSE x.quality
               /\ z.candidate = IF d.kind \in {"Promote", "Rollback"} THEN "none"
                                ELSE x.candidate
  <1>1. /\ x \in SimAgents /\ d.kind \in {"Heal", "Migrate", "Refill", "Promote", "Rollback"}
        /\ x.remaining \in Nat /\ x.total \in Nat
        /\ d.kind = "Heal" => d.onto \in Nodes
        /\ d.kind = "Migrate" => d.to \in Nodes
        /\ d.kind = "Refill" => d.tokens \in Nat
    BY Fields
  <1>2. /\ d.kind \in {"Promote", "Rollback"} => x.candidate # "none"
        /\ d.kind # "Heal" => ~x.suspected
    BY <1>1 DEF Legal
  <1> HIDE DEF x
  <1>3. CASE d.kind = "Heal"
    <2>1. y = [x EXCEPT !.suspected = FALSE, !.node = d.onto, !.down = 0, !.busy = TRUE]
      BY <1>3 DEF Effect, Healed
    <2>2. y \in SimAgents
      <3>1. [x EXCEPT !.suspected = FALSE] \in SimAgents
        BY <1>1, Edits
      <3>2. [x EXCEPT !.suspected = FALSE, !.node = d.onto] \in SimAgents
        BY <1>1, <1>3, <3>1, Edits
      <3>3. [x EXCEPT !.suspected = FALSE, !.node = d.onto, !.down = 0] \in SimAgents
        BY <3>2, Edits
      <3>4. QED
        BY <2>1, <3>3, Edits
    <2>3. Fit(y) /\ Concluded(y)
      BY <1>1, <1>3, <2>1 DEF SimAgents
    <2>4. QED
      BY <1>2, <2>2, <2>3 DEF x
  <1>4. CASE d.kind = "Migrate"
    <2>1. y = [x EXCEPT !.node = d.to, !.busy = TRUE]
      BY <1>4 DEF Effect
    <2>2. y \in SimAgents
      BY <1>1, <1>4, <2>1 DEF SimAgents
    <2>3. Fit(y) /\ Concluded(y)
      BY <1>1, <1>2, <1>4, <2>1 DEF SimAgents
    <2>4. QED
      BY <1>2, <2>2, <2>3 DEF x
  <1>5. CASE d.kind = "Refill"
    <2>1. y = [x EXCEPT !.remaining = @ + d.tokens, !.total = @ + d.tokens]
      BY <1>5 DEF Effect
    <2>2. y \in SimAgents
      <3> DEFINE m == x.remaining + d.tokens
      <3>1. m \in Nat /\ x.total + d.tokens \in Nat
        BY <1>1, <1>5
      <3> HIDE DEF m
      <3>2. [x EXCEPT !.remaining = m] \in SimAgents
        BY <1>1, <3>1, Edits
      <3>3. [x EXCEPT !.remaining = m].total = x.total
        BY <1>1 DEF SimAgents
      <3>4. y = [[x EXCEPT !.remaining = m] EXCEPT !.total = x.total + d.tokens]
        BY <2>1, <3>3 DEF m
      <3>5. QED
        BY <3>1, <3>2, <3>4, Edits
    <2>3. Fit(y) /\ Concluded(y)
      BY <1>1, <1>2, <1>5, <2>1 DEF SimAgents
    <2>4. QED
      BY <1>2, <2>2, <2>3 DEF x
  <1>6. CASE d.kind = "Promote"
    <2>1. y = [x EXCEPT !.quality = x.candidate, !.candidate = "none"]
      BY <1>6 DEF Effect, Promoted
    <2>2. y \in SimAgents
      BY <1>1, <1>2, <1>6, <2>1 DEF SimAgents
    <2>3. Fit(y) /\ Concluded(y)
      BY <1>1, <1>2, <1>6, <2>1 DEF SimAgents
    <2>4. QED
      BY <1>2, <2>2, <2>3 DEF x
  <1>7. CASE d.kind = "Rollback"
    <2>1. y = [x EXCEPT !.candidate = "none", !.busy = TRUE]
      BY <1>7 DEF Effect
    <2>2. y \in SimAgents
      BY <1>1, <1>7, <2>1 DEF SimAgents
    <2>3. Fit(y) /\ Concluded(y)
      BY <1>1, <1>2, <1>7, <2>1 DEF SimAgents
    <2>4. QED
      BY <1>2, <2>2, <2>3 DEF x
  <1>8. QED
    BY <1>1, <1>3, <1>4, <1>5, <1>6, <1>7

\* A decision, legal or not.
LEMMA ActuatedForms ==
  ASSUME NEW s \in States, NEW d \in Decisions
  PROVE  LET t == Actuated(s, d)
         IN  /\ t \in States
             /\ ~Legal(s.agents, d) =>
                  /\ t.agents = s.agents
                  /\ t.tally.promoted = s.tally.promoted
                  /\ t.tally.rolledBack = s.tally.rolledBack
                  /\ t.tally.survived = s.tally.survived
             /\ Legal(s.agents, d) =>
                  /\ t.agents = [s.agents EXCEPT ![d.agent] = Effect(s.agents[d.agent], d)]
                  /\ d.kind = "Promote" => t.tally.promoted = s.tally.promoted + 1
                  /\ d.kind # "Promote" => t.tally.promoted = s.tally.promoted
                  /\ d.kind = "Rollback" => t.tally.rolledBack = s.tally.rolledBack + 1
                  /\ d.kind # "Rollback" => t.tally.rolledBack = s.tally.rolledBack
                  /\ t.tally.violations = s.tally.violations
                  /\ t.tally.survived = s.tally.survived
                  /\ d.kind \notin {"Promote", "Rollback"} => t.tally = s.tally
  <1> DEFINE t == Actuated(s, d)
             x == Effect(s.agents[d.agent], d)
             p == s.tally.promoted + IF d.kind = "Promote" THEN 1 ELSE 0
             r == s.tally.rolledBack + IF d.kind = "Rollback" THEN 1 ELSE 0
             v == s.tally.violations + 1
             more == [s.tally EXCEPT !.violations = v]
             counted == [s.tally EXCEPT !.promoted = p, !.rolledBack = r]
  <1>1. /\ d # Hold /\ d.agent \in Agents /\ s.agents \in [Agents -> SimAgents]
        /\ s.tally \in Tallies
        /\ s.tally.promoted \in Nat /\ s.tally.rolledBack \in Nat /\ s.tally.violations \in Nat
    BY Fields
  <1>2. s = [agents |-> s.agents, tally |-> s.tally]
    BY DEF States
  <1>3. CASE ~Legal(s.agents, d)
    <2>1. t = [agents |-> s.agents, tally |-> more]
      BY <1>1, <1>2, <1>3 DEF Actuated
    <2>2. v \in Nat
      BY <1>1
    <2> HIDE DEF v
    <2>3. /\ more \in Tallies
          /\ more.promoted = s.tally.promoted /\ more.rolledBack = s.tally.rolledBack
          /\ more.survived = s.tally.survived
      BY <1>1, <2>2 DEF Tallies
    <2> HIDE DEF more
    <2>4. t \in States /\ t.agents = s.agents /\ t.tally = more
      BY <1>1, <2>1, <2>3 DEF States
    <2>5. QED
      BY <1>3, <2>3, <2>4
  <1>4. CASE Legal(s.agents, d)
    <2>1. t = [agents |-> [s.agents EXCEPT ![d.agent] = x], tally |-> counted]
      BY <1>1, <1>2, <1>4 DEF Actuated
    <2>2. x \in SimAgents
      BY <1>1, <1>4, EffectTyped
    <2>3. /\ p \in Nat /\ r \in Nat
          /\ d.kind = "Promote" => p = s.tally.promoted + 1
          /\ d.kind # "Promote" => p = s.tally.promoted
          /\ d.kind = "Rollback" => r = s.tally.rolledBack + 1
          /\ d.kind # "Rollback" => r = s.tally.rolledBack
      BY <1>1
    <2> HIDE DEF p, r, x
    <2>4. /\ counted \in Tallies
          /\ counted.promoted = p /\ counted.rolledBack = r
          /\ counted.violations = s.tally.violations
          /\ counted.survived = s.tally.survived
          /\ p = s.tally.promoted /\ r = s.tally.rolledBack => counted = s.tally
      BY <1>1, <2>3 DEF Tallies
    <2> HIDE DEF counted
    <2>5. t \in States /\ t.agents = [s.agents EXCEPT ![d.agent] = x] /\ t.tally = counted
      BY <1>1, <2>1, <2>2, <2>4 DEF States
    <2>6. QED
      BY <1>4, <2>3, <2>4, <2>5 DEF x
  <1>5. QED
    BY <1>3, <1>4

\* Some of the agents are finitely many.
LEMMA SomeAgents ==
  ASSUME NEW S \in SUBSET Agents
  PROVE  /\ IsFiniteSet(S) /\ Cardinality(S) \in Nat /\ Cardinality(S) <= NumAgents
         /\ \A a \in Agents : /\ a \notin S => Cardinality(S \cup {a}) = Cardinality(S) + 1
                              /\ a \in S => Cardinality(S \ {a}) = Cardinality(S) - 1
  <1>1. IsFiniteSet(S) /\ Cardinality(S) <= NumAgents
    BY AgentsFinite, FS_Subset
  <1>2. Cardinality(S) \in Nat
    BY <1>1, FS_CardinalityType
  <1>3. QED
    BY <1>1, <1>2, FS_AddElement, FS_RemoveElement

\* Whatever the decision, the verdicts go on adding up.
LEMMA ActuatedAddsUp ==
  ASSUME NEW s \in States, NEW d \in Decisions, AddsUp(s)
  PROVE  AddsUp(Actuated(s, d))
  <1> DEFINE t == Actuated(s, d)
             a == d.agent
             C == Committed(s.agents)
             P == Pending(s.agents)
  <1>1. /\ C \in SUBSET Agents /\ P \in SUBSET Agents /\ a \in Agents
        /\ s.agents \in [Agents -> SimAgents]
        /\ s.tally.promoted \in Nat /\ s.tally.rolledBack \in Nat /\ s.tally \in Tallies
    BY Fields DEF Committed, Pending
  <1>2. CASE ~Legal(s.agents, d)
    <2>1. t.agents = s.agents /\ t.tally.promoted = s.tally.promoted
          /\ t.tally.rolledBack = s.tally.rolledBack
      BY <1>2, ActuatedForms
    <2>2. QED
      BY <2>1 DEF AddsUp
  <1>3. CASE Legal(s.agents, d)
    <2> DEFINE x == s.agents[a]
               y == Effect(x, d)
               p == t.tally.promoted
               r == t.tally.rolledBack
    <2>1. /\ t.agents = [s.agents EXCEPT ![a] = y]
          /\ d.kind = "Promote" => p = s.tally.promoted + 1
          /\ d.kind # "Promote" => p = s.tally.promoted
          /\ d.kind = "Rollback" => r = s.tally.rolledBack + 1
          /\ d.kind # "Rollback" => r = s.tally.rolledBack
      BY <1>1, <1>3, ActuatedForms
    <2>2. /\ y.quality = IF d.kind = "Promote" THEN x.candidate ELSE x.quality
          /\ y.candidate = IF d.kind \in {"Promote", "Rollback"} THEN "none"
                           ELSE x.candidate
          /\ d.kind \in {"Promote", "Rollback"} => x.candidate # "none"
          /\ x.candidate \in Qualities \cup {"none"}
      BY <1>1, <1>3, EffectTyped, Fields
    <2> HIDE DEF y
    <2>3. \A b \in Agents : t.agents[b] = IF b = a THEN y ELSE s.agents[b]
      BY <1>1, <2>1
    <2>4. /\ Committed(t.agents) = IF d.kind = "Promote" THEN C \cup {a} ELSE C
          /\ Pending(t.agents) = IF d.kind \in {"Promote", "Rollback"} THEN P \ {a} ELSE P
      BY <1>1, <2>2, <2>3 DEF Committed, Pending, Qualities
    <2>5. d.kind \in {"Promote", "Rollback"} => a \in P
      BY <1>1, <2>2 DEF Pending
    <2>6. C \cap P = {} /\ s.tally.promoted = Cardinality(C)
          /\ s.tally.promoted + s.tally.rolledBack + Cardinality(P) <= NumAgents
      BY DEF AddsUp
    <2>7. /\ Cardinality(C) \in Nat /\ Cardinality(P) \in Nat /\ NumAgents \in Nat
          /\ a \notin C => Cardinality(C \cup {a}) = Cardinality(C) + 1
          /\ a \in P => Cardinality(P \ {a}) = Cardinality(P) - 1
      BY <1>1, SomeAgents, AgentsFinite
    <2> DEFINE C2 == Committed(t.agents)
               P2 == Pending(t.agents)
               fits == /\ p = Cardinality(C2) /\ C2 \cap P2 = {}
                       /\ p + r + Cardinality(P2) <= NumAgents
    <2> HIDE DEF C, P, C2, P2, t, p, r
    <2>8. ASSUME d.kind = "Promote" PROVE fits
      <3>1. C2 = C \cup {a} /\ P2 = P \ {a} /\ a \in P /\ a \notin C
        BY <2>4, <2>5, <2>6, <2>8 DEF C2, P2
      <3>2. p = s.tally.promoted + 1 /\ r = s.tally.rolledBack
        BY <1>1, <2>1, <2>8
      <3>3. QED
        BY <1>1, <2>6, <2>7, <3>1, <3>2
    <2>9. ASSUME d.kind = "Rollback" PROVE fits
      <3>1. C2 = C /\ P2 = P \ {a} /\ a \in P
        BY <2>4, <2>5, <2>9 DEF C2, P2
      <3>2. p = s.tally.promoted /\ r = s.tally.rolledBack + 1
        BY <1>1, <2>1, <2>9
      <3>3. QED
        BY <1>1, <2>6, <2>7, <3>1, <3>2
    <2>10. ASSUME d.kind \notin {"Promote", "Rollback"} PROVE fits
      <3>1. C2 = C /\ P2 = P
        BY <2>4, <2>10 DEF C2, P2
      <3>2. p = s.tally.promoted /\ r = s.tally.rolledBack
        BY <1>1, <2>1, <2>10
      <3>3. QED
        BY <2>6, <3>1, <3>2
    <2>11. fits
      BY <2>8, <2>9, <2>10
    <2>12. QED
      BY <2>11 DEF AddsUp, C2, P2, t, p, r
  <1>4. QED
    BY <1>2, <1>3

\* No verdict given yet, and none to give.
Blank(s) ==
    /\ s.tally.promoted = 0 /\ s.tally.rolledBack = 0
    /\ \A a \in Agents : s.agents[a].quality = "par" /\ s.agents[a].candidate = "none"

\* No agent that is down is at work on anything.
Awake(s) == \A a \in Agents : s.agents[a].busy => ~s.agents[a].suspected

\* No decision costs an agent tokens, or the episode; without candidates none is
\* a verdict; only an agent that is up is made busy.
LEMMA ActuatedKeeps ==
  ASSUME NEW s \in States, NEW d \in Decisions
  PROVE  LET t == Actuated(s, d)
         IN  /\ t.tally.survived = s.tally.survived
             /\ \A a \in Agents : t.agents[a].total >= s.agents[a].total
             /\ Blank(s) => Blank(t)
             /\ Awake(s) => Awake(t)
  <1> DEFINE t == Actuated(s, d)
             b == d.agent
             y == Effect(s.agents[b], d)
  <1>1. b \in Agents /\ s.agents \in [Agents -> SimAgents]
        /\ \A a \in Agents : s.agents[a].total \in Nat
    BY Fields
  <1>2. CASE ~Legal(s.agents, d)
    <2>1. /\ t.agents = s.agents /\ t.tally.survived = s.tally.survived
          /\ t.tally.promoted = s.tally.promoted /\ t.tally.rolledBack = s.tally.rolledBack
      BY <1>2, ActuatedForms
    <2>2. QED
      BY <1>1, <2>1 DEF Blank, Awake
  <1>3. CASE Legal(s.agents, d)
    <2>1. /\ t.agents = [s.agents EXCEPT ![b] = y] /\ t.tally.survived = s.tally.survived
          /\ d.kind # "Promote" => t.tally.promoted = s.tally.promoted
          /\ d.kind # "Rollback" => t.tally.rolledBack = s.tally.rolledBack
      BY <1>3, ActuatedForms
    <2>2. /\ y.total >= s.agents[b].total /\ ~y.suspected
          /\ y.quality = IF d.kind = "Promote" THEN s.agents[b].candidate
                         ELSE s.agents[b].quality
          /\ y.candidate = IF d.kind \in {"Promote", "Rollback"} THEN "none"
                           ELSE s.agents[b].candidate
          /\ d.kind \in {"Promote", "Rollback"} => s.agents[b].candidate # "none"
      BY <1>1, <1>3, EffectTyped
    <2> HIDE DEF y, t
    <2>3. \A a \in Agents : t.agents[a] = IF a = b THEN y ELSE s.agents[a]
      BY <1>1, <2>1
    <2>4. \A a \in Agents : t.agents[a].total >= s.agents[a].total
      BY <1>1, <2>2, <2>3
    <2>5. ASSUME Blank(s) PROVE Blank(t)
      <3>1. d.kind \notin {"Promote", "Rollback"}
        BY <1>1, <2>2, <2>5 DEF Blank
      <3>2. QED
        BY <1>1, <2>1, <2>2, <2>3, <2>5, <3>1 DEF Blank
    <2>6. Awake(s) => Awake(t)
      BY <1>1, <2>2, <2>3 DEF Awake
    <2>7. QED
      BY <2>1, <2>4, <2>5, <2>6 DEF t
  <1>4. QED
    BY <1>2, <1>3

\* What else a legal decision changes in its agent.
LEMMA EffectFields ==
  ASSUME NEW x \in SimAgents, NEW d \in Decisions
  PROVE  LET y == Effect(x, d)
         IN  /\ d.kind = "Heal" => ~y.suspected /\ y.busy
             /\ d.kind = "Refill" => /\ y.suspected = x.suspected /\ y.busy = x.busy
                                     /\ y.node = x.node
                                     /\ y.remaining = x.remaining + d.tokens
             /\ d.kind = "Migrate" => y.suspected = x.suspected /\ y.remaining = x.remaining
  <1> DEFINE y == Effect(x, d)
  <1>1. CASE d.kind = "Heal"
    <2>1. y = [x EXCEPT !.suspected = FALSE, !.node = d.onto, !.down = 0, !.busy = TRUE]
      BY <1>1 DEF Effect, Healed
    <2>2. QED
      BY <1>1, <2>1 DEF SimAgents
  <1>2. CASE d.kind = "Refill"
    <2>1. y = [x EXCEPT !.remaining = @ + d.tokens, !.total = @ + d.tokens]
      BY <1>2 DEF Effect
    <2>2. QED
      BY <1>2, <2>1 DEF SimAgents
  <1>3. CASE d.kind = "Migrate"
    <2>1. y = [x EXCEPT !.node = d.to, !.busy = TRUE]
      BY <1>3 DEF Effect
    <2>2. QED
      BY <1>3, <2>1 DEF SimAgents
  <1>4. QED
    BY <1>1, <1>2, <1>3

----------------------------------------------------------------------------
\* The decisions of a plan in turn.

\* after[i] is what the first i decisions of the plan make of s.
Follows(after, s, plan, n) ==
    after = [i \in 0 .. n |-> IF i = 0 THEN s ELSE Actuated(after[i - 1], plan[i])]

\* There is such a course, however long the plan: of the lengths for which there
\* were none the least would be one more than one for which there is.
LEMMA CourseOf ==
  ASSUME NEW s, NEW plan, NEW n \in Nat
  PROVE  \E after : Follows(after, s, plan, n)
  <1> DEFINE T == {k \in Nat : ~\E after : Follows(after, s, plan, k)}
  <1>1. SUFFICES ASSUME T # {} PROVE FALSE
    OBVIOUS
  <1>2. T \in SUBSET Nat
    OBVIOUS
  <1>3. PICK k \in T : \A j \in T : ~(j < k)
    BY <1>1, <1>2, LeastElement
  <1>4. CASE k = 0
    <2> DEFINE none == [i \in 0 .. 0 |-> s]
    <2>1. Follows(none, s, plan, 0)
      BY DEF Follows
    <2>2. QED
      BY <1>4, <2>1
  <1>5. CASE k # 0
    <2>1. k \in Nat /\ k - 1 \in Nat /\ k - 1 < k
      BY <1>5
    <2>2. k - 1 \notin T
      BY <1>3, <2>1
    <2>3. PICK less : Follows(less, s, plan, k - 1)
      BY <2>1, <2>2
    <2> DEFINE last == Actuated(less[k - 1], plan[k])
               more == [i \in 0 .. k |-> IF i = k THEN last ELSE less[i]]
    <2>4. \A i \in 0 .. k - 1 :
            less[i] = IF i = 0 THEN s ELSE Actuated(less[i - 1], plan[i])
      BY <2>3, Zenon DEF Follows
    <2>5. ASSUME NEW i \in 0 .. k
          PROVE  more[i] = IF i = 0 THEN s ELSE Actuated(more[i - 1], plan[i])
      <3> HIDE DEF last
      <3>1. CASE i = k
        <4>1. more[i] = last /\ more[i - 1] = less[k - 1] /\ i # 0
          BY <1>5, <2>1, <3>1
        <4>2. QED
          BY <3>1, <4>1 DEF last
      <3>2. CASE i # k
        <4>1. i \in 0 .. k - 1 /\ more[i] = less[i]
          BY <2>1, <3>2
        <4>2. i # 0 => more[i - 1] = less[i - 1]
          BY <2>1, <3>2
        <4>3. QED
          BY <2>4, <4>1, <4>2
      <3>3. QED
        BY <3>1, <3>2
    <2>6. Follows(more, s, plan, k)
      BY <2>5, Zenon DEF Follows
    <2>7. QED
      BY <1>3, <2>6
  <1>6. QED
    BY <1>4, <1>5

\* What a plan makes of s is the end of its course.
LEMMA AppliedFollows ==
  ASSUME NEW s, NEW n \in Nat, NEW plan, Len(plan) = n
  PROVE  \E after : Follows(after, s, plan, n) /\ Applied(s, plan) = after[n]
  <1> DEFINE Is(f) == f = [i \in 0 .. Len(plan) |->
                             IF i = 0 THEN s ELSE Actuated(f[i - 1], plan[i])]
             after == CHOOSE f : Is(f)
  <1>1. PICK f : Follows(f, s, plan, n)
    BY CourseOf
  <1>2. Is(f)
    BY <1>1 DEF Follows
  <1>3. Is(after)
    BY <1>2, Zenon
  <1>4. Applied(s, plan) = after[Len(plan)]
    BY DEF Applied
  <1>5. QED
    BY <1>3, <1>4 DEF Follows

\* The steps of a course.
Stepwise(after, s, plan, n) ==
    /\ after[0] = s /\ 0 \in 0 .. n
    /\ \A i \in 1 .. n : after[i] = Actuated(after[i - 1], plan[i]) /\ i \in 0 .. n

\* A course begins at s and goes on decision by decision.
LEMMA Course ==
  ASSUME NEW s, NEW plan, NEW n \in Nat, NEW after, Follows(after, s, plan, n)
  PROVE  Stepwise(after, s, plan, n)
  <1>1. \A i \in 0 .. n : after[i] = IF i = 0 THEN s ELSE Actuated(after[i - 1], plan[i])
    BY Zenon DEF Follows
  <1>2. 0 \in 0 .. n
    OBVIOUS
  <1>3. \A i \in 1 .. n : i \in 0 .. n /\ i # 0 /\ i - 1 \in 0 .. n
    OBVIOUS
  <1>4. QED
    BY <1>1, <1>2, <1>3 DEF Stepwise

\* Induction along a course: what holds at first and is kept by each decision
\* holds all along.  Good is the set of the indices at which it does.
LEMMA Along ==
  ASSUME NEW n \in Nat, NEW Good, 0 \in Good,
         \A i \in 1 .. n : i - 1 \in Good => i \in Good
  PROVE  \A i \in 0 .. n : i \in Good
  <1> DEFINE T == {i \in 0 .. n : i \notin Good}
  <1>1. SUFFICES ASSUME T # {} PROVE FALSE
    OBVIOUS
  <1>2. T \in SUBSET Nat
    OBVIOUS
  <1>3. PICK i \in T : \A j \in T : ~(j < i)
    BY <1>1, <1>2, LeastElement
  <1>4. i \in 1 .. n /\ i - 1 \in 0 .. n /\ i - 1 < i
    BY <1>3
  <1>5. i - 1 \in Good
    BY <1>3, <1>4
  <1>6. QED
    BY <1>3, <1>4, <1>5

\* What decisions make of s whoever decides: the state keeps its type, the verdicts
\* add up, and what no decision touches stays.
Kept(s, t) ==
    /\ t \in States /\ AddsUp(t)
    /\ t.tally.survived = s.tally.survived
    /\ \A a \in Agents : t.agents[a].total >= s.agents[a].total
    /\ Blank(s) => Blank(t)
    /\ Awake(s) => Awake(t)

\* A plan is a number of decisions, some of them held.
IsPlan(plan, n) == \A i \in 1 .. n : plan[i] \in Decisions \cup {Hold}

\* It is so all along the course of any plan.
LEMMA CourseAddsUp ==
  ASSUME NEW s \in States, AddsUp(s), NEW n \in Nat, NEW plan, IsPlan(plan, n),
         NEW after, Follows(after, s, plan, n)
  PROVE  \A i \in 0 .. n : Kept(s, after[i])
  <1> DEFINE Good == {i \in 0 .. n : Kept(s, after[i])}
  <1>1. 0 \in Good
    <2>1. \A a \in Agents : s.agents[a].total \in Nat
      BY Fields
    <2>2. Kept(s, s)
      BY <2>1 DEF Kept
    <2>3. after[0] = s /\ 0 \in 0 .. n
      BY Course DEF Stepwise
    <2>4. QED
      BY <2>2, <2>3
  <1>2. ASSUME NEW i \in 1 .. n, i - 1 \in Good PROVE i \in Good
    <2> DEFINE r == after[i - 1]
    <2>1. Kept(s, r) /\ after[i] = Actuated(r, plan[i]) /\ i \in 0 .. n
      BY <1>2, Course DEF Stepwise
    <2> HIDE DEF r
    <2>2. CASE plan[i] = Hold
      <3>1. after[i] = r
        BY <2>1, <2>2 DEF Actuated
      <3>2. QED
        BY <2>1, <3>1
    <2>3. CASE plan[i] \in Decisions
      <3> DEFINE t == Actuated(r, plan[i])
      <3>1. t \in States /\ AddsUp(t)
        BY <2>1, <2>3, ActuatedForms, ActuatedAddsUp DEF Kept
      <3>2. /\ t.tally.survived = r.tally.survived
            /\ \A a \in Agents : t.agents[a].total >= r.agents[a].total
            /\ Blank(r) => Blank(t)
            /\ Awake(r) => Awake(t)
        BY <2>1, <2>3, ActuatedKeeps DEF Kept
      <3>3. \A a \in Agents : /\ t.agents[a].total \in Nat /\ r.agents[a].total \in Nat
                               /\ s.agents[a].total \in Nat
        BY <2>1, <3>1, Fields DEF Kept
      <3> HIDE DEF t
      <3>4. \A a \in Agents : t.agents[a].total >= s.agents[a].total
        BY <2>1, <3>2, <3>3 DEF Kept
      <3>5. Kept(s, t)
        BY <2>1, <3>1, <3>2, <3>4 DEF Kept
      <3>6. QED
        BY <2>1, <3>5 DEF t
    <2>4. plan[i] \in Decisions \cup {Hold}
      BY DEF IsPlan
    <2>5. QED
      BY <2>2, <2>3, <2>4
  <1> HIDE DEF Good
  <1>3. \A i \in 0 .. n : i \in Good
    BY <1>1, <1>2, Along
  <1>4. QED
    BY <1>3 DEF Good

----------------------------------------------------------------------------
\* The plans.

\* Where an agent is healed onto is a node.
LEMMA HealOntoIs ==
  ASSUME NEW ags \in [Agents -> SimAgents], NEW a \in Agents
  PROVE  \E n \in Nodes : HealOnto(ags, a) = [kind |-> "Heal", agent |-> a, onto |-> n]
  <1> DEFINE others == Nodes \ {ags[a].node}
             S == IF others = {} THEN Nodes ELSE others
  <1>1. Nodes # {}
    BY SimulatorAssumption DEF Nodes
  <1>2. S \in SUBSET Nodes /\ S # {}
    BY <1>1
  <1>3. Lightest(ags, S) \in Nodes
    BY <1>2, LightestIn
  <1>4. QED
    BY <1>3 DEF HealOnto

\* What the learned policy holds legal for an agent is legal so long as that
\* agent stays as it was observed.
LEMMA LearnedDecision ==
  ASSUME NEW ags \in [Agents -> SimAgents], NEW a \in Agents, ~ags[a].busy,
         NEW d \in LearnedActions(ags, a), d # Hold
  PROVE  /\ d \in Decisions /\ d.agent = a
         /\ \A now : now[a] = ags[a] => Legal(now, d)
  <1> DEFINE x == ags[a]
             others == Nodes \ {x.node}
  <1>1. x \in SimAgents /\ x.node \in Nodes
    BY Fields
  <1>2. CASE x.suspected
    <2>1. d = HealOnto(ags, a)
      BY <1>2 DEF LearnedActions
    <2>2. PICK n \in Nodes : d = [kind |-> "Heal", agent |-> a, onto |-> n]
      BY <2>1, HealOntoIs
    <2>3. d.kind = "Heal" /\ d.agent = a /\ d \in Decisions
      BY <2>2 DEF Decisions
    <2>4. QED
      BY <1>2, <2>3 DEF Legal
  <1>3. CASE ~x.suspected
    <2>1. \/ \E t \in Grants : d = [kind |-> "Refill", agent |-> a, tokens |-> t]
          \/ /\ others # {}
             /\ d = [kind |-> "Migrate", agent |-> a, from |-> x.node,
                     to |-> Lightest(ags, others)]
          \/ \E k \in Verdicts(x) : d = [kind |-> k, agent |-> a]
      BY <1>3 DEF LearnedActions
    <2>2. ASSUME NEW t \in Grants, d = [kind |-> "Refill", agent |-> a, tokens |-> t]
          PROVE  d \in Decisions /\ d.agent = a /\ \A now : now[a] = x => Legal(now, d)
      <3>1. t \in Nat /\ t <= MaxGrant
        BY SimulatorAssumption
      <3>2. d.kind = "Refill" /\ d.agent = a /\ d.tokens = t /\ d \in Decisions
        BY <2>2, <3>1 DEF Decisions
      <3>3. QED
        BY <1>3, <3>1, <3>2 DEF Legal
    <2>3. ASSUME others # {},
                 d = [kind |-> "Migrate", agent |-> a, from |-> x.node,
                      to |-> Lightest(ags, others)]
          PROVE  d \in Decisions /\ d.agent = a /\ \A now : now[a] = x => Legal(now, d)
      <3>1. Lightest(ags, others) \in others
        BY <2>3, LightestIn
      <3>2. /\ d.kind = "Migrate" /\ d.agent = a /\ d.from = x.node /\ d.to \in others
            /\ d \in Decisions
        BY <1>1, <2>3, <3>1 DEF Decisions
      <3>3. d.from # d.to
        BY <3>2
      <3>4. QED
        BY <1>3, <3>2, <3>3 DEF Legal
    <2>4. ASSUME NEW k \in Verdicts(x), d = [kind |-> k, agent |-> a]
          PROVE  d \in Decisions /\ d.agent = a /\ \A now : now[a] = x => Legal(now, d)
      <3>1. k \in {"Promote", "Rollback"} /\ x.candidate # "none"
        BY DEF Verdicts
      <3>2. d.kind \in {"Promote", "Rollback"} /\ d.agent = a /\ d \in Decisions
        BY <2>4, <3>1 DEF Decisions
      <3>3. QED
        BY <1>3, <3>1, <3>2 DEF Legal
    <2>5. QED
      BY <2>1, <2>2, <2>3, <2>4
  <1>4. QED
    BY <1>2, <1>3

\* A function on 1 .. n is a sequence of length n.
LEMMA PlanLength ==
  ASSUME NEW n \in Nat, NEW S, NEW plan \in [1 .. n -> S]
  PROVE  Len(plan) = n
  OBVIOUS

\* A plan of the learned policy has a place for each agent.
LEMMA LearnedPlan ==
  ASSUME NEW ags, NEW plan \in LearnedPlans(ags)
  PROVE  Len(plan) = NumAgents /\ \A a \in Agents : plan[a] \in LearnedActions(ags, a)
  <1> DEFINE options == [a \in Agents |-> LearnedActions(ags, a)]
  <1>1. /\ plan \in [Agents -> UNION {options[a] : a \in Agents}]
        /\ \A a \in Agents : plan[a] \in options[a]
    BY DEF LearnedPlans
  <1>2. Len(plan) = NumAgents
    BY <1>1, PlanLength, AgentsFinite DEF Agents
  <1>3. QED
    BY <1>1, <1>2

\* Along the course of a learned plan the agents whose turn is still to come are
\* as they were observed, and nothing is rejected.
LEMMA LearnedCourse ==
  ASSUME NEW s \in States, \A a \in Agents : ~s.agents[a].busy,
         NEW plan \in LearnedPlans(s.agents),
         NEW after, Follows(after, s, plan, NumAgents)
  PROVE  \A i \in 0 .. NumAgents : after[i].tally.violations = s.tally.violations
  <1> DEFINE n == NumAgents
             Good == {i \in 0 .. n :
                        /\ after[i] \in States
                        /\ after[i].tally.violations = s.tally.violations
                        /\ \A a \in Agents : a > i => after[i].agents[a] = s.agents[a]}
  <1>1. n \in Nat /\ Agents = 1 .. n
    BY AgentsFinite DEF Agents
  <1>2. 0 \in Good
    <2>1. Stepwise(after, s, plan, n)
      BY <1>1, Course
    <2>2. after[0] = s /\ 0 \in 0 .. n
      BY <2>1 DEF Stepwise
    <2>3. QED
      BY <2>2
  <1>3. ASSUME NEW i \in 1 .. n, i - 1 \in Good PROVE i \in Good
    <2> DEFINE r == after[i - 1]
               d == plan[i]
    <2>1. /\ r \in States /\ r.tally.violations = s.tally.violations
          /\ \A a \in Agents : a > i - 1 => r.agents[a] = s.agents[a]
          /\ after[i] = Actuated(r, d) /\ i \in 0 .. n
      BY <1>1, <1>3, Course DEF Stepwise
    <2>2. r.agents[i] = s.agents[i] /\ i \in Agents /\ d \in LearnedActions(s.agents, i)
      BY <1>1, <2>1, LearnedPlan
    <2> HIDE DEF r, d
    <2>3. CASE d = Hold
      <3>1. after[i] = r
        BY <2>1, <2>3 DEF Actuated
      <3>2. \A a \in Agents : a > i => a > i - 1
        BY <1>1
      <3>3. QED
        BY <2>1, <3>1, <3>2
    <2>4. CASE d # Hold
      <3>1. d \in Decisions /\ d.agent = i /\ Legal(r.agents, d)
        BY <2>2, <2>4, LearnedDecision, Fields
      <3>2. /\ after[i] \in States
            /\ after[i].agents = [r.agents EXCEPT ![i] = Effect(r.agents[i], d)]
            /\ after[i].tally.violations = r.tally.violations
        BY <2>1, <3>1, ActuatedForms
      <3>3. r.agents \in [Agents -> SimAgents]
        BY <2>1, Fields
      <3>4. ASSUME NEW a \in Agents, a > i PROVE after[i].agents[a] = s.agents[a]
        <4>1. a # i /\ a > i - 1
          BY <1>1, <3>4
        <4>2. QED
          BY <2>1, <3>2, <3>3, <4>1
      <3>5. QED
        BY <2>1, <3>2, <3>4
    <2>5. QED
      BY <2>3, <2>4
  <1> HIDE DEF Good
  <1>4. \A i \in 0 .. n : i \in Good
    BY <1>1, <1>2, <1>3, Along
  <1>5. QED
    BY <1>4 DEF Good

\* What the baseline decides, place by place.
PlacesOf(plan, ags) ==
    /\ \A a \in Agents :
         /\ ags[a].suspected =>
              \E n \in Nodes : plan[a] = [kind |-> "Heal", agent |-> a, onto |-> n]
         /\ ~ags[a].suspected => plan[a] = Hold
    /\ \A b \in Agents :
         /\ ~ags[b].suspected /\ Low(ags[b]) =>
              plan[NumAgents + b]
                = [kind |-> "Refill", agent |-> b, tokens |-> RefillTokens]
         /\ ~(~ags[b].suspected /\ Low(ags[b])) => plan[NumAgents + b] = Hold
    /\ \/ plan[2 * NumAgents + 1] = Hold
       \/ \E m \in Agents, to \in Nodes :
            /\ plan[2 * NumAgents + 1]
                 = [kind |-> "Migrate", agent |-> m, from |-> ags[m].node, to |-> to]
            /\ ags[m].node # to /\ ~ags[m].suspected

\* A heal for each agent that is down, a refill for each that is low, then one
\* migration.
LEMMA HeuristicDecision ==
  ASSUME NEW ags \in [Agents -> SimAgents]
  PROVE  /\ Len(HeuristicPlan(ags)) = 2 * NumAgents + 1
         /\ PlacesOf(HeuristicPlan(ags), ags)
  <1> DEFINE N == NumAgents
             plan == HeuristicPlan(ags)
             hi == Busiest(ags)
             lo == Lightest(ags, Nodes)
             movable == {a \in Agents : ags[a].node = hi /\ ~ags[a].suspected}
             first == CHOOSE a \in movable : \A b \in movable : a <= b
             fed(a) == ~ags[a].suspected /\ Low(ags[a])
             far == hi # lo /\ Load(ags, hi) - Load(ags, lo) >= Imbalance
             place(i) ==
               CASE i \in Agents /\ ags[i].suspected -> HealOnto(ags, i)
                 [] i - N \in Agents /\ fed(i - N) ->
                      [kind |-> "Refill", agent |-> i - N, tokens |-> RefillTokens]
                 [] i = 2 * N + 1 /\ movable # {} /\ far ->
                      [kind |-> "Migrate", agent |-> first, from |-> hi, to |-> lo]
                 [] OTHER -> Hold
  <1>1. plan = [i \in 1 .. 2 * N + 1 |-> place(i)]
    BY DEF HeuristicPlan
  <1>2. N \in Nat \ {0} /\ 2 * N + 1 \in Nat /\ Agents = 1 .. N
    BY AgentsFinite DEF Agents
  <1>3. Len(plan) = 2 * N + 1
    <2> DEFINE S == {place(i) : i \in 1 .. 2 * N + 1}
    <2> HIDE DEF place
    <2>1. plan \in [1 .. 2 * N + 1 -> S]
      BY <1>1
    <2> HIDE DEF S
    <2>2. QED
      BY <1>2, <2>1, PlanLength
  <1>4. \A i \in 1 .. 2 * N + 1 : plan[i] = place(i)
    BY <1>1
  <1> HIDE DEF hi, lo, far, first, plan
  <1>5. ASSUME NEW i \in Agents
        PROVE  /\ ags[i].suspected =>
                    \E n \in Nodes : plan[i] = [kind |-> "Heal", agent |-> i, onto |-> n]
               /\ ~ags[i].suspected => plan[i] = Hold
    <2>1. i \in 1 .. 2 * N + 1 /\ i - N \notin Agents /\ i # 2 * N + 1
      BY <1>2
    <2>2. /\ ags[i].suspected => plan[i] = HealOnto(ags, i)
          /\ ~ags[i].suspected => plan[i] = Hold
      BY <1>4, <2>1
    <2>3. QED
      BY <2>2, HealOntoIs
  <1>6. ASSUME NEW b \in Agents
        PROVE  /\ fed(b) => plan[N + b]
                              = [kind |-> "Refill", agent |-> b, tokens |-> RefillTokens]
               /\ ~fed(b) => plan[N + b] = Hold
    <2> DEFINE i == N + b
    <2>1. i \in 1 .. 2 * N + 1 /\ i - N = b /\ i \notin Agents /\ i # 2 * N + 1
      BY <1>2
    <2> HIDE DEF i
    <2>2. /\ fed(b) => plan[i] = [kind |-> "Refill", agent |-> b, tokens |-> RefillTokens]
          /\ ~fed(b) => plan[i] = Hold
      BY <1>4, <2>1
    <2>3. QED
      BY <2>2 DEF i
  <1>7. \/ plan[2 * N + 1] = Hold
        \/ \E m \in Agents, to \in Nodes :
             /\ plan[2 * N + 1]
                  = [kind |-> "Migrate", agent |-> m, from |-> ags[m].node, to |-> to]
             /\ ags[m].node # to /\ ~ags[m].suspected
    <2> DEFINE i == 2 * N + 1
    <2>1. i \in 1 .. 2 * N + 1 /\ i - N \notin Agents /\ i \notin Agents /\ i = 2 * N + 1
      BY <1>2
    <2> HIDE DEF i
    <2>2. CASE movable # {} /\ far
      <3>1. first \in movable
        BY <2>2, FirstIn DEF first
      <3>2. first \in Agents /\ ags[first].node = hi /\ ~ags[first].suspected
        BY <3>1
      <3>3. Nodes # {}
        BY SimulatorAssumption DEF Nodes
      <3>4. lo \in Nodes
        BY <3>3, LightestIn DEF lo
      <3>5. hi # lo
        BY <2>2 DEF far
      <3> HIDE DEF movable
      <3>6. plan[i] = [kind |-> "Migrate", agent |-> first, from |-> hi, to |-> lo]
        BY <1>4, <2>1, <2>2
      <3>7. QED
        BY <3>2, <3>4, <3>5, <3>6 DEF i
    <2>3. CASE ~(movable # {} /\ far)
      <3> HIDE DEF movable
      <3>1. plan[i] = Hold
        BY <1>4, <2>1, <2>3
      <3>2. QED
        BY <3>1 DEF i
    <2>4. QED
      BY <2>2, <2>3
  <1>8. QED
    BY <1>3, <1>5, <1>6, <1>7 DEF PlacesOf, plan

\* What the first i places of the baseline's plan make of agent a, x when it was
\* observed: healed if it was down, fed if it was low, and moved last of all.
Treated(x, y, a, i) ==
    /\ x.suspected /\ a <= i => ~y.suspected /\ y.busy
    /\ x.suspected /\ ~(a <= i) => y = x
    /\ ~x.suspected =>
         /\ ~y.suspected
         /\ i <= 2 * NumAgents => y.node = x.node /\ ~y.busy
         /\ Low(x) /\ NumAgents + a <= i => y.remaining = x.remaining + RefillTokens
         /\ ~(Low(x) /\ NumAgents + a <= i) => y.remaining = x.remaining

\* A place that is not the agent's leaves it as it is.
LEMMA NotItsTurn ==
  ASSUME NEW x, NEW y, NEW a \in Agents, NEW i \in 1 .. 2 * NumAgents + 1,
         Treated(x, y, a, i - 1),
         ~(x.suspected /\ a = i), ~(~x.suspected /\ Low(x) /\ NumAgents + a = i)
  PROVE  Treated(x, y, a, i)
  <1>1. NumAgents \in Nat /\ a \in Nat /\ i \in Nat
    BY AgentsFinite
  <1>2. /\ x.suspected => (a <= i <=> a <= i - 1)
        /\ i <= 2 * NumAgents => i - 1 <= 2 * NumAgents
        /\ ~x.suspected => (Low(x) /\ NumAgents + a <= i
                             <=> Low(x) /\ NumAgents + a <= i - 1)
    BY <1>1
  <1>3. QED
    BY <1>2 DEF Treated

\* Along the course of the baseline's plan every agent is treated in its turn,
\* and nothing is rejected.
LEMMA HeuristicCourse ==
  ASSUME NEW s \in States, \A a \in Agents : ~s.agents[a].busy,
         NEW plan, plan = HeuristicPlan(s.agents),
         NEW after, NEW n, n = 2 * NumAgents + 1, Follows(after, s, plan, n)
  PROVE  LET last == after[n]
         IN  /\ last.tally.violations = s.tally.violations
             /\ \A a \in Agents :
                  Treated(s.agents[a], last.agents[a], a, n)
  <1> DEFINE N == NumAgents
             x(a) == s.agents[a]
             Good == {i \in 0 .. n :
                        /\ after[i] \in States
                        /\ after[i].tally.violations = s.tally.violations
                        /\ \A a \in Agents : Treated(x(a), after[i].agents[a], a, i)}
  <1>1. /\ N \in Nat \ {0} /\ n \in Nat /\ n \in 0 .. n /\ Agents = 1 .. N
        /\ s.agents \in [Agents -> SimAgents]
        /\ \A a \in Agents : x(a).suspected \in BOOLEAN /\ x(a).node \in Nodes
    BY AgentsFinite, Fields DEF Agents
  <1>2. PlacesOf(plan, s.agents)
    BY <1>1, HeuristicDecision
  <1>3. Stepwise(after, s, plan, n)
    BY <1>1, Course
  <1>4. 0 \in Good
    <2>1. after[0] = s /\ 0 \in 0 .. n
      BY <1>3 DEF Stepwise
    <2>2. ASSUME NEW a \in Agents PROVE Treated(x(a), x(a), a, 0)
      <3>1. ~(a <= 0) /\ ~(N + a <= 0) /\ 0 <= 2 * N
        BY <1>1
      <3>2. QED
        BY <3>1 DEF Treated
    <2>3. QED
      BY <2>1, <2>2
  <1>5. ASSUME NEW i \in 1 .. n, i - 1 \in Good PROVE i \in Good
    <2> DEFINE r == after[i - 1]
               d == plan[i]
    <2>1. /\ r \in States /\ r.tally.violations = s.tally.violations
          /\ \A a \in Agents : Treated(x(a), r.agents[a], a, i - 1)
          /\ after[i] = Actuated(r, d) /\ i \in 0 .. n
      BY <1>5, <1>3 DEF Stepwise
    <2>2. r.agents \in [Agents -> SimAgents] /\ \A a \in Agents : r.agents[a] \in SimAgents
      BY <2>1, Fields
    <2> HIDE DEF r, d
    \* A place held is no agent's turn.
    <2>3. ASSUME d = Hold,
                 \A a \in Agents : /\ ~(x(a).suspected /\ a = i)
                                   /\ ~(~x(a).suspected /\ Low(x(a)) /\ N + a = i)
          PROVE  i \in Good
      <3>1. after[i] = r
        BY <2>1, <2>3 DEF Actuated
      <3>2. \A a \in Agents : Treated(x(a), r.agents[a], a, i)
        BY <2>1, <2>3, NotItsTurn
      <3>3. QED
        BY <2>1, <3>1, <3>2
    \* A place taken is the turn of the agent decided on.
    <2>4. ASSUME NEW b \in Agents, d \in Decisions, d.agent = b, Legal(r.agents, d),
                 Treated(x(b), Effect(r.agents[b], d), b, i),
                 \A a \in Agents \ {b} :
                    /\ ~(x(a).suspected /\ a = i)
                    /\ ~(~x(a).suspected /\ Low(x(a)) /\ N + a = i)
          PROVE  i \in Good
      <3>1. /\ after[i] \in States
            /\ after[i].agents = [r.agents EXCEPT ![b] = Effect(r.agents[b], d)]
            /\ after[i].tally.violations = r.tally.violations
        BY <2>1, <2>4, ActuatedForms
      <3>2. ASSUME NEW a \in Agents PROVE Treated(x(a), after[i].agents[a], a, i)
        <4>1. CASE a = b
          BY <2>2, <2>4, <3>1, <4>1
        <4>2. CASE a # b
          <5>1. Treated(x(a), r.agents[a], a, i)
            BY <2>1, <2>4, <4>2, NotItsTurn
          <5>2. after[i].agents[a] = r.agents[a]
            BY <2>2, <3>1, <4>2
          <5>3. QED
            BY <5>1, <5>2
        <4>3. QED
          BY <4>1, <4>2
      <3>3. QED
        BY <2>1, <3>1, <3>2
    <2> HIDE DEF Good, x
    <2>5. CASE i \in Agents
      <3>1. \A a \in Agents : N + a # i
        BY <1>1, <2>5
      <3>2. CASE ~x(i).suspected
        <4>1. d = Hold
          BY <1>2, <2>5, <3>2 DEF d, x, PlacesOf
        <4>2. QED
          BY <2>3, <3>1, <3>2, <4>1
      <3>3. CASE x(i).suspected
        <4>1. PICK m \in Nodes : d = [kind |-> "Heal", agent |-> i, onto |-> m]
          BY <1>2, <2>5, <3>3 DEF d, x, PlacesOf
        <4>2. d.kind = "Heal" /\ d.agent = i /\ d \in Decisions
          BY <2>5, <4>1 DEF Decisions
        <4>3. i <= i /\ ~(i <= i - 1)
          BY <1>1, <2>5
        <4>4. r.agents[i] = x(i)
          BY <2>1, <2>5, <3>3, <4>3 DEF Treated
        <4>5. Legal(r.agents, d)
          BY <3>3, <4>2, <4>4 DEF Legal
        <4>6. Treated(x(i), Effect(r.agents[i], d), i, i)
          BY <2>2, <2>5, <3>3, <4>2, <4>3, EffectFields DEF Treated
        <4>7. QED
          BY <2>4, <2>5, <3>1, <4>2, <4>5, <4>6
      <3>4. QED
        BY <3>2, <3>3
    <2>6. CASE i - N \in Agents
      <3> DEFINE b == i - N
      <3>1. /\ b \in Agents /\ N + b = i /\ i \notin Agents /\ i <= 2 * N
            /\ i - 1 <= 2 * N /\ ~(N + b <= i - 1) /\ N + b <= i /\ b <= i - 1 /\ b <= i
            /\ \A a \in Agents : a # i /\ (N + a = i => a = b)
        BY <1>1, <2>6
      <3> HIDE DEF b
      <3>2. CASE ~(~x(b).suspected /\ Low(x(b)))
        <4>1. d = Hold
          BY <1>2, <3>1, <3>2 DEF d, x, PlacesOf
        <4>2. QED
          BY <2>3, <3>1, <3>2, <4>1
      <3>3. CASE ~x(b).suspected /\ Low(x(b))
        <4>1. d = [kind |-> "Refill", agent |-> b, tokens |-> RefillTokens]
          BY <1>2, <3>1, <3>3 DEF d, x, PlacesOf
        <4>2. RefillTokens \in Nat /\ RefillTokens <= MaxGrant
          BY SimulatorAssumption
        <4>3. d.kind = "Refill" /\ d.agent = b /\ d.tokens = RefillTokens /\ d \in Decisions
          BY <3>1, <4>1, <4>2 DEF Decisions
        <4>4. /\ ~r.agents[b].suspected /\ ~r.agents[b].busy
              /\ r.agents[b].node = x(b).node /\ r.agents[b].remaining = x(b).remaining
          BY <2>1, <3>1, <3>3 DEF Treated
        <4>5. Legal(r.agents, d)
          BY <4>2, <4>3, <4>4 DEF Legal
        <4>6. Treated(x(b), Effect(r.agents[b], d), b, i)
          BY <2>2, <3>1, <3>3, <4>3, <4>4, EffectFields DEF Treated
        <4>7. QED
          BY <2>4, <3>1, <4>3, <4>5, <4>6
      <3>4. QED
        BY <3>2, <3>3
    <2>7. CASE i = 2 * N + 1
      <3>1. /\ ~(i <= 2 * N) /\ i - 1 <= 2 * N
            /\ \A a \in Agents : /\ a # i /\ N + a # i /\ a <= i /\ a <= i - 1
                                 /\ N + a <= i /\ N + a <= i - 1
        BY <1>1, <2>7
      <3>2. CASE d = Hold
        BY <2>3, <3>1, <3>2
      <3>3. CASE d # Hold
        <4>1. PICK m \in Agents, to \in Nodes :
                /\ d = [kind |-> "Migrate", agent |-> m, from |-> x(m).node, to |-> to]
                /\ x(m).node # to /\ ~x(m).suspected
          BY <1>2, <2>7, <3>3 DEF d, x, PlacesOf
        <4>2. /\ d.kind = "Migrate" /\ d.agent = m /\ d.from = x(m).node /\ d.to = to
              /\ d \in Decisions
          BY <1>1, <4>1 DEF Decisions
        <4>3. ~r.agents[m].suspected /\ ~r.agents[m].busy /\ r.agents[m].node = x(m).node
          BY <2>1, <3>1, <4>1 DEF Treated
        <4>4. Legal(r.agents, d)
          BY <4>1, <4>2, <4>3 DEF Legal
        <4>5. Treated(x(m), Effect(r.agents[m], d), m, i)
          <5> DEFINE y == Effect(r.agents[m], d)
          <5>1. ~y.suspected /\ y.remaining = r.agents[m].remaining
            BY <2>2, <4>2, <4>3, EffectFields
          <5> HIDE DEF y
          <5>2. Treated(x(m), y, m, i)
            BY <2>1, <3>1, <4>1, <5>1 DEF Treated
          <5>3. QED
            BY <5>2 DEF y
        <4>6. QED
          BY <2>4, <3>1, <4>2, <4>4, <4>5
      <3>4. QED
        BY <3>2, <3>3
    <2>8. i \in Agents \/ i - N \in Agents \/ i = 2 * N + 1
      BY <1>1
    <2>9. QED
      BY <2>5, <2>6, <2>7, <2>8
  <1> HIDE DEF Good
  <1>6. \A i \in 0 .. n : i \in Good
    BY <1>1, <1>4, <1>5, Along
  <1>7. QED
    BY <1>1, <1>6 DEF Good

----------------------------------------------------------------------------
\* What a policy's decisions, taken together, make of s.

Outcome(s, t) == Kept(s, t) /\ t.tally.violations = s.tally.violations

\* Whatever its parameters, the learned policy has no decision rejected.
LEMMA LearnedOutcome ==
  ASSUME NEW s \in States, AddsUp(s), \A a \in Agents : ~s.agents[a].busy,
         NEW plan \in LearnedPlans(s.agents)
  PROVE  Outcome(s, Applied(s, plan))
  <1>1. /\ NumAgents \in Nat /\ NumAgents \in 0 .. NumAgents /\ Agents = 1 .. NumAgents
        /\ s.agents \in [Agents -> SimAgents]
    BY AgentsFinite, Fields DEF Agents
  <1>2. Len(plan) = NumAgents /\ \A a \in Agents : plan[a] \in LearnedActions(s.agents, a)
    BY LearnedPlan
  <1>3. PICK after : /\ Follows(after, s, plan, NumAgents)
                     /\ Applied(s, plan) = after[NumAgents]
    BY <1>1, <1>2, AppliedFollows
  <1>4. IsPlan(plan, NumAgents)
    <2>1. \A a \in Agents : plan[a] \in Decisions \cup {Hold}
      BY <1>1, <1>2, LearnedDecision
    <2>2. QED
      BY <1>1, <2>1 DEF IsPlan
  <1> DEFINE t == after[NumAgents]
  <1>5. t.tally.violations = s.tally.violations
    BY <1>1, <1>3, LearnedCourse
  <1>6. Kept(s, t)
    BY <1>1, <1>3, <1>4, CourseAddsUp
  <1>7. QED
    BY <1>3, <1>5, <1>6 DEF Outcome

\* Nor does the baseline, and every agent is treated.
LEMMA HeuristicOutcome ==
  ASSUME NEW s \in States, AddsUp(s), \A a \in Agents : ~s.agents[a].busy
  PROVE  LET t == Applied(s, HeuristicPlan(s.agents))
         IN  /\ Outcome(s, t)
             /\ \A a \in Agents :
                  Treated(s.agents[a], t.agents[a], a, 2 * NumAgents + 1)
  <1> DEFINE n == 2 * NumAgents + 1
             plan == HeuristicPlan(s.agents)
  <1>1. /\ NumAgents \in Nat /\ n \in Nat /\ n \in 0 .. n /\ Agents = 1 .. NumAgents
        /\ s.agents \in [Agents -> SimAgents]
        /\ \A a \in Agents : s.agents[a].node \in Nodes
    BY AgentsFinite, Fields DEF Agents
  <1>2. Len(plan) = n /\ PlacesOf(plan, s.agents)
    BY <1>1, HeuristicDecision
  <1> HIDE DEF plan
  <1>3. PICK after : Follows(after, s, plan, n) /\ Applied(s, plan) = after[n]
    BY <1>1, <1>2, AppliedFollows
  <1>4. ASSUME NEW i \in 1 .. n PROVE plan[i] \in Decisions \cup {Hold}
    <2>1. CASE i \in Agents
      <3>1. \/ plan[i] = Hold
            \/ \E m \in Nodes : plan[i] = [kind |-> "Heal", agent |-> i, onto |-> m]
        BY <1>2, <2>1 DEF PlacesOf
      <3>2. ASSUME NEW m \in Nodes, plan[i] = [kind |-> "Heal", agent |-> i, onto |-> m]
            PROVE  plan[i] \in Decisions
        BY <2>1, <3>2 DEF Decisions
      <3>3. QED
        BY <3>1, <3>2
    <2>2. CASE i - NumAgents \in Agents
      <3> DEFINE b == i - NumAgents
      <3>1. b \in Agents /\ i = NumAgents + b
        BY <1>1, <2>2
      <3> HIDE DEF b
      <3>2. plan[i] \in {Hold, [kind |-> "Refill", agent |-> b, tokens |-> RefillTokens]}
        BY <1>2, <3>1 DEF PlacesOf
      <3>3. RefillTokens \in Nat
        BY SimulatorAssumption
      <3>4. QED
        BY <3>1, <3>2, <3>3 DEF Decisions
    <2>3. CASE i = n
      <3>1. \/ plan[i] = Hold
            \/ \E m \in Agents, to \in Nodes :
                 plan[i] = [kind |-> "Migrate", agent |-> m,
                            from |-> s.agents[m].node, to |-> to]
        BY <1>2, <2>3 DEF PlacesOf
      <3>2. ASSUME NEW m \in Agents, NEW to \in Nodes,
                   plan[i] = [kind |-> "Migrate", agent |-> m,
                              from |-> s.agents[m].node, to |-> to]
            PROVE  plan[i] \in Decisions
        <4> DEFINE from == s.agents[m].node
        <4>1. from \in Nodes
          BY <1>1
        <4> HIDE DEF from
        <4>2. plan[i] = [kind |-> "Migrate", agent |-> m, from |-> from, to |-> to]
          BY <3>2 DEF from
        <4>3. QED
          BY <4>1, <4>2 DEF Decisions
      <3>3. QED
        BY <3>1, <3>2
    <2>4. i \in Agents \/ i - NumAgents \in Agents \/ i = n
      BY <1>1
    <2>5. QED
      BY <2>1, <2>2, <2>3, <2>4
  <1> DEFINE t == after[n]
  <1>8. IsPlan(plan, n)
    BY <1>4 DEF IsPlan
  <1> HIDE DEF n
  <1>5. /\ t.tally.violations = s.tally.violations
        /\ \A a \in Agents : Treated(s.agents[a], t.agents[a], a, n)
    BY <1>3, HeuristicCourse DEF plan, n
  <1>6. Kept(s, t)
    BY <1>1, <1>3, <1>8, CourseAddsUp
  <1>7. QED
    BY <1>3, <1>5, <1>6 DEF Outcome, plan, n

\* The smaller of two numbers has the smaller multiple.
LEMMA SmallerMultiple ==
  ASSUME NEW p \in Nat, NEW q \in Nat, NEW k \in Nat, p <= q
  PROVE  p * k <= q * k
  <1>1. PICK e \in Nat : q = p + e
    <2>1. q - p \in Nat /\ q = p + (q - p)
      OBVIOUS
    <2>2. QED
      BY <2>1
  <1>2. q * k = p * k + e * k
    BY <1>1
  <1>3. e * k \in Nat /\ p * k \in Nat
    OBVIOUS
  <1>4. QED
    BY <1>2, <1>3

\* Treated, an agent is up, and busy or able to pay for a unit of work: that an
\* agent above the threshold can is what Provident asks of the budget.
LEMMA TreatedIsFit ==
  ASSUME Provident, NEW x \in SimAgents, NEW y \in SimAgents, NEW a \in Agents,
         x.total >= InitialBudget, Treated(x, y, a, 2 * NumAgents + 1)
  PROVE  ~y.suspected /\ (y.busy \/ y.remaining >= Burn)
  <1>1. /\ a <= 2 * NumAgents + 1 /\ NumAgents + a <= 2 * NumAgents + 1
        /\ Burn \in Nat \ {0} /\ LowDenominator \in Nat \ {0} /\ InitialBudget \in Nat
        /\ RefillTokens \in Nat
    BY AgentsFinite, SimulatorAssumption DEF Agents
  <1>2. x.remaining \in Nat /\ x.total \in Nat /\ x.suspected \in BOOLEAN
    BY Fields
  <1>3. CASE x.suspected
    BY <1>1, <1>3 DEF Treated
  <1>4. CASE ~x.suspected /\ Low(x)
    <2>1. ~y.suspected /\ y.remaining = x.remaining + RefillTokens
      BY <1>1, <1>4 DEF Treated
    <2>2. QED
      BY <1>1, <1>2, <2>1 DEF Provident
  <1>5. CASE ~x.suspected /\ ~Low(x)
    <2>1. ~y.suspected /\ y.remaining = x.remaining
      BY <1>5 DEF Treated
    <2> DEFINE low == (Burn - 1) * LowDenominator
               has == x.remaining * LowDenominator
    <2>2. low \in Nat /\ has \in Nat /\ Burn - 1 \in Nat
      BY <1>1, <1>2
    <2>3. low < InitialBudget /\ ~(has < x.total)
      BY <1>5 DEF Provident, Low
    <2>4. x.remaining <= Burn - 1 => has <= low
      BY <1>1, <1>2, <2>2, SmallerMultiple
    <2> HIDE DEF low, has
    <2>5. ~(x.remaining <= Burn - 1)
      BY <1>1, <1>2, <2>2, <2>3, <2>4
    <2>6. QED
      BY <1>1, <1>2, <2>1, <2>5
  <1>6. QED
    BY <1>3, <1>4, <1>5

----------------------------------------------------------------------------
\* The invariant holds at first, and of every episode as it begins.

\* What an episode begins with.
LEMMA BornFit ==
  ASSUME NEW s
  PROVE  /\ Born(s) \in [Agents -> SimAgents]
         /\ \A a \in Agents :
              LET x == Born(s)[a]
              IN  /\ ~x.busy /\ x.total = InitialBudget
                  /\ x.quality = "par" /\ x.candidate = "none"
         /\ NewTally \in Tallies /\ NewTally.survived /\ NewTally.violations = 0
         /\ NewTally.promoted = 0 /\ NewTally.rolledBack = 0
  <1>1. NumNodes \in Nat \ {0} /\ InitialBudget \in Nat
    BY SimulatorAssumption
  <1>2. ASSUME NEW a \in Agents
        PROVE  (IF s.packed THEN 1 ELSE ((a - 1) % NumNodes) + 1) \in Nodes
    <2>1. a - 1 \in Nat
      BY SimulatorAssumption DEF Agents
    <2>2. (a - 1) % NumNodes \in 0 .. NumNodes - 1
      BY <1>1, <2>1
    <2>3. 1 \in Nodes /\ ((a - 1) % NumNodes) + 1 \in Nodes
      BY <1>1, <2>2 DEF Nodes
    <2>4. QED
      BY <2>3
  <1>3. ASSUME NEW a \in Agents
        PROVE  LET x == Born(s)[a]
               IN  /\ x \in SimAgents /\ ~x.busy /\ x.total = InitialBudget
                   /\ x.quality = "par" /\ x.candidate = "none"
    <2> DEFINE node == IF s.packed THEN 1 ELSE ((a - 1) % NumNodes) + 1
    <2>1. Born(s)[a] = [node |-> node, suspected |-> FALSE, remaining |-> InitialBudget,
                        total |-> InitialBudget, down |-> 0, starved |-> 0, busy |-> FALSE,
                        quality |-> "par", candidate |-> "none"]
      BY DEF Born
    <2>2. node \in Nodes
      BY <1>2
    <2> HIDE DEF node
    <2>3. QED
      BY <1>1, <2>1, <2>2 DEF SimAgents
  <1>4. Born(s) \in [Agents -> SimAgents]
    <2>1. Born(s) = [a \in Agents |-> Born(s)[a]]
      BY DEF Born
    <2>2. QED
      BY <1>3, <2>1
  <1>5. /\ NewTally \in Tallies /\ NewTally.survived /\ NewTally.violations = 0
        /\ NewTally.promoted = 0 /\ NewTally.rolledBack = 0
    BY DEF NewTally, Tallies
  <1>6. QED
    BY <1>3, <1>4, <1>5

\* The initial states satisfy the invariant.
LEMMA Initially ==
  ASSUME Init
  PROVE  Inv
  <1> USE DEF Init
  <1>1. TypeOK
    <2>1. Ticks \in Nat /\ 0 \in 0 .. Ticks
      BY SimulatorAssumption
    <2>2. NewReport \in Reports /\ "Shadow" \in Rungs /\ 0 \in 0 .. 2
      BY DEF NewReport, Reports, Rungs
    <2>3. agents \in [Agents -> SimAgents] /\ tally \in Tallies
      BY BornFit
    <2>4. /\ scenario \in Scenarios /\ tick = 0 /\ phase = "failures"
          /\ judged = NewReport /\ mode = "Shadow" /\ breached = FALSE /\ won = 0
      OBVIOUS
    <2> HIDE DEF Init
    <2>5. tick \in 0 .. Ticks /\ (phase # "failures" => tick < Ticks)
      BY <2>1, <2>4
    <2>6. judged \in Reports /\ mode \in Rungs /\ breached \in BOOLEAN /\ won \in 0 .. 2
      BY <2>2, <2>4
    <2>7. QED
      BY <2>3, <2>4, <2>5, <2>6 DEF TypeOK
  <1>2. \A a \in Agents : /\ ~agents[a].busy /\ agents[a].total = InitialBudget
                          /\ agents[a].quality = "par" /\ agents[a].candidate = "none"
    BY BornFit
  <1>3. /\ tally.survived /\ tally.violations = 0
        /\ tally.promoted = 0 /\ tally.rolledBack = 0
    BY BornFit
  <1>4. Idle /\ Unlanded
    BY <1>2, <1>3 DEF Idle, Unlanded
  <1>5. Tended
    <2>1. InitialBudget \in Nat
      BY SimulatorAssumption
    <2>2. QED
      BY <1>2, <2>1 DEF Tended
  <1>6. VerdictsAddUp
    <2>1. /\ {a \in Agents : agents[a].quality # "par"} = {}
          /\ {a \in Agents : agents[a].candidate # "none"} = {}
      BY <1>2
    <2> DEFINE C == {a \in Agents : agents[a].quality # "par"}
               P == {a \in Agents : agents[a].candidate # "none"}
    <2>2. NumAgents \in Nat /\ Cardinality({}) = 0
      BY AgentsFinite, FS_EmptySet
    <2>3. C = {} /\ P = {} /\ C \cap P = {}
      BY <2>1
    <2> HIDE DEF Init, C, P
    <2>4. /\ tally.promoted = Cardinality(C)
          /\ tally.promoted + tally.rolledBack + Cardinality(P) <= NumAgents
      BY <1>3, <2>2, <2>3
    <2>5. QED
      BY <2>3, <2>4 DEF VerdictsAddUp, C, P
  <1>7. Truthful /\ MasksAgree /\ BaselineSurvives /\ RungsAreEarned
    BY <1>3 DEF Truthful, MasksAgree, BaselineSurvives, RungsAreEarned, NewReport
  <1>8. QED
    BY <1>1, <1>4, <1>5, <1>6, <1>7 DEF Inv

\* What the invariant says of the episode under way.
Episode ==
    /\ scenario \in Scenarios /\ tick \in 0 .. Ticks
    /\ phase \in {"failures", "control", "work"}
    /\ agents \in [Agents -> SimAgents] /\ tally \in Tallies
    /\ phase # "failures" => tick < Ticks
    /\ Idle /\ Unlanded /\ Tended /\ MasksAgree /\ VerdictsAddUp /\ BaselineSurvives

\* A new episode is like the first.
LEMMA StartsFit ==
  ASSUME NEW s \in Scenarios, Starts(s)
  PROVE  Episode'
  <1> USE DEF Starts
  <1>1. Ticks \in Nat /\ 0 \in 0 .. Ticks /\ InitialBudget \in Nat
    BY SimulatorAssumption
  <1>2. agents' \in [Agents -> SimAgents] /\ tally' \in Tallies
    BY BornFit
  <1>3. \A a \in Agents : /\ ~agents'[a].busy /\ agents'[a].total = InitialBudget
                          /\ agents'[a].quality = "par" /\ agents'[a].candidate = "none"
    BY BornFit
  <1>4. /\ tally'.survived /\ tally'.violations = 0
        /\ tally'.promoted = 0 /\ tally'.rolledBack = 0
    BY BornFit
  <1>5. Idle' /\ Unlanded'
    BY <1>3, <1>4 DEF Idle, Unlanded
  <1>6. Tended'
    BY <1>1, <1>3 DEF Tended
  <1>7. VerdictsAddUp'
    <2>1. /\ {a \in Agents : agents'[a].quality # "par"} = {}
          /\ {a \in Agents : agents'[a].candidate # "none"} = {}
      BY <1>3
    <2>2. NumAgents \in Nat /\ Cardinality({}) = 0
      BY AgentsFinite, FS_EmptySet
    <2>3. QED
      BY <1>4, <2>1, <2>2 DEF VerdictsAddUp
  <1>8. MasksAgree' /\ BaselineSurvives'
    BY <1>4 DEF MasksAgree, BaselineSurvives
  <1>9. QED
    BY <1>1, <1>2, <1>5, <1>6, <1>7, <1>8 DEF Episode

----------------------------------------------------------------------------
\* The steps within an episode.

\* Failures and the update leave the invariant be: a candidate is staged only
\* while no agent has had one.
LEMMA FailuresStep ==
  ASSUME Inv, FailuresArrive
  PROVE  Inv'
  <1> DEFINE x(a) == agents[a]
             y(a) == agents'[a]
             due == tick = scenario.updateAt
  <1>1. PICK failing \in SUBSET {a \in Agents : ~agents[a].suspected},
             staged \in [Agents -> IF due THEN Qualities ELSE {"none"}] :
          agents' = [a \in Agents |->
             CASE agents[a].suspected -> agents[a]
               [] a \in failing -> [agents[a] EXCEPT !.suspected = TRUE,
                                                     !.candidate = "none"]
               [] OTHER -> [agents[a] EXCEPT !.candidate = IF due THEN staged[a] ELSE @]]
    BY DEF FailuresArrive
  <1>2. /\ phase = "failures" /\ phase' = "control" /\ tick < Ticks
        /\ scenario' = scenario /\ tick' = tick /\ tally' = tally
        /\ judged' = judged /\ mode' = mode /\ breached' = breached /\ won' = won
    BY DEF FailuresArrive, ladder
  <1>3. /\ agents \in [Agents -> SimAgents] /\ tick \in 0 .. Ticks
        /\ scenario \in Scenarios /\ tally \in Tallies
    BY DEF Inv, TypeOK
  <1>4. ASSUME NEW a \in Agents
        PROVE  /\ y(a) \in SimAgents
               /\ y(a).total = x(a).total /\ y(a).busy = x(a).busy
               /\ y(a).quality = x(a).quality
               /\ ~due => y(a).candidate = "none" \/ y(a).candidate = x(a).candidate
    <2>1. x(a) \in SimAgents
      BY <1>3
    <2> HIDE DEF x, y, due
    <2>2. CASE x(a).suspected
      <3>1. y(a) = x(a)
        BY <1>1, <2>2 DEF x, y
      <3>2. QED
        BY <2>1, <3>1
    <2>3. CASE ~x(a).suspected /\ a \in failing
      <3>1. y(a) = [x(a) EXCEPT !.suspected = TRUE, !.candidate = "none"]
        BY <1>1, <2>3 DEF x, y
      <3>2. QED
        BY <2>1, <3>1 DEF SimAgents
    <2>4. CASE ~x(a).suspected /\ a \notin failing /\ due
      <3>1. y(a) = [x(a) EXCEPT !.candidate = staged[a]] /\ staged[a] \in Qualities
        BY <1>1, <2>4 DEF x, y
      <3>2. QED
        BY <2>1, <2>4, <3>1 DEF SimAgents
    <2>5. CASE ~x(a).suspected /\ a \notin failing /\ ~due
      <3>1. y(a) = [x(a) EXCEPT !.candidate = IF due THEN staged[a] ELSE x(a).candidate]
        BY <1>1, <2>5 DEF x, y
      <3>2. y(a) = [x(a) EXCEPT !.candidate = x(a).candidate]
        BY <2>5, <3>1
      <3>3. QED
        BY <2>1, <3>2 DEF SimAgents
    <2>6. QED
      BY <2>2, <2>3, <2>4, <2>5
  <1>5. agents' \in [Agents -> SimAgents]
    BY <1>1, <1>4
  <1>6. Idle'
    BY <1>2, <1>4 DEF Inv, Idle
  <1>7. Unlanded'
    BY <1>2, <1>3, <1>4 DEF Inv, Unlanded
  <1>8. Tended'
    BY <1>2, <1>4 DEF Inv, Tended
  <1>9. VerdictsAddUp'
    <2> DEFINE C == {a \in Agents : agents[a].quality # "par"}
               P == {a \in Agents : agents[a].candidate # "none"}
               P2 == {a \in Agents : agents'[a].candidate # "none"}
    <2>1. {a \in Agents : agents'[a].quality # "par"} = C
      BY <1>4
    <2>2. /\ tally.promoted = Cardinality(C) /\ C \cap P = {}
          /\ tally.promoted + tally.rolledBack + Cardinality(P) <= NumAgents
      BY DEF Inv, VerdictsAddUp
    <2>3. /\ Cardinality(P) \in Nat /\ Cardinality(P2) \in Nat
          /\ Cardinality(P2) <= NumAgents /\ NumAgents \in Nat
      BY SomeAgents, AgentsFinite
    <2>4. tally.promoted \in Nat /\ tally.rolledBack \in Nat
      BY <1>3, Fields
    <2>5. CASE due
      <3>1. /\ tally.promoted = 0 /\ tally.rolledBack = 0
            /\ \A a \in Agents : agents[a].quality = "par"
        BY <1>2, <2>5 DEF Inv, Unlanded
      <3>2. C = {}
        BY <3>1
      <3>3. tally.promoted + tally.rolledBack + Cardinality(P2) <= NumAgents
        BY <2>3, <3>1
      <3>4. QED
        BY <1>2, <2>1, <2>2, <3>2, <3>3 DEF VerdictsAddUp
    <2>6. CASE ~due
      <3>1. P2 \subseteq P
        BY <1>4, <2>6
      <3>2. IsFiniteSet(P)
        BY SomeAgents
      <3>3. Cardinality(P2) <= Cardinality(P)
        BY <3>1, <3>2, FS_Subset
      <3>4. tally.promoted + tally.rolledBack + Cardinality(P2) <= NumAgents
        BY <2>2, <2>3, <2>4, <3>3
      <3>5. C \cap P2 = {}
        BY <2>2, <3>1
      <3>6. QED
        BY <1>2, <2>1, <2>2, <3>4, <3>5 DEF VerdictsAddUp
    <2>7. QED
      BY <2>5, <2>6
  <1>10. TypeOK'
    BY <1>2, <1>5 DEF Inv, TypeOK
  <1>11. /\ Truthful' /\ MasksAgree' /\ BaselineSurvives' /\ RungsAreEarned'
    BY <1>2 DEF Inv, Truthful, MasksAgree, BaselineSurvives, RungsAreEarned
  <1>12. QED
    BY <1>6, <1>7, <1>8, <1>9, <1>10, <1>11 DEF Inv

\* No decision of either policy is rejected, and those of the baseline leave every
\* agent fit to work.
LEMMA ControlStep ==
  ASSUME Inv, Control
  PROVE  Inv'
  <1> DEFINE s == [agents |-> agents, tally |-> tally]
             n == 2 * NumAgents + 1
  <1>1. /\ s \in States /\ s.agents = agents /\ s.tally = tally
        /\ agents \in [Agents -> SimAgents] /\ judged \in Reports
        /\ tick \in 0 .. Ticks /\ scenario \in Scenarios
    BY DEF Inv, TypeOK, States
  <1>2. /\ phase = "control" /\ phase' = "work" /\ tick < Ticks
        /\ scenario' = scenario /\ tick' = tick
        /\ judged' = judged /\ mode' = mode /\ breached' = breached /\ won' = won
    BY DEF Control, ladder, Inv, TypeOK
  <1>3. PICK plan \in Plans(judged.policy) :
          agents' = Applied(s, plan).agents /\ tally' = Applied(s, plan).tally
    BY DEF Control
  <1>4. \A a \in Agents : ~s.agents[a].busy
    BY <1>1, <1>2 DEF Inv, Idle
  <1>5. AddsUp(s)
    BY <1>1 DEF Inv, VerdictsAddUp, AddsUp, Committed, Pending
  <1> HIDE DEF s
  <1> DEFINE t == Applied(s, plan)
  <1>6. /\ Outcome(s, t)
        /\ judged.policy = "heuristic" =>
             \A a \in Agents : Treated(s.agents[a], t.agents[a], a, n)
    <2>1. CASE judged.policy = "learned"
      <3>1. plan \in LearnedPlans(s.agents)
        BY <1>1, <1>3, <2>1 DEF Plans
      <3>2. QED
        BY <1>1, <1>4, <1>5, <2>1, <3>1, LearnedOutcome
    <2>2. CASE judged.policy = "heuristic"
      <3>1. plan = HeuristicPlan(s.agents)
        BY <1>1, <1>3, <2>2 DEF Plans
      <3>2. QED
        BY <1>1, <1>4, <1>5, <3>1, HeuristicOutcome
    <2>3. QED
      BY <1>1, <2>1, <2>2 DEF Reports
  <1> HIDE DEF t, n
  <1>7. /\ agents' = t.agents /\ tally' = t.tally /\ t \in States /\ AddsUp(t)
        /\ tally'.survived = tally.survived /\ tally'.violations = tally.violations
        /\ \A a \in Agents : agents'[a].total >= agents[a].total
    BY <1>1, <1>3, <1>6 DEF t, Outcome, Kept
  <1>8. /\ agents' \in [Agents -> SimAgents] /\ tally' \in Tallies
        /\ \A a \in Agents : /\ agents'[a] \in SimAgents /\ agents[a] \in SimAgents
                             /\ agents'[a].total \in Nat /\ agents[a].total \in Nat
    BY <1>1, <1>7, Fields
  <1>9. TypeOK'
    BY <1>2, <1>8 DEF Inv, TypeOK
  <1>10. Idle'
    <2>1. Awake(s)
      BY <1>4 DEF Awake
    <2>2. Awake(t)
      BY <1>6, <2>1 DEF Outcome, Kept
    <2>3. QED
      BY <1>2, <1>7, <2>2 DEF Awake, Idle
  <1>11. Unlanded'
    <2>1. SUFFICES ASSUME tick < scenario.updateAt PROVE Blank(t)
      BY <1>2, <1>7 DEF Unlanded, Blank
    <2>2. Blank(s)
      BY <1>1, <2>1 DEF Inv, Unlanded, Blank
    <2>3. QED
      BY <1>6, <2>2 DEF Outcome, Kept
  <1>12. Tended'
    <2>1. \A a \in Agents : agents[a].total >= InitialBudget
      BY DEF Inv, Tended
    <2>2. InitialBudget \in Nat
      BY SimulatorAssumption
    <2>3. \A a \in Agents : agents'[a].total >= InitialBudget
      BY <1>7, <1>8, <2>1, <2>2
    <2>4. ASSUME judged.policy = "heuristic", Provident, NEW a \in Agents
          PROVE  ~agents'[a].suspected /\ (agents'[a].busy \/ agents'[a].remaining >= Burn)
      <3>1. Treated(agents[a], agents'[a], a, n)
        BY <1>1, <1>6, <1>7, <2>4
      <3>2. QED
        BY <1>8, <2>1, <2>4, <3>1, TreatedIsFit DEF n
    <2>5. QED
      BY <1>2, <2>3, <2>4 DEF Tended, Provident
  <1>13. VerdictsAddUp'
    BY <1>7 DEF AddsUp, Committed, Pending, VerdictsAddUp
  <1>14. MasksAgree' /\ BaselineSurvives'
    BY <1>2, <1>7 DEF Inv, MasksAgree, BaselineSurvives
  <1>15. Truthful' /\ RungsAreEarned'
    BY <1>2 DEF Inv, Truthful, RungsAreEarned
  <1>16. QED
    BY <1>9, <1>10, <1>11, <1>12, <1>13, <1>14, <1>15 DEF Inv

\* Work leaves nobody busy, and the survival floor holds over agents that are fit.
LEMMA WorkStep ==
  ASSUME Inv, Work
  PROVE  Inv'
  <1> DEFINE x(a) == agents[a]
             y(a) == agents'[a]
             worked(a) ==
               CASE agents[a].suspected -> [agents[a] EXCEPT !.down = @ + 1]
                 [] Works(a)   -> [agents[a] EXCEPT !.remaining = @ - Burn, !.starved = 0]
                 [] Starves(a) -> [agents[a] EXCEPT !.starved = @ + 1]
                 [] OTHER      -> [agents[a] EXCEPT !.busy = FALSE]
  <1>1. agents' = [a \in Agents |-> worked(a)]
    BY Zenon DEF Work
  <1>2. /\ phase = "work" /\ phase' = "failures" /\ tick < Ticks
        /\ scenario' = scenario /\ tick' = tick + 1
        /\ judged' = judged /\ mode' = mode /\ breached' = breached /\ won' = won
    BY DEF Work, ladder, Inv, TypeOK
  <1>3. tally' = [tally EXCEPT !.survived = @ /\ \A a \in Agents :
                     /\ agents[a].suspected => agents'[a].down < DownGrace
                     /\ Starves(a) => agents'[a].starved < StarveGrace]
    BY Zenon DEF Work
  <1>4. /\ agents \in [Agents -> SimAgents] /\ tick \in 0 .. Ticks /\ Ticks \in Nat
        /\ scenario \in Scenarios /\ tally \in Tallies /\ Burn \in Nat
    BY SimulatorAssumption DEF Inv, TypeOK
  <1> HIDE DEF worked
  <1>5. ASSUME NEW a \in Agents
        PROVE  /\ y(a) \in SimAgents /\ ~y(a).busy
               /\ y(a).total = x(a).total
               /\ y(a).quality = x(a).quality /\ y(a).candidate = x(a).candidate
    <2>1. /\ x(a) \in SimAgents /\ x(a).down \in Nat /\ x(a).starved \in Nat
          /\ x(a).remaining \in Nat
      BY <1>4, Fields
    <2>2. x(a).suspected => ~x(a).busy
      BY DEF Inv, Idle
    <2>3. /\ Works(a) => ~x(a).suspected /\ ~x(a).busy /\ x(a).remaining >= Burn
          /\ Starves(a) => ~x(a).suspected /\ ~x(a).busy
          /\ Works(a) => ~Starves(a)
      BY <1>4, <2>1 DEF Works, Starves
    <2> DEFINE rest == x(a).remaining - Burn
               down == x(a).down + 1
               starved == x(a).starved + 1
    <2>4. down \in Nat /\ starved \in Nat
      BY <2>1
    <2>0. y(a) = worked(a)
      BY <1>1
    <2> HIDE DEF x, y
    <2>5. CASE x(a).suspected
      <3>1. y(a) = [x(a) EXCEPT !.down = down]
        BY <2>0, <2>3, <2>5 DEF x, worked
      <3> HIDE DEF down
      <3>2. QED
        BY <2>1, <2>2, <2>4, <2>5, <3>1 DEF SimAgents
    <2>6. CASE Works(a)
      <3>1. rest \in Nat
        BY <1>4, <2>1, <2>3, <2>6
      <3>2. y(a) = [x(a) EXCEPT !.remaining = rest, !.starved = 0]
        BY <2>0, <2>3, <2>6 DEF x, worked
      <3> HIDE DEF rest
      <3>3. y(a) \in SimAgents
        <4> DEFINE paid == [x(a) EXCEPT !.remaining = rest]
        <4>1. paid \in SimAgents
          BY <2>1, <3>1, Edits
        <4>2. y(a) = [paid EXCEPT !.starved = 0]
          BY <3>2
        <4> HIDE DEF paid
        <4>3. QED
          BY <4>1, <4>2, Edits
      <3>4. /\ y(a).total = x(a).total /\ y(a).busy = x(a).busy
            /\ y(a).quality = x(a).quality /\ y(a).candidate = x(a).candidate
        BY <2>1, <3>2 DEF SimAgents
      <3>5. QED
        BY <2>3, <2>6, <3>3, <3>4
    <2>7. CASE Starves(a) /\ ~Works(a)
      <3>1. y(a) = [x(a) EXCEPT !.starved = starved]
        BY <2>0, <2>3, <2>7 DEF x, worked
      <3> HIDE DEF starved
      <3>2. QED
        BY <2>1, <2>3, <2>4, <2>7, <3>1 DEF SimAgents
    <2>8. CASE ~x(a).suspected /\ ~Works(a) /\ ~Starves(a)
      <3>1. y(a) = [x(a) EXCEPT !.busy = FALSE]
        BY <2>0, <2>8 DEF x, worked
      <3>2. QED
        BY <2>1, <3>1 DEF SimAgents
    <2>9. QED
      BY <2>5, <2>6, <2>7, <2>8
  <1>6. agents' \in [Agents -> SimAgents]
    <2>1. agents' = [a \in Agents |-> agents'[a]]
      BY <1>1
    <2>2. QED
      BY <1>5, <2>1
  <1>7. /\ tally' \in Tallies
        /\ tally'.promoted = tally.promoted /\ tally'.rolledBack = tally.rolledBack
        /\ tally'.violations = tally.violations
        /\ tally'.survived = (tally.survived /\ \A a \in Agents :
                     /\ agents[a].suspected => agents'[a].down < DownGrace
                     /\ Starves(a) => agents'[a].starved < StarveGrace)
    BY <1>3, <1>4 DEF Tallies
  <1>8. TypeOK'
    <2>1. tick' \in 0 .. Ticks
      BY <1>2, <1>4
    <2>2. QED
      BY <1>2, <1>6, <1>7, <2>1 DEF Inv, TypeOK
  <1>9. Idle'
    BY <1>5 DEF Idle
  <1>10. Unlanded'
    <2>1. scenario.updateAt \in Nat
      BY <1>4, SimulatorAssumption DEF Scenarios
    <2>2. tick' < scenario.updateAt \/ tick' = scenario.updateAt => tick < scenario.updateAt
      BY <1>2, <1>4, <2>1
    <2>3. QED
      BY <1>2, <1>5, <1>7, <2>2 DEF Inv, Unlanded
  <1>11. Tended'
    BY <1>2, <1>5 DEF Inv, Tended
  <1>12. VerdictsAddUp'
    <2>1. /\ {a \in Agents : agents'[a].quality # "par"}
               = {a \in Agents : agents[a].quality # "par"}
          /\ {a \in Agents : agents'[a].candidate # "none"}
               = {a \in Agents : agents[a].candidate # "none"}
      BY <1>5
    <2>2. QED
      BY <1>7, <2>1 DEF Inv, VerdictsAddUp
  <1>13. BaselineSurvives'
    <2>1. SUFFICES ASSUME judged.policy = "heuristic", Provident PROVE tally'.survived
      BY <1>2 DEF BaselineSurvives, Provident
    <2>2. tally.survived
      BY <2>1 DEF Inv, BaselineSurvives, Provident
    <2>3. \A a \in Agents : ~agents[a].suspected /\ (agents[a].busy \/ agents[a].remaining >= Burn)
      BY <1>2, <2>1 DEF Inv, Tended
    <2>4. ASSUME NEW a \in Agents PROVE ~agents[a].suspected /\ ~Starves(a)
      <3>1. agents[a].remaining \in Nat
        BY <1>4, Fields
      <3>2. QED
        BY <1>4, <2>3, <3>1 DEF Starves
    <2>5. QED
      BY <1>7, <2>2, <2>4
  <1>14. Truthful' /\ MasksAgree' /\ RungsAreEarned'
    BY <1>2, <1>7 DEF Inv, Truthful, MasksAgree, RungsAreEarned
  <1>15. QED
    BY <1>8, <1>9, <1>10, <1>11, <1>12, <1>13, <1>14 DEF Inv

----------------------------------------------------------------------------
\* The gate and the ramp.

\* The scorecard of the episode that ends is fit if nothing was breached before
\* it or in it.
LEMMA ReportedFit ==
  ASSUME Inv
  PROVE  LET r == Reported(judged)
         IN  /\ r \in Reports /\ r.policy = judged.policy
             /\ r.fit <=> ~(breached \/ (judged.policy = "learned" /\ Breached))
  <1> DEFINE r == Reported(judged)
             done == judged.episodes + 1
             fit == judged.fit /\ (judged.policy = "learned" => ~Breached)
  <1>1. /\ judged \in Reports /\ breached \in BOOLEAN /\ judged.fit = ~breached
        /\ judged.episodes \in Nat
    BY DEF Inv, TypeOK, Truthful, Reports
  <1>2. r = [judged EXCEPT !.episodes = done, !.fit = fit]
    BY DEF Reported
  <1>3. done \in Nat /\ fit \in BOOLEAN
    BY <1>1
  <1> HIDE DEF done, fit
  <1>4. r \in Reports /\ r.policy = judged.policy /\ r.fit = fit
    BY <1>1, <1>2, <1>3 DEF Reports
  <1>5. QED
    BY <1>1, <1>4 DEF fit

\* Within a suite the scorecard and the history agree.
LEMMA NextEpisodeStep ==
  ASSUME Inv, NextEpisode
  PROVE  Inv'
  <1> DEFINE r == Reported(judged)
             lost == judged.policy = "learned" /\ Breached
  <1>1. /\ judged' = r /\ mode' = mode /\ won' = won
        /\ breached' = (breached \/ lost)
        /\ \E s \in Scenarios : Starts(s)
    BY DEF NextEpisode, EpisodeEnds
  <1>2. Episode'
    BY <1>1, StartsFit
  <1>3. /\ mode \in Rungs /\ breached \in BOOLEAN /\ won \in 0 .. 2 /\ RungsAreEarned
    BY DEF Inv, TypeOK
  <1>4. r \in Reports /\ (r.fit <=> ~(breached \/ lost)) /\ r.fit \in BOOLEAN
    BY ReportedFit DEF Reports
  <1> HIDE DEF r, lost
  <1>5. breached' \in BOOLEAN /\ Truthful'
    BY <1>1, <1>3, <1>4 DEF Truthful
  <1>6. RungsAreEarned'
    BY <1>1, <1>3 DEF RungsAreEarned
  <1>7. mode' \in Rungs /\ won' \in 0 .. 2 /\ judged' \in Reports
    BY <1>1, <1>3, <1>4
  <1>8. QED
    BY <1>2, <1>5, <1>6, <1>7 DEF Inv, TypeOK, Episode

\* The learned policy's verdict is kept while the baseline is judged.
LEMMA JudgeBaselineStep ==
  ASSUME Inv, JudgeBaseline
  PROVE  Inv'
  <1> DEFINE r == Reported(judged)
             lost == judged.policy = "learned" /\ Breached
  <1>1. /\ judged' = [policy |-> "heuristic", episodes |-> 0, fit |-> r.fit]
        /\ mode' = mode /\ won' = won
        /\ breached' = (breached \/ lost)
        /\ \E s \in Scenarios : Starts(s)
    BY DEF JudgeBaseline, EpisodeEnds
  <1>2. Episode'
    BY <1>1, StartsFit
  <1>3. /\ mode \in Rungs /\ breached \in BOOLEAN /\ won \in 0 .. 2 /\ RungsAreEarned
    BY DEF Inv, TypeOK
  <1>4. r.fit \in BOOLEAN /\ (r.fit <=> ~(breached \/ lost))
    BY ReportedFit DEF Reports
  <1> HIDE DEF r, lost
  <1>5. judged' \in Reports /\ judged'.fit = r.fit
    BY <1>1, <1>4 DEF Reports
  <1>6. breached' \in BOOLEAN /\ Truthful'
    BY <1>1, <1>3, <1>4, <1>5 DEF Truthful
  <1>7. RungsAreEarned' /\ mode' \in Rungs /\ won' \in 0 .. 2
    BY <1>1, <1>3 DEF RungsAreEarned
  <1>8. QED
    BY <1>2, <1>5, <1>6, <1>7 DEF Inv, TypeOK, Episode

\* The ramp climbs a rung for a gate passed, and falls to the bottom for one that
\* is not.
LEMMA GateStep ==
  ASSUME Inv, Gate
  PROVE  Inv'
  <1> DEFINE r == Reported(judged)
  <1>1. PICK beats \in BOOLEAN :
          /\ mode' = RampNext(mode, r.fit /\ beats)
          /\ won' = IF breached \/ ~beats THEN 0 ELSE IF won = 2 THEN 2 ELSE won + 1
    BY DEF Gate
  <1>2. /\ judged' = NewReport /\ breached' = FALSE /\ r.policy = "heuristic"
        /\ \E s \in Scenarios : Starts(s)
    BY DEF Gate
  <1>3. Episode'
    BY <1>2, StartsFit
  <1>4. /\ mode \in Rungs /\ breached \in BOOLEAN /\ won \in 0 .. 2 /\ RungsAreEarned
    BY DEF Inv, TypeOK
  <1>5. r.policy = judged.policy /\ r.fit \in BOOLEAN
        /\ (r.fit <=> ~(breached \/ (judged.policy = "learned" /\ Breached)))
    BY ReportedFit DEF Reports
  <1>6. r.fit <=> ~breached
    BY <1>2, <1>5
  <1> HIDE DEF r
  <1>7. won' \in 0 .. 2
    BY <1>1, <1>4
  <1>8. mode' \in Rungs
    BY <1>1, <1>4 DEF RampNext, Rungs
  <1>9. RungsAreEarned'
    <2>1. CASE ~(r.fit /\ beats)
      <3>1. mode' = "Shadow"
        BY <1>1, <2>1 DEF RampNext
      <3>2. QED
        BY <3>1 DEF RungsAreEarned
    <2>2. CASE r.fit /\ beats
      <3>1. won' = IF won = 2 THEN 2 ELSE won + 1
        BY <1>1, <1>6, <2>2
      <3>2. mode = "Shadow" => mode' = "Canary"
        BY <1>1, <2>2 DEF RampNext
      <3>3. mode # "Shadow" => won >= 1
        BY <1>4 DEF RungsAreEarned
      <3>4. won' >= 1 /\ (won >= 1 => won' = 2)
        BY <1>4, <3>1
      <3>5. QED
        BY <3>2, <3>3, <3>4 DEF RungsAreEarned
    <2>3. QED
      BY <2>1, <2>2
  <1>10. judged' \in Reports /\ breached' \in BOOLEAN /\ Truthful'
    BY <1>2 DEF Truthful, NewReport, Reports
  <1>11. QED
    BY <1>3, <1>7, <1>8, <1>9, <1>10 DEF Inv, TypeOK, Episode

\* Every step preserves the invariant, and so does standing still.
LEMMA Inductive ==
  ASSUME Inv, [Next]_vars
  PROVE  Inv'
  <1>1. CASE UNCHANGED vars
    BY <1>1 DEF vars, episode, ladder, Inv, TypeOK, Idle, Unlanded, Tended, Truthful,
                MasksAgree, VerdictsAddUp, BaselineSurvives, RungsAreEarned
  <1>2. CASE Next
    BY <1>2, FailuresStep, ControlStep, WorkStep, NextEpisodeStep, JudgeBaselineStep,
       GateStep DEF Next
  <1>3. QED
    BY <1>1, <1>2

\* The invariant holds in every reachable state.
LEMMA Invariant == Spec => []Inv
  BY Initially, Inductive, PTL DEF Spec

----------------------------------------------------------------------------
\* The theorems.

\* Every variable keeps its type, whatever the policies decide.
THEOREM SimulatorTypes == Spec => []TypeOK
  <1>1. Inv => TypeOK
    BY DEF Inv
  <1>2. QED
    BY <1>1, Invariant, PTL

\* The policies decide on one observation and the masks judge on the cluster as
\* it is by then: no decision is ever rejected.
THEOREM MasksAlwaysAgree == Spec => []MasksAgree
  <1>1. Inv => MasksAgree
    BY DEF Inv
  <1>2. QED
    BY <1>1, Invariant, PTL

\* A generation has one verdict, and the tally counts each.
THEOREM VerdictsAlwaysAddUp == Spec => []VerdictsAddUp
  <1>1. Inv => VerdictsAddUp
    BY DEF Inv
  <1>2. QED
    BY <1>1, Invariant, PTL

\* The baseline keeps the survival floor under every failure timeline, given a
\* threshold that covers a unit of work and a refill that pays for one.
THEOREM BaselineAlwaysSurvives == Spec => []BaselineSurvives
  <1>1. Inv => BaselineSurvives
    BY DEF Inv
  <1>2. QED
    BY <1>1, Invariant, PTL

\* Off shadow, the learned policy has earned its rung.
THEOREM RungsAreAlwaysEarned == Spec => []RungsAreEarned
  <1>1. Inv => RungsAreEarned
    BY DEF Inv
  <1>2. QED
    BY <1>1, Invariant, PTL

=============================================================================
