-------------------------------- MODULE Fleet --------------------------------
(***************************************************************************)
(* What the control plane acts on (runtime/src/control.rs with cluster.rs, *)
(* supervisor.rs and update.rs): a cluster of nodes that host agents, the  *)
(* supervisor's registry, the self-update histories, and the mechanisms a  *)
(* decision is actuated through.  Who decides, and why, is left open here: *)
(* any applicable decision may be actuated at any time.                    *)
(*                                                                         *)
(* A tick of the control plane holds the cluster and the supervisor        *)
(* exclusively (&mut), so an actuation is one step.  A node that failed    *)
(* stays in the cluster, with the stale instances it hosted.               *)
(***************************************************************************)
EXTENDS CheckpointHistory, SupervisorRegistry, FiniteSets

CONSTANTS
    Node,
    Agents,
    Rank,            \* Rank[n]: the position of n in the cluster's Vec of nodes
    Absent,          \* no instance of an agent on a node
    NotRegistered,   \* no record of an agent at the supervisor
    NotTracked,      \* no self-update history of an agent
    MaxVersion,      \* bound: self-updates of one agent
    MaxGen,          \* bound: generations numbered by one history
    MaxMisses,       \* bound: misses counted (0: who is suspected is left out)
    MaxDead          \* bound: nodes that fail

\* The portable state of an agent, by what the properties tell apart: which
\* self-update it carries, and whether its budget is below the refill floor.
Checkpoints == [version : 0 .. MaxVersion, low : BOOLEAN]
\* A running agent also has tools and a verifier, which do not travel.
Instances == [version : 0 .. MaxVersion, low : BOOLEAN, equipped : BOOLEAN]

Instance(version, low, equipped) ==
    [version |-> version, low |-> low, equipped |-> equipped]

Checkpoint(i) == [version |-> i.version, low |-> i.low]

\* Agent::restore, and then what the caller re-attaches.
Restored(c, equipped) == Instance(c.version, c.low, equipped)

ASSUME FleetAssumption ==
    /\ Rank \in [Node -> Nat]
    /\ \A m, n \in Node : Rank[m] = Rank[n] => m = n
    /\ Absent \notin Instances
    /\ NotRegistered \notin [node : Node, lastGood : Checkpoints, misses : Nat]
    /\ NotTracked \notin Histories(Checkpoints)
    /\ MaxVersion \in Nat
    /\ MaxGen \in Nat
    /\ MaxMisses \in Nat
    /\ MaxDead \in Nat

VARIABLES
    placement,   \* placement[n][a]: the instance of a on n, or Absent
    reg,         \* reg[a]: the supervisor's record of a, or NotRegistered
    histories,   \* histories[a]: the self-update history of a, or NotTracked
    dead,        \* the nodes that have failed
    latest,      \* latest[a]: the newest self-update of a
    rejected     \* history variable: rejected[a], the updates rolled back and not
                 \* committed since

fleet == <<placement, reg, histories, dead, latest, rejected>>

Hosts(n, a) == placement[n][a] # Absent

FleetInit ==
    /\ \E home \in [Agents -> Node] :
         placement = [n \in Node |-> [a \in Agents |->
             IF home[a] = n THEN Instance(0, FALSE, TRUE) ELSE Absent]]
    /\ reg = [a \in Agents |-> NotRegistered]
    /\ histories = [a \in Agents |-> NotTracked]
    /\ dead = {}
    /\ latest = [a \in Agents |-> 0]
    /\ rejected = [a \in Agents |-> {}]

----------------------------------------------------------------------------
\* The mechanisms.

Tracked(a)   == histories[a] # NotTracked
Candidate(a) == Tracked(a) /\ HasCandidate(histories[a])
Hosted(a)    == \E n \in Node : Hosts(n, a)

\* The first node of the cluster that hosts the agent.
HostOf(a) == CHOOSE n \in Node :
    /\ Hosts(n, a)
    /\ \A m \in Node : Hosts(m, a) => Rank[n] <= Rank[m]

\* Mutant: the other instances are not drained.
HealUndrained(a, n) ==
    /\ placement' = [placement EXCEPT ![n][a] = Restored(reg[a].lastGood, TRUE)]
    /\ reg' = [reg EXCEPT ![a] = Healed(@, n)]
    /\ UNCHANGED <<histories, dead, latest, rejected>>

\* self_heal, then drain_except: the checkpoint runs on n and nowhere else.
Heal(a, n) ==
    /\ placement' = [m \in Node |-> [placement[m] EXCEPT ![a] =
           IF m = n THEN Restored(reg[a].lastGood, TRUE) ELSE Absent]]
    /\ reg' = [reg EXCEPT ![a] = Healed(@, n)]
    /\ UNCHANGED <<histories, dead, latest, rejected>>

\* Cluster::migrate: nothing when source and target are one; otherwise pack,
\* deploy with a fresh environment, host on the target, drain the source.  The
\* registry is not told.
Migrate(a, from, to) ==
    /\ placement' =
           IF from = to THEN placement
           ELSE [placement EXCEPT
                   ![to][a] = Restored(Checkpoint(placement[from][a]), TRUE),
                   ![from][a] = Absent]
    /\ UNCHANGED <<reg, histories, dead, latest, rejected>>

\* grant_budget: enough tokens take the agent above the floor.
Refill(a, enough) ==
    /\ placement' = [placement EXCEPT ![HostOf(a)][a] =
                        Instance(@.version, @.low /\ ~enough, @.equipped)]
    /\ UNCHANGED <<reg, histories, dead, latest, rejected>>

PromoteUpdate(a) ==
    /\ histories' = [histories EXCEPT ![a] = Promote(@)]
    /\ rejected' = [rejected EXCEPT ![a] =
                       @ \ {Newest(histories[a]).checkpoint.version}]
    /\ UNCHANGED <<placement, reg, dead, latest>>

\* Mutant: the newest generation is read before the history is rolled back.
RollbackUpdateToNewest(a) ==
    LET h == Rollback(histories[a])
        popped == (Len(h.gens) + 1) .. Len(histories[a].gens)
    IN  /\ histories' = [histories EXCEPT ![a] = h]
        /\ placement' = [placement EXCEPT ![HostOf(a)][a] =
                            Restored(Newest(histories[a]).checkpoint, FALSE)]
        /\ rejected' = [rejected EXCEPT ![a] = (@ \cup
               {histories[a].gens[i].checkpoint.version : i \in popped})
               \ {h.gens[i].checkpoint.version : i \in 1 .. Len(h.gens)}]
        /\ UNCHANGED <<reg, dead, latest>>

\* The history is rolled back and the agent's slot overwritten by the restored
\* agent, as restore returns it: without tools and verifier.
RollbackUpdate(a) ==
    LET h == Rollback(histories[a])
        popped == (Len(h.gens) + 1) .. Len(histories[a].gens)
    IN  /\ histories' = [histories EXCEPT ![a] = h]
        /\ placement' = [placement EXCEPT ![HostOf(a)][a] =
                            Restored(LastGood(h), FALSE)]
        /\ rejected' = [rejected EXCEPT ![a] = (@ \cup
               {histories[a].gens[i].checkpoint.version : i \in popped})
               \ {h.gens[i].checkpoint.version : i \in 1 .. Len(h.gens)}]
        /\ UNCHANGED <<reg, dead, latest>>

\* What a policy may propose.
Decisions ==
    {[kind |-> "Heal", agent |-> a, onto |-> n] : a \in Agents, n \in Node}
    \cup {[kind |-> "Migrate", agent |-> a, from |-> m, to |-> n] :
             a \in Agents, m \in Node, n \in Node}
    \cup {[kind |-> "Refill", agent |-> a, enough |-> e] :
             a \in Agents, e \in BOOLEAN}
    \cup {[kind |-> k, agent |-> a] : k \in {"Promote", "Rollback"}, a \in Agents}

\* An inapplicable decision is an error and changes nothing.
Applicable(d) ==
    \/ d.kind = "Heal" /\ reg[d.agent] # NotRegistered
    \/ d.kind = "Migrate" /\ (d.from = d.to \/ Hosts(d.from, d.agent))
    \/ d.kind = "Refill" /\ Hosted(d.agent)
    \/ d.kind = "Promote" /\ Candidate(d.agent)
    \/ d.kind = "Rollback" /\ Hosted(d.agent) /\ Candidate(d.agent)

Actuate(d) ==
    /\ Applicable(d)
    /\ \/ d.kind = "Heal" /\ Heal(d.agent, d.onto)
       \/ d.kind = "Migrate" /\ Migrate(d.agent, d.from, d.to)
       \/ d.kind = "Refill" /\ Refill(d.agent, d.enough)
       \/ d.kind = "Promote" /\ PromoteUpdate(d.agent)
       \/ d.kind = "Rollback" /\ RollbackUpdate(d.agent)

----------------------------------------------------------------------------
\* The rest of the system.

Running(n, a) == Hosts(n, a) /\ n \notin dead

\* The agent's work exhausts its budget.
Exhaust(n, a) ==
    /\ Running(n, a)
    /\ placement' = [placement EXCEPT ![n][a] =
                        Instance(@.version, TRUE, @.equipped)]
    /\ UNCHANGED <<reg, histories, dead, latest, rejected>>

\* The agent's owner updates it.
SelfUpdates(n, a) ==
    /\ Running(n, a)
    /\ latest[a] < MaxVersion
    /\ latest' = [latest EXCEPT ![a] = @ + 1]
    /\ placement' = [placement EXCEPT ![n][a] =
                        Instance(latest[a] + 1, @.low, @.equipped)]
    /\ UNCHANGED <<reg, histories, dead, rejected>>

\* Cluster::track: the first call takes the baseline, a later one keeps it.
Track(a) ==
    /\ Hosted(a)
    /\ ~Tracked(a)
    /\ histories' = [histories EXCEPT ![a] =
                        InitHistory(Checkpoint(placement[HostOf(a)][a]))]
    /\ UNCHANGED <<placement, reg, dead, latest, rejected>>

\* Cluster::stage_update.
StageCandidate(a) ==
    /\ Hosted(a)
    /\ Tracked(a)
    /\ histories[a].next <= MaxGen
    /\ histories' = [histories EXCEPT ![a] =
                        Stage(@, Checkpoint(placement[HostOf(a)][a]))]
    /\ UNCHANGED <<placement, reg, dead, latest, rejected>>

\* observe: the caller registers the agent, or pulls its checkpoint.
Pull(n, a) ==
    /\ Running(n, a)
    /\ reg' = [reg EXCEPT ![a] =
                  LET c == Checkpoint(placement[n][a])
                  IN  IF @ = NotRegistered THEN Register(n, c)
                      ELSE Observe(@, n, c)]
    /\ UNCHANGED <<placement, histories, dead, latest, rejected>>

\* A heartbeat of a running agent: observe, then heartbeat.
Report(n, a) ==
    /\ Running(n, a)
    /\ reg' = [reg EXCEPT ![a] =
                  LET c == Checkpoint(placement[n][a])
                  IN  IF @ = NotRegistered THEN Register(n, c)
                      ELSE Heartbeat(Observe(@, n, c))]
    /\ UNCHANGED <<placement, histories, dead, latest, rejected>>

\* Supervisor::tick: every registered agent misses a beat at once.
SupervisorTick ==
    /\ reg' = [a \in Agents |->
                 IF reg[a] # NotRegistered /\ reg[a].misses < MaxMisses
                 THEN Missed(reg[a]) ELSE reg[a]]
    /\ UNCHANGED <<placement, histories, dead, latest, rejected>>

Fail(n) ==
    /\ n \notin dead
    /\ Cardinality(dead) < MaxDead
    /\ dead' = dead \cup {n}
    /\ UNCHANGED <<placement, reg, histories, latest, rejected>>

Surroundings ==
    \/ \E a \in Agents :
         \/ Track(a) \/ StageCandidate(a)
         \/ \E n \in Node : \/ Exhaust(n, a) \/ SelfUpdates(n, a)
                            \/ Pull(n, a) \/ Report(n, a)
    \/ SupervisorTick
    \/ \E n \in Node : Fail(n)

FleetNext == Surroundings \/ \E d \in Decisions : Actuate(d)

\* The head of control.rs: the plane invents no new way to touch an agent.  Any
\* system that keeps to this specification touches agents only so.
FleetSpec == FleetInit /\ [][FleetNext]_fleet

----------------------------------------------------------------------------
\* Properties.

\* Every variable keeps its type.
FleetTypeOK ==
    /\ placement \in [Node -> [Agents -> Instances \cup {Absent}]]
    /\ reg \in [Agents -> [node : Node, lastGood : Checkpoints, misses : Nat]
                          \cup {NotRegistered}]
    /\ histories \in [Agents -> Histories(Checkpoints) \cup {NotTracked}]
    /\ dead \subseteq Node
    /\ latest \in [Agents -> 0 .. MaxVersion]
    /\ rejected \in [Agents -> SUBSET (0 .. MaxVersion)]

\* "The single-instance fence": whatever is decided, in whatever order, and
\* whichever nodes fail, each agent is hosted by exactly one node.
SingleInstance ==
    \A a \in Agents : \E n \in Node :
        Hosts(n, a) /\ \A m \in Node : Hosts(m, a) => m = n

\* The mechanisms that work on an agent never take its safety net away: its
\* baseline stays committed, and what a rollback would restore was running once
\* and was not itself rolled back.
RollbackIsSafe ==
    \A a \in Agents : Tracked(a) =>
        LET h == histories[a]
        IN  /\ h.gens[1].number = 0 /\ h.gens[1].status = "Committed"
            /\ LastGood(h).version \in (0 .. latest[a]) \ rejected[a]

RunsRejected(a) ==
    \E n \in Node : Hosts(n, a) /\ placement[n][a].version \in rejected[a]

\* An update that was rolled back comes back to life in one way only, from a
\* checkpoint that the supervisor has held on to: no verdict, migration, refill
\* or further update brings it back.
OnlyHealsRevive ==
    [][\A a \in Agents : ~RunsRejected(a) /\ RunsRejected(a)' =>
         /\ histories'[a] = histories[a]
         /\ reg[a] # NotRegistered /\ reg[a].lastGood.version \in rejected[a]]_fleet

=============================================================================
