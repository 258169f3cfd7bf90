# Verification of thaliox-os

Thaliox-os runs AI agents under a contract (the "TAM") with five invariants,
stated in `crates/core/src/lib.rs`: every call is charged to an attention budget
(INV-1), side effects need a capability (INV-2), messages keep their model's
meaning (INV-3), every call is audited (INV-4), and governance happens inside the
system (INV-5). This directory holds TLA+ models of the parts where those
promises depend on the order of events, the TLC configurations that check them
on small instances, and proofs that hold for every size of instance. All paths
below are relative to `crates/` unless they start with `docs/`.

## 1. The system

| Component | State it keeps | Operations | Interacts with | Hard to get right |
|---|---|---|---|---|
| Attention budget, `core/src/budget.rs` | `total`, `spent` (u64) | `charge`, `grant`, `settle` | every agent | saturation, overdraft |
| Agent, `runtime/src/agent.rs` | phase, budget, capabilities, audit trail, tools, verifier | `act`, `run`, `start`, `grant*`, `checkpoint`, `restore`, `merge` | model, tools, memory | suspension inside a call, dropped futures, failures between charge and settlement |
| Capabilities, `core/src/capability.rs`, `cap/` | tokens, keys | `verify`, `authorizes` | agent, governor, gateway | expiry while in use |
| Self-update, `runtime/src/update.rs` | generations, next number | `stage`, `promote`, `rollback`, `conclude_update` | agent, control plane | sequences of verdicts over stacked candidates |
| Supervisor, `runtime/src/supervisor.rs` | registry: node, last good checkpoint, misses | `observe`, `heartbeat`, `tick`, `self_heal`, `reconcile` | nodes, fabric, control plane | false suspicion, two instances, stale records |
| Heartbeat over TCP, `fabric/src/lib.rs` | one connection per heartbeat | `send_heartbeat`, `serve_supervisor` | supervisor | late and lost heartbeats |
| Cluster and control plane, `runtime/src/control.rs`, `cluster.rs` | nodes with their agents, histories | `migrate`, `track`, `stage_update`, `observe`, `tick`, `actuate` | all of the above | heals, migrations, refills and verdicts on the same agent |
| Governor, `runtime/src/control.rs` | its own agent, mode | `tick`, `set_mode` | control plane | gates over a list of decisions, expiry in the middle |
| Packaging, `runtime/src/package.rs` | none | `pack`, `validate`, `deploy` | migration | state that must be continued, not reset |
| Networked migration, `fabric/`, `fabric-node/` | one connection; the node's agent | `send_migration`, `serve_migrations`, the programs `serve` and `migrate` | packaging | a node that leaves between hosting and acknowledging, connections that break |
| Message fabric and teams, `fabric/src/lib.rs` | inboxes, groups | `send`, `recv`, team rounds | agents | leftovers of failed rounds, multicast half delivered |
| Gateway, `api/src/lib.rs` | agents behind locks | HTTP handlers | agents | replaced agents, dropped requests |
| MicroVM and guest, `runtime/src/firecracker.rs`, `guest-runner/` | Firecracker process, the guest's agent, its connections | launch, deploy, health, checkpoint, shutdown, snapshot, restore; the programs of the runner | packaging | retries after lost replies, calls without timeout, a program failing half way |
| Learned policy, `runtime/src/learn.rs` | simulated cluster, parameters, ramp | an episode's phases, `gate`, `Ramp` | governor | a plan judged against a cluster its own decisions change; the rollout ladder |
| Substrate, `substrate/` | probe buffer, ledger, compiled policy | `poll`, `join`, `compile_deny_floor` | audit trail, capabilities | batches that do not line up, two gates that must agree |
| Memory, cognition, tools | stores, HTTP clients | answers | agent | fail or cost more than declared |

The parts meet in three ways. The agent awaits its model and its tools in the
middle of a call. Nodes, supervisor and control plane exchange *checkpoints*:
copies of an agent's portable state, each stale from the moment it is taken.
And the control plane works on agents through the same mechanisms an operator
has, while those agents go on working.

What makes each part correct, in one sentence: the agent's spend is explained by
its trail and its overdraft is bounded; the history always has a state to go back
to and says truly which; the registry names the one instance that counts; the
fleet never loses nor doubles an agent; the governor changes only what it may,
and pays for thinking; a moved agent goes on from the package that carried it and
no program leaves a VM behind or hangs; a policy reaches the fleet only by gates
it came through; the ledger bills each cost once and to its owner, and the floor
holds back what the runtime would refuse. `PROJECT.json` lists the hazards behind each, at the line
where it bites.

## 2. The modules

| Module | Models | Extends |
|---|---|---|
| `AttentionBudget` | the budget's arithmetic, as functions | |
| `Agent` | one agent: gate, loop, cancellation, checkpoint, restore | `AttentionBudget` |
| `CheckpointMerge` | the merge of two checkpoints, as functions, and its laws | `AttentionBudget` |
| `CheckpointHistory` | the generational history, as functions | |
| `SelfUpdate` | one agent, its history, and its verdicts | `CheckpointHistory` |
| `KnownGood` | what self-update promises (abstract) | |
| `SupervisorRegistry` | one registry record, as functions | |
| `Supervision` | nodes, heartbeats on their way, one registry record, a caller | `SupervisorRegistry` |
| `Fleet` | cluster, registry, histories and the five mechanisms, for any policy | `CheckpointHistory`, `SupervisorRegistry` |
| `HeuristicControl` | the heuristic policy and `ControlPlane::tick` | `Fleet` |
| `Governor` | the governor's tick, gates and budget | `Fleet`, `AttentionBudget` |
| `Fabric` | inboxes, and what may be given to a model (INV-3), as functions | |
| `Teams` | overlapping rounds of a pipeline, hierarchy, market or swarm | `Fabric` |
| `Gateway` | concurrent requests to the agents behind several gateways | `AttentionBudget` |
| `MicroVm` | VMs, the runner in them, the channel, and a host's handle on them | |
| `Migration` | the programs that move an agent, between VMs, files and nodes | `MicroVm` |
| `Simulator` | the episodes, policies, gate and ramp of E5 | |
| `Capability` | what a token authorizes, and the deny floor, as functions | |
| `Substrate` | grants, calls, samples, and the ledger's join | `Capability` |

The modules `MC*` give constants values for TLC; the modules `*Proofs` hold the
theorems. `SelfUpdate!KeepsPromise` is the refinement `SelfUpdate` => `KnownGood`;
`GovernorProofs!GovernorUsesMechanisms` is the refinement `Governor` => `Fleet`,
`GovernorProofs!HeuristicUsesMechanisms` is `HeuristicControl` => `Fleet`.
Definitions named after a deviation (`SettleTwice`, `HealUndrained`, ...) and
introduced by the word *Mutant* are not part of the models: each shows a
plausible slip of the code that one property detects.

### How they correspond to the code

* **Agent.** `act` is split at its only suspension point. `ActRefused` is the
  capability denial and the refused charge; `ActAtOnce` is a call that never
  suspends (memory, an unknown tool); `ActSuspend` and `ActResume` are the two
  halves of a call to the model or a registered tool, the second settling and
  recording. `RunBegin`, `RunStarved`, `RunSuspend`, `RunResume`,
  `RunThinkFails` and `RunExhausted` are `run` with `think_with_tools`; tool
  calls of a run go through the same act actions. `Cancel` is the owner dropping
  the future: nothing after the await runs. `CrashRestore` is `restore`, which
  drops tools and verifier. On an agent that is not live `act` and `run` only
  return an error, which is no step. `billed`, `leaked` and `clipped` are history
  variables.
* **CheckpointMerge.** A trail is taken by the keys of its records (`audit_key`): the
  costs under each key in their order, which is what a merge, sorting by time and
  key, leaves of the order. Capabilities are their `jti`s. `rate` and `refill`
  come from one side as the total does, and no operation reads them.
* **SelfUpdate.** One action per operation; `Mutate` stands for whatever the
  agent or its owner does between them. Errors change nothing and are no step.
* **Supervision.** `Deliver` is the body of `serve_supervisor` under its lock. It
  happens at any time after `SendHeartbeat`, heals and reconciles of that node
  included. `SendHeartbeat` is open to every instance: one that a heal superseded
  while it was alive is told nothing, and reports on. `outdated` marks the
  heartbeats of instances a heal left behind, sent before it or after it, and `late`
  that one of those was processed since the last heal, which is what two of the
  properties are conditional on. A node waits for the acknowledgement of a heartbeat,
  so `beat[n]` holds at most one. The supervisor leaves *when* to tick, heal and
  reconcile to its caller (`supervisor.rs`, head). The caller modelled keeps to the
  documented contract: only suspected agents are healed, and an instance the registry
  does not point to is reconciled and retired, sooner or later. Records of work have
  identities of their own, as if each had a key of its own, and there are no refills;
  then the merge of `CheckpointMerge` is the union of the trails and the larger spend,
  which is `Supervision!Merge` (`AgentProofs!MergeUnitesBoth`).
* **Fleet.** A tick holds the cluster and the supervisor exclusively, so one
  actuation is one step. A failed node stays in the cluster with its stale
  instances, as in the code, which has no notion of a failed node. Checkpoints
  keep two facts of the agent: which self-update it carries, and whether its
  budget is below the refill floor.
* **Governor.** `Deliberate` is the think that opens a tick; `Apply` is one
  decision that passes both gates and its mechanism. Starved ticks and decisions
  that are denied, shadowed or inapplicable are only reported, which is no step.
  The policy is arbitrary: every list of decisions is a behaviour, so the
  results hold for the heuristic, the learned policy and any other.
* **HeuristicControl.** `Observations` follows the nodes in order and the agents
  of a node in any order (they are in a `HashMap`); ties between loads are broken
  as `min_by_key` (first) and `max_by_key` (last) do. `ControlTick` makes the plan
  from one observation, `ActuateNext` actuates one decision of it after the other.
  `Among` keeps some of the observations in their order, as the filters do.
  Self-updates are left out, since the heuristic never decides on them.
* **Teams.** A run takes a shared reference to its team, so runs of one team may
  overlap; they meet in the inboxes of its members. A step is what a run does
  between two points where another thread can get in between: each `send` and
  each `recv` locks the inboxes once, and a broadcast delivers to one member of
  the group after the other. Member 1 is the first stage, the lead, the
  auctioneer, or the peer that draws the consensus. `Fail` is every exit by `?`
  and the caller's dropping the run; both lose what the run held and leave the
  inboxes as they are. The endpoints are taken to be the team's own, so that a
  bid that does not decode never arrives. `bids` and `mixed` are history.
* **Gateway.** A handler goes through `Refuse` (admit), `AskDirectory` and
  `Redirect` (locate), `Lookup` (the table), and then waits in the queue of the
  agent's lock; the head of the queue holds it. `think` stands for think and
  invoke, `remember` for remember and recall, `status` for status, audit and
  events. `Disconnect` drops a handler where it awaits. The peers known at the
  start are arbitrary because operators register them before serving;
  `RegisterPeer` and `PlaceRemote` are what they do later. A reply shows the
  agent's trail, its remaining budget, or both; the model always keeps both.
  `lost` and `before` are history.
* **MicroVm, Migration.** A mode of the guest runner, or `fabric-node migrate`, is
  a list of steps, in the order of the source; `StartJob` runs any of them after
  any other, and the file one wrote is there for the next. A call is one request
  on a connection of its own, so a host has one at a time: `CallBegins`, then
  `GuestServes` takes the requests that reached the guest in turn, whether or not
  their connection still stands. `ConnectionBreaks` loses the request or leaves it
  to be served, `ReplyIsLost` breaks it on the way back, `VmDies` ends a VM at any
  time. Where the code has no timeout, the model has none. `held` are the VMs the
  program has a handle on: a launch or a restore first spawns a Firecracker
  (`Spawns`), whose handle is there before anything else can fail, and then sets it up
  (`Launched`, `Restored`). `Dropped`, `ShutdownReturns` and `Exit`, a program's
  return, drop handles, and `Killed` says what becomes of their VMs; a VM without a
  handle, as in the host mode, stays. A write that fails may have cut the file short.
  Of an agent the modules keep what it has spent,
  which tells a continued agent from one that was reset or thought twice.
  `fabric-node serve` is `NodeDeploys`, `NodeAnswers` and `NodeLooks`: the poller
  that waits for the agent runs beside the server and exits without asking it.
* **Simulator.** A tick has the three phases of `run_episode`. The seeded timeline
  is any timeline and the learned parameters are any parameters, so the learned
  policy takes any action it holds legal; a plan has a place for each decision there
  may be, and `Hold` stands in those that are not taken; which of two mean efficiencies is the
  greater, a floating point question, is left open. The masks judge each decision
  on the cluster the decisions before it have left. `breached` and `won` are
  history. The reference policy is the baseline of the gate.
* **Capability, Substrate.** The caller may poll and join at any time, with all audit
  records it has not handed over yet, and a floor is compiled anew when a token is
  granted, as `substrate/src/policy.rs` asks of its caller. The gate of an agent with
  a verifier takes only tokens that are genuine and have not expired (`Verified`); the
  floor is compiled from whatever tokens are held. A think needs no permission
  (`Gated`). The five counters of a
  sample are added up alike and are one number; a glob pattern is the set of
  targets it matches.

## 3. What is checked

| Run | Question | Bounds |
|---|---|---|
| `agent` | do the accounts balance, is the overdraft bounded, is the checkpoint a past, does every run end; which laws does the merge have | one tool, one token, budget of 3 or, once refilled, 5 tokens, runs of two iterations, two calls; 48 states to merge |
| `self_update` | are numbers and verdicts true, is the promise kept | three states, four stagings |
| `supervision` | what fences a superseded instance, what can a heal bring back, is spend ever invented, does a takeover always come | two nodes, two missed beats to suspect, two records, two faults, heartbeats as late as they like |
| `fleet` | one instance of each agent, a sound rollback target, what can bring a rejected update back | two nodes, one agent, two self-updates, two stagings, one failure |
| `governor` | blast radius, capability, metering | two agents, two nodes, three modes, two decisions per tick |
| `heuristic` | is an agent of a failed node brought up again, does a plan stay applicable while it is carried out | three nodes, two agents, one failure |
| `teams` | does a message outlive its round, is an answer made of work on its own task, does the lowest bid win, is every peer heard | three members, three rounds, two at once (one for a swarm), two vector spaces, two costs, at most one member whose capability covers nobody, or not everybody |
| `gateway` | does an agent's ledger add up, is it driven one request at a time, do clients see one history, does every request end | two gateways, one id, three requests, one redirect, two calls of the operators, budget of 2, declared cost 1, actual cost 0 or 2 |
| `migration` | is a moved agent continued, is it at no moment without a host during a cutover, is a VM ever without a handle that kills it, is an acknowledgement true, does every program end | two VMs, four programs one after another, three tries of a deployment, three connections that break, one VM that dies, two looks of a serving node |
| `simulator` | does either policy plan what the masks reject, is each update concluded once, does the baseline survive every timeline, is each rung earned | two agents, two nodes, three ticks, one update per episode, suites of two |
| `substrate` | is a cost lost, doubled or charged to another, does a price that was read change, do floor and gate agree | two agents, one with a verifier, two tokens, one forged and one that expires, two calls, two samples, three moments, a window of one, one sample per poll |
| `supervision_fence` | is the registry always the fence, as the comment says | two nodes, no faults |

The last one expects a violation: a disagreement between the code and its comment,
which section 6 explains.

The type invariants are theorems, so no run repeats them; and of `BaselineRetained`
the run `fleet` checks what matters there, in `RollbackIsSafe`.

The laws of the merge are not about runs, so TLC checks them as an assumption of
`MCAgent`, of any three of its `Samples`. Fields and keys are merged apart; one key
and two or three values of each field show all there is to see.

**Why the bounds are enough.** The largest token value, 5, is reached by refills
and by settlements, and is what a budget of 3 and the dearest answer come to, which the
bound on the overdraft excludes, so saturation, overdraft, refusal and refund all happen, in
any order of two calls and a run of two iterations. Four generations allow
candidates stacked two deep on either side of a verdict. Two nodes allow a heal
back onto the node of the first instance while its heartbeat is still under way,
and a threshold of two allows a miss that does not lead to a heal; the two safety
properties are proved for any number of nodes. Two self-updates and
two stagings allow a rejected update to come back and be staged again. Two agents
under a canary of limit one allow a decision too many. `MaxAudit`, `MaxWork`,
`MaxMisses`, `MaxFaults`, `MaxDead`, `MaxVersion`, `MaxGen` and `MaxApplied` only
stop counters; no property mentions them. Three rounds of a team allow two that
overlap or fail and one after them; three members give a hierarchy two children
and a market two bidders, so that turns and ties occur. Three requests allow two
to queue for the agent a third one spawned, or an agent to be replaced while
someone waits for it; an actual cost above the declared one overdraws the budget,
so the next request is refused, and one below it is given back at settlement. `MaxActive`, `MaxRequests`, `MaxHops` (a client's
redirect limit, needed because two gateways may place an id on each other) and
`MaxCalls` are bounds too. Three breaks exhaust the three tries of a deployment, so
that it is deployed up to three times over, or given up; a budget of 5 lets the
thinks that follow be refused in the end. Four programs allow a file to be captured
and received twice, or framed and then read by a program that expects the other
form. Two simulated agents on two nodes of capacity one allow throttling, an
imbalance, and a plan whose decisions change the loads under each other; three ticks
allow an agent to be down for its grace and a staged update to meet a failure;
suites of two tell the last episode from all of them. Two samples and two calls at
three moments allow a sample to be nearer to one call than to another, to be as near
to both, to come before its call, and to be released in a later batch. `MaxBreaks`,
`MaxDeaths`, `MaxJobs`, `Suite`, `MaxTime`, `MaxSamples` and `Metered` are bounds. In `governor`, `MaxMisses = 0` leaves
out who is suspected: the policy is arbitrary and may heal any registered agent.
`governor` stages no updates (`MaxGen = 0`); promotion and rollback are exercised
in `fleet`, and in the proofs.

**Hypotheses that matter.** `OverdrawBounded` assumes that callers declare
positive costs: a call declared free is admitted on an overdrawn budget and may
overdraw it again. `DeliberationIsMetered` assumes that a think reserves and
costs at least one token: with `think_cost` 0 the governor thinks for free.
`Fence` and `AuthorityKnowsLastGood` hold until a heartbeat of an instance that a heal
left behind is processed, be it an old one or a fresh one, and again from the next
heal on; any other may be as late as it likes. `CutoverIsSafe` is about
migrations during which no VM dies of itself. The simulator's `BaselineSurvives`
assumes that the heuristic's refill threshold is reached before a unit of work
is unaffordable, and that a refill pays for one; the constants of `learn.rs` satisfy
both. `FloorAgrees` is about calls that need a permission, which a think does not
(section 6), and compares what the floor lets through with what the tokens cover,
genuine and valid or not: only for an agent without a verifier, or whose tokens all
are, is that what the gate admits. It leaves Admin tokens out of its second half: the
floor lets all of their holder's system calls through. The run has no Admin token; the
theorem covers them. It depends on which operations make which
system calls, which is two assumptions of `Substrate` (section 4). `Takeover` of the
heuristic assumes the agent was registered (`observe` takes an unknown agent for
healthy) and one failure: with two failed nodes of three, the heuristic can heal
back and forth between them for ever, which no property of the runs shows. `AnswersAreOwn`, `LowestBidWins` and
`SwarmHearsEveryPeer` speak of rounds that overlapped with no other: the inboxes do
not tell rounds apart, and overlapping rounds do take each other's messages.
`MailIsAwaited` holds for them all the same.

**Fairness.** `Agent!FairSpec`: an executor polls a run that is under way, and
the model and the tools answer or fail; the code sets no timeout of its own, so
this is an assumption on the backends. Nobody is obliged to start calls, cancel
or restore. `Supervision!FairSpec`: the caller ticks and heals what it
suspects, a heartbeat under way arrives or its connection breaks, and a superseded
instance is reconciled; nodes need not report. `HeuristicControl!FairSpec`: the
caller runs supervision and control cycles for ever, and a running agent keeps
reporting; strong fairness, because a cycle waits for the tick under way to end.
`Gateway!FairSpec`: the runtime polls a handler that can go on, and models answer or
fail, again an assumption on the backends: neither provider sets a timeout
(`cognition/src/anthropic.rs:29`, `cognition/src/openai.rs:28`), and a model that stays silent
holds the agent's lock, and every request queued for it, for ever. Nobody is obliged
to make a request or to disconnect. `EveryRequestEnds` is stated for the requests that are ever made,
which are finitely many. `Migration!FairSpec`: the host program, a runner whose VM
runs, and a serving node are scheduled. Nothing is assumed of a guest that boots or
is paused, so `ProgramsEnd` says that no program ever waits on one.

## 4. What is proved

Each theorem holds for every value of the constants that satisfies the module's
named assumptions.

* **AgentProofs.** `AgentTypes`, `AccountsBalance`, `OverdrawIsBounded`,
  `RestoreRewinds`, `TrailAddsUp`. The properties are not inductive alone. `IInv` adds
  `FrameInLoop` (a suspended call inside a run is the run's own), `SavedAccounted`
  (a checkpoint's accounts balance, needed because a restore brings them back) and
  `ReservationWithinBudget` (while a call is suspended the balance is not
  overdrawn yet, which bounds what its settlement can do). The bill of a trail is a
  recursive function of its records. `BillsExplained` carries a running sum of the
  trail along with it, and of the checkpoint's; that two sums of one trail agree is
  induction, in the one form the provers take it in: a set of naturals has a least
  element (`LeastElement`). `TrailExplainsSpend` joins the two accounts: until a
  settlement saturates, the spend is what a reader of the trail adds up, and what is or
  stayed reserved.
* **AgentProofs, the merge.** `AgentState::merge` claims to be "commutative,
  associative, and idempotent". `MergeIsAJoin`: it always is the last two.
  `MergesCommuteExactly`: two checkpoints merge to the same either way exactly if
  their totals are equal and their trails agree on the keys both have records of.
  `RecordsSurviveMerges`: "no record is ever lost" holds under the second condition,
  exactly. `ReconcilesInAnyOrder`: the supervisor merges every instance into its own
  record, so the totals do not matter to it, and the trails have to agree only where
  its record is silent. `MergeUnitesBoth`: the merged spend is one of the two, never
  smaller than either. The laws are proved field by field (`JoinSpentLaws`,
  `JoinPhaseLaws`, `JoinTrailLaws`), and a state is its fields.
* **RecoveryProofs, self-update.** Lemmas on what `Stage`, `Promote` and `Rollback`
  return; from them `BaselineSurvives`, `NumbersAreUnique`, `VerdictsAreTruthful`
  and `SelfUpdateKeepsPromise`. The invariant adds that what follows the last
  committed generation is all candidate.
* **RecoveryProofs, supervision.** `SpendIsCovered`: a checkpoint's trail always
  covers its spend, because the larger of two spends is covered by one of two trails
  and the union by both. `FenceHolds` and `HealsOnlyRewind`: the invariant says that,
  until a heartbeat of an instance left behind is processed, every heartbeat under way
  that is not of such an instance is the registered node's own, and no newer than the
  instance there.
* **GovernorProofs, the fleet.** `OneInstance`: exactly one node hosts each agent,
  because a heal drains the others and a migration drains its source.
  `RollbackStaysSafe` and `HealsAloneRevive` need to know which versions there are
  (`UpdatesKnown`): nothing an instance, a record of the supervisor or a history holds
  is newer than the newest update; nothing is rejected without a history; and each
  history is a safety net (`Sound`): its baseline is committed and its last committed
  generation is not rejected. Then every mechanism but a heal gives an agent only
  versions that it ran.
* **GovernorProofs, the governor.** `GovernorUsesMechanisms` (refinement of
  `FleetSpec`), hence `GovernorKeepsOneInstance` and `GovernorKeepsUpdatesSafe`;
  `GovernorNeedsCapability` from the locality of each
  mechanism: a decision changes nothing of the agents it does not name. The same
  locality gives `GovernorBlastRadius`: in `Bounded` the agents a tick has changed
  are at most as many as its decisions applied, and the mode has let through at
  most its limit of those. `GovernorPaysForTicks`: in `Paid` there are no
  more deliberations than tokens spent, because a think that is admitted spends at
  least one, whatever was reserved for it, and none is admitted on an exhausted
  budget.
* **GovernorProofs, the heuristic.** `HeuristicUsesMechanisms` (refinement of
  `FleetSpec`), hence `HeuristicKeepsOneInstance`; and `PlansStayApplicable`: a tick
  decides everything from one observation and then actuates decision after decision,
  yet none finds its agent, its node or its record gone. In `PlanInv` every decision
  still to come is `Founded` (a heal on a registry record, a migration on an instance
  at its source) and any two are `Compatible`: a plan has one migration at most, and
  its agent, being healthy, is not healed by the same plan. That a filtered sequence
  holds only what passes the filter is induction along its course (`AmongIsIn`).
* **TeamsProofs.** `TeamsLeaveNothing`: outside a swarm the number of messages in
  an inbox is the number of rounds that await one there, for teams of any size
  and any number of overlapping rounds. It is nearly inductive: a step that sends
  makes one round await, a step that receives ends one awaiting, and no round
  leaves by an error while it awaits, because the count says its inbox is not
  empty. `TeamsAnswerTheirOwn`, `MarketTakesTheLowestBid` and `SwarmHearsThemAll` are
  about rounds that overlap with no other. With `TeamsLeaveNothing` such a round's
  inboxes hold its own mail only (a swarm's excepted), and `SoloInv` says for each
  paradigm what it has gathered so far: the reports of the children before the one it
  waits for, the best of the bids tallied, the proposals whose broadcast has reached
  the first peer.
* **GatewayProofs.** `GatewayOneAtATime` and `GatewayLedger`. The invariant adds
  `Linked` (whatever a table, a request or a queue refers to is there, and a request
  stands in the queue of the agent it waits for or works with) and, for each
  agent, `Accounts`: what is spent, and that the reservation of the request at work
  was taken within the budget, so that the settlement gives back all of it.
  `GatewayOneHistory` adds `History`: no agent is younger than the last one spawned; a
  gateway that answered still has, under that id, the agent that answered or a younger
  one, its trail no shorter and no more left of its grant than the answer told; and a
  request that queues or works is at an agent no older than those of the answers it
  follows. Only agents that grow and younger ones that replace them keep this true.
* **MigrationProofs.** `NoVmIsOrphaned` is inductive with the types: nothing but a
  spawn puts a Firecracker where none was, and a spawn comes with a handle; a handle is
  let go only where its VM is killed. `AgentsGoOn`, `CutoverKeepsTheAgent` and
  `AcceptedMeansHosted` come from one inductive invariant, `Inv`, since what a program
  may do next depends on what became of its last call. Its parts: `Called` (a call is made by
  the step under way, and only its request awaits a reply), `Ended` (a program that is
  over has no call and, the host mode excepted, no VM), `Fresh` (a VM still to be sent a
  package has seen none, but for earlier tries with that very one), `Carried` (the agent
  of a VM, and each deployment in its queue, comes from the package last sent to it),
  `Prepared` and `Restarted` (the steps that are left come in an order that the program
  has the package or the snapshot for, and a process acts right after its restore),
  `Shipped` (what is on its way to a node is what the program holds and what is
  hosted) and `Moved` (how far `fcMigrate` has come, and which VMs run the agent and are
  not asked to shut down at that point). The
  rest is one lemma per step of a program.
* **SimulatorProofs.** `MasksAlwaysAgree`, `VerdictsAlwaysAddUp`,
  `BaselineAlwaysSurvives` and `RungsAreAlwaysEarned`. A plan is applied decision by
  decision by a recursive function, and what a plan does is induction along its course
  (`Along`, again from the least element of a set of naturals). Along a learned plan the
  agents whose turn is still to come are as they were observed (`LearnedCourse`), so what
  the policy held legal is legal; along the baseline's plan, `Treated` says of each agent
  what the places passed so far have made of it: healed, fed, moved last of all. At the
  end nobody is down, and whoever is not busy can pay for a unit of work (`Tended`), so
  the survival floor holds. The rest of the invariant: nothing is there to judge until
  the update lands (`Unlanded`), a mechanism keeps busy only an agent that is up and only
  for its tick (`Idle`), and the scorecard is fit exactly when the history variable says
  that nothing was breached (`Truthful`).
* **SubstrateProofs.** `ColumnsAlwaysAddUp` and `PricesStayFinal`: the columns of the
  ledger are totals of sequences, and a total is where a running sum ends. One sample
  more raises the column of its agent and operation by its cost, whether it is charged
  to an entry or kept apart (`ChargesAddUp`); along a batch, `Carried` says what the
  samples so far have made of the ledger: the same entries, those of earlier batches
  untouched, every column grown by just those samples. Induction along a batch is by
  least elements again (`Along`). `FloorAlwaysAgrees`: the floor in force is always
  the one of the tokens held (`FloorIsCurrent`), and compiling is compared with
  what tokens cover case by case: a call that a token covers makes only system calls
  that the token warrants (`CoveredIsWarranted`), and a group that some token
  warrants is made by some call that it covers (`WarrantedIsCovered`). What the gate
  admits is covered, whatever the verifier adds.

The assumptions say what the constants are: numbers within a u64, sets that are not
empty, finitely many nodes and agents (a `HashMap` holds no more), policies whose
decisions are decisions, and a value that stands for "none" being no member of what it
is told from (`NotTracked` no history, `NotRegistered` no record, `None` no call record
or leader of an auction). Two assumptions of `Substrate` say what the deny floor relies
on: `FootprintAssumption`, which operations make which groups of system calls, as the
comments of `substrate/src/policy.rs` give them; and `CoverageAssumption`, that each
such call may occur on each target, and that a scope matches something.

Only model-checked are the liveness properties (`RunTerminates`, both `Takeover`s,
`EveryRequestEnds`, `ProgramsEnd`), which are out of the provers' reach. Every safety
property of the runs is a theorem, but for `RegistryIsFence`, which is false.

## 5. What is not modelled

* **Data.** Signing of tokens, the characters of a glob, serialisation, the checks of
  a manifest against an environment (one outcome: the package fits or does not),
  capture files of the probe and the OCI profile.
* **Floating point.** The training of the policy, its scores, the efficiencies of an
  episode, the baselines and relative gaps of the ledger.
* **Operations without a caller.** `MicroVm::resume`; delegation and revocation of
  capabilities.
* **A host program killed by a signal.** Its handles are not dropped and its
  Firecracker processes stay; nothing in the code finds them again.
* **A TCP peer that vanishes without a word.** A connection of a migration breaks and
  both ends may notice; one that is half open for ever hangs its client, since no
  timeout is set.
* **Costs that differ, in the ledger.** The run samples one cost; the theorems hold for all.
* **The networked transport of messages** (`NetNode`). `Teams` models the in-process
  fabric, which is the one teams run on.
* **Memory, cognition and tools.** Backends; `Agent` and `Gateway` model them as answers
  that succeed or fail, at any cost.
* **The experiments and the examples.** They run the modelled parts and evaluate the
  numbers; what was seen in them is in section 6.

## 6. Where code and documents disagree

* `supervision_fence`: a heartbeat of the superseded instance that arrives after a
  takeover, sent before it or after it by an instance nobody told, makes that instance
  the authority again (`fabric/src/lib.rs:465` against `supervisor.rs:128-131`).

Seen while modelling and not given a run:

* The next report of the running instance overwrites what `reconcile` merged
  (`supervisor.rs:76` and `supervisor.rs:179` against `supervisor.rs:163-165`), so a
  later heal forgets it.
* A swarm's run that failed leaves proposals in the first peer's inbox, and the next
  run fuses them with its own (`fabric/src/lib.rs:947` against
  `fabric/src/lib.rs:925-926`).
* `fabric-node`'s poller may exit between the hosting of an agent and the
  acknowledgement, or give up in the moment one is accepted: in the first case the
  client is told of a failure and keeps its instance, in the second it is told of
  a success and the agent is gone with the process (`fabric-node/src/main.rs:63`).
* The migration between VMs drains its source whether or not the target's health
  check succeeds (`guest-runner/src/main.rs:447`).
* The calls over vsock and the migration over TCP have no timeout. The programs end
  because they only call a guest that serves; a program that called a snapshotted
  VM would hang.
* In the simulator `starved_ticks` is reset by a unit of work only: phases in which
  the agent is busy, throttled or suspected neither count nor interrupt, though its
  doc speaks of consecutive ones. The failure timeline is drawn from a generator
  that a policy's own decisions advance, so two policies do not meet the same one.
* E6 compares the first run with each other one (`substrate/src/experiment/e6.rs`, where
  its comment says that an operation seen in one run and not in another is a
  failure): one seen only in a later run goes unnoticed.
* `AgentState::merge` takes `total` from one side (`agent.rs:162`), and of records of
  one millisecond that agree in their key only the first side's stay, so its result
  depends on the order where totals or such records differ: `agent.rs:156-158` and
  `agent.rs:210` say that it does not. RFC-0005 section 4 says that totals must match;
  a refill (`control.rs:549`) makes them differ, and nothing compares them. A refill
  that the supervisor has not observed is lost by a reconcile.
  `AgentProofs!MergesCommuteExactly` says exactly when the order matters. A merge also
  sorts: of a state that was never merged, merging it with itself may change the order
  of trail and capabilities.
* The deny floor denies the network to an agent without capabilities, though a
  think needs none and its model is reached over the network.
* The deny floor counts a token that has expired or is forged for as long as it is
  held (`substrate/src/policy.rs:149-164`): an agent whose gate refuses all of its calls may
  still have system calls let through.
* `serve_supervisor` reads one connection after another without a timeout
  (`fabric/src/lib.rs:455-462`): a node that stalls while it sends holds up the heartbeats
  of all others. `Supervision!FairSpec` assumes that a connection ends.
* A model that does not answer holds its agent's lock, and with it every request that
  waits for the agent: neither the providers nor the gateway set a timeout.
* A sample that is released in a later batch than its call stays unattributed
  for ever.
* An instance never healed counts its misses in a u32 without saturation
  (`supervisor.rs:106`).
* A capability is verified when a call is issued; it may expire while the call is
  suspended (`agent.rs:397`). Nothing promises otherwise.
* A step of the loop that cannot be afforded is not audited (`agent.rs:515`
  against `agent.rs:505-507`).
* A heal restores the supervisor's checkpoint, not the last committed generation,
  and may run an update that was rolled back (`supervisor.rs:140` against
  `docs/rfcs/0005-multi-instance-ha.md:110-111`). `OnlyHealsRevive` states that
  nothing else does.
* A rollback leaves the agent without tools and verifier (`control.rs:588` against
  `agent.rs:343-345`).
* The join of two spends under-counts when both sides spent since they parted
  (RFC-0005 section 4 and `agent.rs:160` say it never does): the merged trail holds the
  records of both, the merged spend is one of the two (`AgentProofs!MergeUnitesBoth`).
* A migration does not flip the supervisor's registry, as RFC-0005 section 3.4 says
  it does.
* The balance rule may move healthy agents onto a failed node.
* The lead of a hierarchy aggregates and the winner of a market executes without the
  INV-3 check, which `fabric/src/lib.rs:523` says every paradigm shares.
* `spawn` does not ask the directory: an agent spawned at a gateway that has placed
  its id on a peer cannot be reached there.
* A swarm's broadcasts pile up in the inboxes of all peers but the first.

## 7. Plan

Written so far, in the order of importance: the agent's gate and accounts; the
self-update history and its promise; supervision, late heartbeats included; the
fleet; the governor, with its blast radius and its metering proved; the heuristic;
teams; the gateways; the programs that move an agent between VMs, files and nodes;
the gate and the ramp of the learned policy; the ledger and the deny floor; the merge
of checkpoints. The safety properties of all of them are proved. Left, in order:

1. `Fleet` as an implementation of `SelfUpdate`'s promise, agent by agent, where heals
   do not intervene.
2. The merge inside `Supervision`, with refills and records that share a key.
3. The networked transport of messages.

Runs stay few and small, one for each question, with bounds of two or three nodes,
agents, messages or requests.
