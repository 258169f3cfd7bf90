------------------------------- MODULE Gateway -------------------------------
(***************************************************************************)
(* The HTTP gateways of a cluster (api/src/lib.rs) under concurrent        *)
(* requests.  A gateway admits a request, sends it on to the peer where    *)
(* the agent is placed, or looks the agent up in its table and waits for   *)
(* the agent's lock; the agent is driven under the lock, one request at a  *)
(* time.  A client may disconnect where its handler awaits: the handler is *)
(* dropped there and its lock released.                                    *)
(*                                                                         *)
(* think stands for the requests whose backend is awaited under the lock   *)
(* (think and invoke), remember for those whose backend answers at once    *)
(* (remember and recall), status for those that only read (status, audit   *)
(* and events).  A spawned agent is live and is granted what these ask, so *)
(* of act's gates only the budget can refuse.  Clients follow a redirect.  *)
(***************************************************************************)
EXTENDS AttentionBudget, Sequences, FiniteSets

CONSTANTS
    Node,            \* gateways
    Id,              \* agent ids
    Guarded,         \* the gateways that require a capability
    Grants,          \* budgets a spawn may ask for
    Costs,           \* costs a request may declare
    Actuals,         \* costs a backend may answer with
    MaxRequests,     \* bound: requests ever made
    MaxHops,         \* the redirects a client follows
    MaxCalls,        \* bound: calls the operators of the gateways make
    None             \* no agent, no gateway, no reply

ASSUME GatewayAssumption ==
    /\ Guarded \subseteq Node
    /\ Grants \subseteq Tokens
    /\ Costs \subseteq Tokens /\ Actuals \subseteq Tokens
    /\ MaxRequests \in Nat /\ MaxHops \in Nat /\ MaxCalls \in Nat
    /\ None \notin Node \cup Nat

\* Requests are numbered in the order in which they are made, and an agent has
\* the number of the request that spawned it.
Request == 1 .. MaxRequests

VARIABLES
    agents,      \* agents[n][id]: the agent gateway n has under id, or None
    directory,   \* directory[n][id]: the peer where n has placed id, or None
    peers,       \* peers[n]: the peers whose address n knows
    agent,       \* agent[h]: the state of the agent spawned by h
    req,         \* req[r]: where request r is
    calls        \* calls the operators have made

vars == <<agents, directory, peers, agent, req, calls>>

Ops == {"spawn", "think", "remember", "status"}

\* An agent: the spawn that made it, by order; its budget; its audit trail, by
\* its length and what it bills; the lock's queue, whose head holds the lock;
\* and as history what handlers dropped at work had reserved.
NoAgent == [born |-> 0, budget |-> NewBudget(0), records |-> 0, billed |-> 0,
            queue |-> <<>>, lost |-> 0]

\* A request; before: as history, the requests answered when it was made.
Unmade == [pc |-> "unmade", at |-> None, id |-> None, op |-> "status", cost |-> 0,
           hops |-> 0, to |-> None, reply |-> None,
           before |-> {}]

\* The gateways begin to serve when some of them have been told of each other.
Init ==
    /\ agents = [n \in Node |-> [id \in Id |-> None]]
    /\ directory = [n \in Node |-> [id \in Id |-> None]]
    /\ peers \in {p \in [Node -> SUBSET Node] : \A n \in Node : n \notin p[n]}
    /\ agent = [h \in Request |-> NoAgent]
    /\ req = [r \in Request |-> Unmade]
    /\ calls = 0

Ended(r) == req[r].pc \in {"answered", "failed"}
Answered == {r \in Request : req[r].pc = "answered"}
Spawned  == {h \in Request : agent[h].born # 0}

\* A reply of an agent: which agent, and its state.  Some handlers report only the
\* trail or only what is left; all are taken to report both.
Report(h, a) == [agent |-> h, records |-> a.records, left |-> Remaining(a.budget)]

Reply(r, reply) ==
    [req EXCEPT ![r] = [Unmade EXCEPT !.pc = "answered", !.at = req[r].at,
                                      !.id = req[r].id, !.reply = reply,
                                      !.before = req[r].before]]
Error(r) == [req EXCEPT ![r] = [Unmade EXCEPT !.pc = "failed"]]

----------------------------------------------------------------------------
\* The operator of a gateway.

RegisterPeer(n, m) ==
    /\ calls < MaxCalls
    /\ peers' = [peers EXCEPT ![n] = @ \cup {m}]
    /\ calls' = calls + 1
    /\ UNCHANGED <<agents, directory, agent, req>>

PlaceRemote(n, id, m) ==
    /\ calls < MaxCalls
    /\ directory' = [directory EXCEPT ![n][id] = m]
    /\ calls' = calls + 1
    /\ UNCHANGED <<agents, peers, agent, req>>

----------------------------------------------------------------------------
\* From the door to the agent.

\* A client makes a request to some gateway.
Arrive(r) ==
    /\ req[r].pc = "unmade"
    /\ \A q \in Request : q < r => req[q].pc # "unmade"
    /\ \E n \in Node, id \in Id, op \in Ops, cost \in Costs :
         req' = [req EXCEPT ![r] =
                   [Unmade EXCEPT !.pc = "door", !.at = n, !.id = id, !.op = op,
                                  !.cost = cost, !.before = Answered]]
    /\ UNCHANGED <<agents, directory, peers, agent, calls>>

\* admit: a guarded gateway refuses a request whose token is missing or does not
\* cover the agent.  Which requests these are is not told apart.
Refuse(r) ==
    /\ req[r].pc = "door"
    /\ req[r].at \in Guarded
    /\ req' = Error(r)
    /\ UNCHANGED <<agents, directory, peers, agent, calls>>

\* Mutant: an agent that is there keeps its place.
SpawnKeepsOld(r) ==
    LET n == req[r].at
        id == req[r].id
    IN
    /\ req[r].pc = "door"
    /\ req[r].op = "spawn"
    /\ \E grant \in Grants :
         LET a == [NoAgent EXCEPT !.born = Cardinality(Spawned) + 1,
                                  !.budget = NewBudget(grant)]
         IN  /\ agent' = [agent EXCEPT ![r] = a]
             /\ req' = Reply(r, Report(r, a))
    /\ agents' = [agents EXCEPT ![n][id] = IF @ = None THEN r ELSE @]
    /\ UNCHANGED <<directory, peers, calls>>

\* spawn puts a new, live agent in the table, over any that was there.
Spawn(r) ==
    /\ req[r].pc = "door"
    /\ req[r].op = "spawn"
    /\ \E grant \in Grants :
         LET a == [NoAgent EXCEPT !.born = Cardinality(Spawned) + 1,
                                  !.budget = NewBudget(grant)]
         IN  /\ agent' = [agent EXCEPT ![r] = a]
             /\ req' = Reply(r, Report(r, a))
    /\ agents' = [agents EXCEPT ![req[r].at][req[r].id] = r]
    /\ UNCHANGED <<directory, peers, calls>>

\* locate: a placement on a peer wins over the table.
AskDirectory(r) ==
    LET to == directory[req[r].at][req[r].id] IN
    /\ req[r].pc = "door"
    /\ req[r].op # "spawn"
    /\ req' = [req EXCEPT ![r].pc = IF to = None THEN "table" ELSE "peer",
                          ![r].to = to]
    /\ UNCHANGED <<agents, directory, peers, agent, calls>>

\* The client is redirected to the peer and asks there, until it has had enough;
\* without the peer's address there is no route.
Redirect(r) ==
    /\ req[r].pc = "peer"
    /\ req' = IF req[r].to \in peers[req[r].at] /\ req[r].hops < MaxHops
              THEN [req EXCEPT ![r].pc = "door", ![r].at = req[r].to,
                               ![r].to = None, ![r].hops = @ + 1]
              ELSE Error(r)
    /\ UNCHANGED <<agents, directory, peers, agent, calls>>

\* The handler takes the agent from the table and queues for its lock.
Lookup(r) ==
    LET h == agents[req[r].at][req[r].id] IN
    /\ req[r].pc = "table"
    /\ IF h = None
       THEN req' = Error(r) /\ UNCHANGED agent
       ELSE /\ req' = [req EXCEPT ![r].pc = "queued", ![r].to = h]
            /\ agent' = [agent EXCEPT ![h].queue = Append(@, r)]
    /\ UNCHANGED <<agents, directory, peers, calls>>

----------------------------------------------------------------------------
\* Under the lock.

Released(a) == [a EXCEPT !.queue = Tail(@)]

\* A queue that someone left, from wherever it stood.
Without(queue, r) ==
    LET k == CHOOSE i \in 1 .. Len(queue) : queue[i] = r
    IN  [i \in 1 .. Len(queue) - 1 |-> IF i < k THEN queue[i] ELSE queue[i + 1]]

\* record appends to the audit trail.
Recorded(a, cost) == [a EXCEPT !.records = @ + 1, !.billed = @ + cost]

\* Mutant: nobody waits for a turn.
HasLockAtOnce(r) == req[r].pc = "queued"

\* Whether r's turn with the agent it waits for has come.
HasLock(r) == req[r].pc = "queued" /\ Head(agent[req[r].to].queue) = r

ReadStatus(r) ==
    LET h == req[r].to IN
    /\ HasLock(r)
    /\ req[r].op = "status"
    /\ req' = Reply(r, Report(h, agent[h]))
    /\ agent' = [agent EXCEPT ![h] = Released(@)]
    /\ UNCHANGED <<agents, directory, peers, calls>>

\* act refuses what the budget does not cover, and says so in the trail.
Unaffordable(r) ==
    LET h == req[r].to IN
    /\ HasLock(r)
    /\ req[r].op \in {"think", "remember"}
    /\ ~CanCharge(agent[h].budget, req[r].cost)
    /\ req' = Error(r)
    /\ agent' = [agent EXCEPT ![h] = Released(Recorded(@, 0))]
    /\ UNCHANGED <<agents, directory, peers, calls>>

\* act on a backend that answers at once, with what was declared or an error.
Remember(r) ==
    LET h == req[r].to
        cost == req[r].cost
        a == agent[h]
        charged == [a EXCEPT !.budget = Charge(@, cost)]
        Settled(actual) ==
            Recorded([charged EXCEPT !.budget = Settle(@, cost, actual)], actual)
    IN
    /\ HasLock(r)
    /\ req[r].op = "remember"
    /\ CanCharge(a.budget, cost)
    /\ \/ /\ req' = Reply(r, Report(h, Settled(cost)))
          /\ agent' = [agent EXCEPT ![h] = Released(Settled(cost))]
       \/ /\ req' = Error(r)
          /\ agent' = [agent EXCEPT ![h] = Released(Settled(0))]
    /\ UNCHANGED <<agents, directory, peers, calls>>

\* act charges the declared cost and awaits the model.
Think(r) ==
    LET h == req[r].to IN
    /\ HasLock(r)
    /\ req[r].op = "think"
    /\ CanCharge(agent[h].budget, req[r].cost)
    /\ req' = [req EXCEPT ![r].pc = "acting"]
    /\ agent' = [agent EXCEPT ![h].budget = Charge(@, req[r].cost)]
    /\ UNCHANGED <<agents, directory, peers, calls>>

\* Mutant: the reply is made up before the cost is settled, and the surplus
\* forgotten.
CompleteUnsettled(r) ==
    LET h == req[r].to IN
    /\ req[r].pc = "acting"
    /\ \E actual \in Actuals :
         LET a == Recorded(agent[h], actual)
         IN  /\ req' = Reply(r, Report(h, a))
             /\ agent' = [agent EXCEPT ![h] = Released(a)]
    /\ UNCHANGED <<agents, directory, peers, calls>>

\* The model answers, and the reservation is settled to what it cost.
Complete(r) ==
    LET h == req[r].to IN
    /\ req[r].pc = "acting"
    /\ \E actual \in Actuals :
         LET a == Recorded([agent[h] EXCEPT
                              !.budget = Settle(@, req[r].cost, actual)], actual)
         IN  /\ req' = Reply(r, Report(h, a))
             /\ agent' = [agent EXCEPT ![h] = Released(a)]
    /\ UNCHANGED <<agents, directory, peers, calls>>

\* The model fails, and the reservation is refunded.
Refund(r) ==
    LET h == req[r].to IN
    /\ req[r].pc = "acting"
    /\ req' = Error(r)
    /\ LET a == Recorded([agent[h] EXCEPT !.budget = Settle(@, req[r].cost, 0)], 0)
       IN  agent' = [agent EXCEPT ![h] = Released(a)]
    /\ UNCHANGED <<agents, directory, peers, calls>>

\* Mutant: a handler that is dropped keeps its place in the queue.
DisconnectKeepsPlace(r) ==
    /\ req[r].pc \in {"queued", "acting"}
    /\ req' = Error(r)
    /\ UNCHANGED <<agents, directory, peers, agent, calls>>

\* The client disconnects, and its handler is dropped where it awaits the lock
\* or the model: it leaves the queue, and what it reserved stays charged.
Disconnect(r) ==
    LET h == req[r].to
        reserved == IF req[r].pc = "acting" THEN req[r].cost ELSE 0
    IN
    /\ req[r].pc \in {"queued", "acting"}
    /\ req' = Error(r)
    /\ agent' = [agent EXCEPT ![h].queue = Without(@, r),
                              ![h].lost = @ + reserved]
    /\ UNCHANGED <<agents, directory, peers, calls>>

----------------------------------------------------------------------------
\* What a handler does once its request is made.
Handle(r) ==
    \/ Refuse(r) \/ Spawn(r) \/ AskDirectory(r) \/ Redirect(r) \/ Lookup(r)
    \/ ReadStatus(r) \/ Unaffordable(r) \/ Remember(r) \/ Think(r)
    \/ Complete(r) \/ Refund(r)

\* Every request has been made and has ended.
Rest ==
    /\ \A r \in Request : Ended(r)
    /\ UNCHANGED vars

Next ==
    \/ \E r \in Request : Arrive(r) \/ Handle(r) \/ Disconnect(r)
    \/ \E n \in Node : \E m \in Node \ {n} :
         RegisterPeer(n, m) \/ (\E id \in Id : PlaceRemote(n, id, m))
    \/ Rest

Spec == Init /\ [][Next]_vars

\* A handler that can go on is polled again.  That every model answers or fails in
\* the end is an assumption on the backends: neither provider sets a timeout, and
\* a silent one keeps the lock of its agent, and every request queued for it, for
\* ever.  No client has to disconnect.
FairSpec == Spec /\ \A r \in Request : WF_vars(Handle(r))

----------------------------------------------------------------------------
\* Properties.

Reports == [agent : Request, records : Nat, left : Tokens]

AgentTypes ==
    [born : Nat, budget : AttentionBudgets, records : Nat, billed : Nat,
     queue : Seq(Request), lost : Nat]

RequestTypes ==
    [pc : {"unmade", "door", "peer", "table", "queued", "acting", "answered",
           "failed"},
     at : Node \cup {None}, id : Id \cup {None}, op : Ops, cost : Costs \cup {0},
     hops : 0 .. MaxHops, to : Node \cup Request \cup {None},
     reply : Reports \cup {None}, before : SUBSET Request]

\* The types of the variables.
TypeOK ==
    /\ agents \in [Node -> [Id -> Request \cup {None}]]
    /\ directory \in [Node -> [Id -> Node \cup {None}]]
    /\ peers \in [Node -> SUBSET Node]
    /\ agent \in [Request -> AgentTypes]
    /\ req \in [Request -> RequestTypes]
    /\ calls \in 0 .. MaxCalls

\* What the request that is at work with agent h has reserved.
ActingOn(h) == {r \in Request : req[r].pc = "acting" /\ req[r].to = h}
Reserved(h) == IF ActingOn(h) = {} THEN 0
               ELSE req[CHOOSE r \in ActingOn(h) : TRUE].cost

\* However requests queue, fail and are dropped, what an agent has spent is what
\* its trail bills, what dropped handlers had reserved, and what the one request
\* at work has reserved.
LedgerAddsUp ==
    \A h \in Spawned :
      agent[h].budget.spent =
        Saturate(agent[h].billed + agent[h].lost + Reserved(h))

\* One agent is driven by one request at a time, which is at the head of its
\* queue, also after others were dropped from it.
OneAtATime ==
    \A h \in Request : \A r \in ActingOn(h) :
      agent[h].queue # <<>> /\ Head(agent[h].queue) = r

\* Clients observe one history.  A request made after another was answered,
\* for the same id at the same gateway, is answered by the same agent or a
\* younger one; and if by the same, it sees no shorter trail and no more budget
\* left than the earlier answer told, also when a call was refunded meanwhile.
OneHistory ==
    \A q \in Answered : \A r \in req[q].before :
      req[q].at = req[r].at /\ req[q].id = req[r].id =>
        LET earlier == req[r].reply
            later == req[q].reply
        IN  /\ agent[earlier.agent].born <= agent[later.agent].born
            /\ earlier.agent = later.agent =>
                 earlier.records <= later.records /\ earlier.left >= later.left

\* As long as the models answer or fail, every request ends, however many others
\* queue for the same agent and are dropped, and wherever the gateways send it:
\* requests are finitely many, and from some time on each that was made has ended.
EveryRequestEnds == <>[](\A r \in Request : req[r].pc # "unmade" => Ended(r))

=============================================================================
