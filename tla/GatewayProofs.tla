---------------------------- MODULE GatewayProofs ----------------------------
(***************************************************************************)
(* Proofs about gateways: any number of them, of agents and of requests,   *)
(* any costs.  The types; that one request at a time drives an agent; that *)
(* the ledger of every agent adds up; and that clients see one history.    *)
(***************************************************************************)
EXTENDS Gateway, FiniteSetTheorems, TLAPS

\* Where r stands in the queue of h.
Queues(r, h) == \E k \in 1 .. Len(agent[h].queue) : agent[h].queue[k] = r

\* An agent is in a table only if it was spawned, by a request that is over; and
\* a request that waits for an agent or works with it is in its queue.
Linked ==
    /\ \A n \in Node, id \in Id :
         agents[n][id] # None => agents[n][id] \in Request
                                 /\ agent[agents[n][id]].born # 0
    /\ \A h \in Request :
         IF agent[h].born = 0 THEN agent[h] = NoAgent
         ELSE req[h].pc = "answered"
    /\ \A r \in Request :
         /\ req[r].pc \in {"door", "peer", "table"} => req[r].at \in Node
                                                       /\ req[r].id \in Id
         /\ req[r].pc = "peer" => req[r].to \in Node
         /\ req[r].pc \in {"queued", "acting"} =>
              req[r].to \in Request /\ agent[req[r].to].born # 0
              /\ Queues(r, req[r].to)

\* What is known of the accounts of agent h.
Accounts(h) ==
    /\ agent[h].budget.spent =
         Saturate(agent[h].billed + agent[h].lost + Reserved(h))
    /\ \A r \in ActingOn(h) :
         req[r].cost = 0 \/ agent[h].billed + agent[h].lost + req[r].cost <= MaxTokens

Inv == TypeOK /\ Linked /\ OneAtATime /\ (\A h \in Request : Accounts(h))

----------------------------------------------------------------------------
\* Budgets.

\* The arithmetic of a u64.
LEMMA SaturateType ==
  ASSUME NEW n \in Int
  PROVE  /\ Saturate(n) \in Tokens
         /\ n \in Tokens => Saturate(n) = n
  BY MaxTokensAssumption DEF Saturate, Tokens

\* Budgets stay budgets.
LEMMA BudgetTypes ==
  ASSUME NEW b \in AttentionBudgets, NEW cost \in Tokens, NEW actual \in Tokens
  PROVE  /\ Remaining(b) \in Tokens
         /\ CanCharge(b, cost) => Charge(b, cost) \in AttentionBudgets
         /\ Settle(b, cost, actual) \in AttentionBudgets
         /\ Settle(b, cost, 0) \in AttentionBudgets
  <1>1. b.total \in Tokens /\ b.spent \in Tokens /\ 0 \in Tokens
    BY MaxTokensAssumption DEF AttentionBudgets, Tokens
  <1>2. Remaining(b) \in Tokens
    <2>1. b.total - b.spent \in Int
      BY <1>1 DEF Tokens
    <2>2. QED
      BY <2>1, SaturateType DEF Remaining
  <1>3. \A a \in Tokens : Settle(b, cost, a) \in AttentionBudgets
    <2> TAKE a \in Tokens
    <2>1. b.spent \in Int /\ a \in Int /\ cost \in Int
      BY <1>1 DEF Tokens
    <2>2. Saturate(b.spent + a - cost) \in Tokens
      BY <2>1, SaturateType
    <2>3. QED
      BY <2>2 DEF Settle, AttentionBudgets
  <1>4. CanCharge(b, cost) => Charge(b, cost) \in AttentionBudgets
    <2>1. ASSUME CanCharge(b, cost) PROVE b.spent + cost \in Tokens
      BY <1>1, <2>1, MaxTokensAssumption DEF CanCharge, Remaining, Saturate, Tokens
    <2>2. QED
      BY <2>1 DEF Charge, AttentionBudgets
  <1>5. QED
    BY <1>1, <1>2, <1>3, <1>4

\* A charge reserves: the spend is what was accounted for plus the cost, which
\* is covered unless it is nothing.
LEMMA ChargeReserves ==
  ASSUME NEW b \in AttentionBudgets, NEW cost \in Tokens, NEW sum \in Nat,
         b.spent = Saturate(sum), CanCharge(b, cost)
  PROVE  /\ Charge(b, cost).spent = Saturate(sum + cost)
         /\ cost = 0 \/ sum + cost <= MaxTokens
  BY MaxTokensAssumption
     DEF AttentionBudgets, Tokens, CanCharge, Remaining, Charge, Saturate

\* A settlement turns what was reserved into what it cost.
LEMMA SettleAccounts ==
  ASSUME NEW b \in AttentionBudgets, NEW cost \in Tokens, NEW sum \in Nat,
         NEW actual \in Tokens,
         b.spent = Saturate(sum + cost), cost = 0 \/ sum + cost <= MaxTokens
  PROVE  Settle(b, cost, actual).spent = Saturate(sum + actual)
  BY MaxTokensAssumption DEF AttentionBudgets, Tokens, Settle, Saturate

----------------------------------------------------------------------------
\* Queues.

\* Who is left in a queue that somebody left.
LEMMA WithoutQueue ==
  ASSUME NEW q \in Seq(Request), NEW r \in Request,
         \E i \in 1 .. Len(q) : q[i] = r
  PROVE  /\ Without(q, r) \in Seq(Request)
         /\ \A p \in Request : p # r /\ (\E i \in 1 .. Len(q) : q[i] = p) =>
              \E i \in 1 .. Len(Without(q, r)) : Without(q, r)[i] = p
         /\ q[1] # r => Without(q, r) # <<>> /\ Head(Without(q, r)) = q[1]
  <1> DEFINE k == CHOOSE i \in 1 .. Len(q) : q[i] = r
             w == [i \in 1 .. Len(q) - 1 |-> IF i < k THEN q[i] ELSE q[i + 1]]
  <1>1. k \in 1 .. Len(q) /\ q[k] = r /\ Len(q) \in Nat
    OBVIOUS
  <1>2. Without(q, r) = w
    BY DEF Without
  <1> HIDE DEF k
  <1>3. \A i \in 1 .. Len(q) - 1 : w[i] \in Request
    BY <1>1
  <1>4. w \in Seq(Request) /\ Len(w) = Len(q) - 1
    BY <1>1, <1>3
  <1>5. ASSUME NEW p \in Request, p # r, NEW i \in 1 .. Len(q), q[i] = p
        PROVE  \E j \in 1 .. Len(w) : w[j] = p
    <2> HIDE DEF w
    <2>0. /\ Len(w) = Len(q) - 1
          /\ \A j \in 1 .. Len(q) - 1 : w[j] = IF j < k THEN q[j] ELSE q[j + 1]
      BY <1>4 DEF w
    <2>1. CASE i < k
      <3>1. i \in 1 .. Len(w) /\ w[i] = p
        BY <1>1, <2>0, <1>5, <2>1
      <3>2. QED
        BY <3>1
    <2>2. CASE i > k
      <3>1. i - 1 \in 1 .. Len(w) /\ w[i - 1] = p
        BY <1>1, <2>0, <1>5, <2>2
      <3>2. QED
        BY <3>1
    <2>3. i # k
      BY <1>1, <1>5
    <2>4. i \in Int /\ k \in Int
      BY <1>1
    <2>5. QED
      BY <2>1, <2>2, <2>3, <2>4
  <1>6. q[1] # r => w # <<>> /\ Head(w) = q[1]
    <2> SUFFICES ASSUME q[1] # r PROVE w # <<>> /\ Head(w) = q[1]
      OBVIOUS
    <2>1. k > 1 /\ 1 \in 1 .. Len(w)
      BY <1>1, <1>4
    <2>2. w[1] = q[1]
      BY <1>1, <1>4, <2>1
    <2>3. QED
      BY <1>4, <2>1, <2>2
  <1>7. QED
    BY <1>2, <1>4, <1>5, <1>6

\* Who is left in a queue whose head is served.
LEMMA TailQueue ==
  ASSUME NEW q \in Seq(Request), q # <<>>
  PROVE  /\ Tail(q) \in Seq(Request)
         /\ \A p \in Request : p # Head(q) /\ (\E i \in 1 .. Len(q) : q[i] = p) =>
              \E i \in 1 .. Len(Tail(q)) : Tail(q)[i] = p
  <1>1. Tail(q) \in Seq(Request) /\ Len(Tail(q)) = Len(q) - 1 /\ Len(q) \in Nat
    OBVIOUS
  <1>2. ASSUME NEW p \in Request, p # Head(q), NEW i \in 1 .. Len(q), q[i] = p
        PROVE  \E j \in 1 .. Len(Tail(q)) : Tail(q)[j] = p
    <2>1. i # 1
      BY <1>2
    <2>2. i - 1 \in 1 .. Len(Tail(q)) /\ Tail(q)[i - 1] = p
      BY <1>1, <1>2, <2>1
    <2>3. QED
      BY <2>2
  <1>3. QED
    BY <1>1, <1>2

\* Who is in a queue that somebody joined.
LEMMA AppendQueue ==
  ASSUME NEW q \in Seq(Request), NEW r \in Request
  PROVE  /\ Append(q, r) \in Seq(Request)
         /\ \A p \in Request : p = r \/ (\E i \in 1 .. Len(q) : q[i] = p) =>
              \E i \in 1 .. Len(Append(q, r)) : Append(q, r)[i] = p
         /\ q # <<>> => Append(q, r) # <<>> /\ Head(Append(q, r)) = Head(q)
  <1>1. /\ Append(q, r) \in Seq(Request) /\ Len(Append(q, r)) = Len(q) + 1
        /\ Len(q) \in Nat /\ Append(q, r)[Len(q) + 1] = r
        /\ \A i \in 1 .. Len(q) : Append(q, r)[i] = q[i]
    OBVIOUS
  <1>2. \A i \in 1 .. Len(q) : i \in 1 .. Len(Append(q, r))
    BY <1>1
  <1>3. Len(q) + 1 \in 1 .. Len(Append(q, r))
    BY <1>1
  <1>4. q # <<>> => Append(q, r) # <<>> /\ Head(Append(q, r)) = Head(q)
    BY <1>1
  <1>5. QED
    BY <1>1, <1>2, <1>3, <1>4

----------------------------------------------------------------------------
\* Who is at work.

\* At most the head of its queue is at work with an agent, and its reservation
\* is what is reserved.
LEMMA AtWork ==
  ASSUME OneAtATime, NEW h \in Request
  PROVE  /\ ActingOn(h) = {} => Reserved(h) = 0
         /\ \A r \in ActingOn(h) :
              ActingOn(h) = {r} /\ Reserved(h) = req[r].cost
  <1>1. ASSUME NEW r \in ActingOn(h)
        PROVE  ActingOn(h) = {r}
    BY DEF OneAtATime
  <1>2. ASSUME NEW r \in ActingOn(h)
        PROVE  Reserved(h) = req[r].cost
    BY <1>1, <1>2 DEF Reserved
  <1>3. QED
    BY <1>1, <1>2 DEF Reserved

\* Whoever has the lock of an agent has it alone.
LEMMA LockIsFree ==
  ASSUME Inv, NEW r \in Request, HasLock(r)
  PROVE  ActingOn(req[r].to) = {}
  BY DEF Inv, Linked, OneAtATime, HasLock, ActingOn

\* A step that leaves those at work with an agent alone leaves what they have
\* reserved alone.
LEMMA SameWork ==
  ASSUME NEW h \in Request, ActingOn(h)' = ActingOn(h),
         \A r \in ActingOn(h) : req'[r] = req[r]
  PROVE  Reserved(h)' = Reserved(h)
  <1>1. CASE ActingOn(h) = {}
    BY <1>1 DEF Reserved
  <1>2. CASE ActingOn(h) # {}
    BY <1>2 DEF Reserved
  <1>3. QED
    BY <1>1, <1>2

\* Requests that have ended are well formed.
LEMMA EndedForms ==
  ASSUME TypeOK, NEW r \in Request
  PROVE  /\ Error(r) \in [Request -> RequestTypes]
         /\ Error(r)[r].pc = "failed"
         /\ \A reply \in Reports :
              /\ Reply(r, reply) \in [Request -> RequestTypes]
              /\ Reply(r, reply)[r].pc = "answered"
              /\ \A q \in Request : q # r => Reply(r, reply)[q] = req[q]
         /\ \A q \in Request : q # r => Error(r)[q] = req[q]
  <1>1. req \in [Request -> RequestTypes] /\ 0 \in 0 .. MaxHops
    BY GatewayAssumption DEF TypeOK
  <1>2. [Unmade EXCEPT !.pc = "failed"] \in RequestTypes
    BY <1>1 DEF Unmade, RequestTypes, Ops
  <1>3. ASSUME NEW reply \in Reports
        PROVE  [Unmade EXCEPT !.pc = "answered", !.at = req[r].at,
                              !.id = req[r].id, !.reply = reply,
                              !.before = req[r].before] \in RequestTypes
    BY <1>1 DEF Unmade, RequestTypes, Ops
  <1>4. QED
    BY <1>1, <1>2, <1>3 DEF Error, Reply, Unmade

----------------------------------------------------------------------------
\* The kinds of steps.

\* A step that moves a request which neither waits for an agent nor works with
\* one, and does not make it do so.
LEMMA MoveInv ==
  ASSUME Inv, TypeOK', NEW r \in Request,
         agents' = agents, agent' = agent,
         req[r].pc \notin {"queued", "acting", "answered"},
         req'[r].pc \notin {"queued", "acting"},
         req'[r].pc \in {"door", "peer", "table"} =>
           req'[r].at \in Node /\ req'[r].id \in Id,
         req'[r].pc = "peer" => req'[r].to \in Node,
         \A q \in Request : q # r => req'[q] = req[q]
  PROVE  Inv'
  <1>1. \A h \in Request : ActingOn(h)' = ActingOn(h)
    BY DEF ActingOn
  <1>2. \A h \in Request : Reserved(h)' = Reserved(h)
    <2> TAKE h \in Request
    <2>1. \A q \in ActingOn(h) : req'[q] = req[q]
      BY DEF ActingOn
    <2>2. QED
      BY <1>1, <2>1, SameWork
  <1>3. OneAtATime'
    BY <1>1 DEF Inv, OneAtATime
  <1>4. \A h \in Request : Accounts(h)'
    <2> TAKE h \in Request
    <2>1. \A q \in ActingOn(h) : req'[q] = req[q]
      BY DEF ActingOn
    <2>2. QED
      BY <1>1, <1>2, <2>1 DEF Inv, Accounts
  <1>5. Linked'
    BY DEF Inv, Linked, Queues
  <1>6. QED
    BY <1>3, <1>4, <1>5 DEF Inv

\* A step by which a request leaves the agent it waited for or worked with, and
\* which leaves the accounts of the agent in order.
LEMMA LeaveInv ==
  ASSUME Inv, TypeOK', NEW r \in Request, NEW h \in Request,
         req[r].pc \in {"queued", "acting"}, h = req[r].to,
         agents' = agents, req'[r].pc \in {"answered", "failed"},
         \A q \in Request : q # r => req'[q] = req[q],
         \A g \in Request : g # h => agent'[g] = agent[g],
         agent'[h].born = agent[h].born,
         \A q \in Request : q # r /\ Queues(q, h) => Queues(q, h)',
         \A q \in ActingOn(h) :
           q = r \/ (agent'[h].queue # <<>> /\ Head(agent'[h].queue) = q),
         ActingOn(h) \subseteq {r} =>
           agent'[h].budget.spent = Saturate(agent'[h].billed + agent'[h].lost),
         \/ ActingOn(h) \subseteq {r}
         \/ /\ agent'[h].budget = agent[h].budget
            /\ agent'[h].billed = agent[h].billed
            /\ agent'[h].lost = agent[h].lost
  PROVE  Inv'
  <1>1. \A g \in Request : ActingOn(g)' = ActingOn(g) \ {r}
    BY DEF ActingOn
  <1>2. r \notin ActingOn(h) => ActingOn(h)' = ActingOn(h)
    BY <1>1, ZenonT(40)
  <1>3. \A g \in Request : g # h => ActingOn(g)' = ActingOn(g)
    BY <1>1 DEF ActingOn
  <1>4. \A q \in Request : req[q].pc = "acting" /\ q # r => req'[q] = req[q]
    OBVIOUS
  <1>5. OneAtATime'
    <2> SUFFICES ASSUME NEW g \in Request, NEW q \in ActingOn(g)'
                 PROVE  agent'[g].queue # <<>> /\ Head(agent'[g].queue) = q
      BY DEF OneAtATime
    <2>1. CASE g = h
      BY <1>1, <2>1
    <2>2. CASE g # h
      BY <1>3, <2>2 DEF Inv, OneAtATime
    <2>3. QED
      BY <2>1, <2>2
  <1>6. \A g \in Request : Accounts(g)'
    <2> TAKE g \in Request
    <2>1. CASE g # h
      <3>1. \A q \in ActingOn(g) : req'[q] = req[q]
        BY <1>3, <2>1 DEF ActingOn
      <3>2. Reserved(g)' = Reserved(g)
        BY <1>3, <2>1, <3>1, SameWork
      <3>3. QED
        BY <1>3, <2>1, <3>1, <3>2 DEF Inv, Accounts
    <2>2. CASE g = h /\ ActingOn(h) \subseteq {r}
      <3>1. ActingOn(h)' = {}
        BY <1>1, <2>2
      <3>2. Reserved(h)' = 0
        BY <3>1 DEF Reserved
      <3>3. agent'[h].billed \in Nat /\ agent'[h].lost \in Nat
        BY DEF TypeOK, AgentTypes
      <3>4. QED
        BY <2>2, <3>1, <3>2, <3>3 DEF Accounts
    <2>3. CASE g = h /\ ~(ActingOn(h) \subseteq {r})
      <3>1. r \notin ActingOn(h)
        BY <2>3 DEF Inv, OneAtATime
      <3>2. \A q \in ActingOn(h) : req'[q] = req[q]
        BY <3>1 DEF ActingOn
      <3>3. Reserved(h)' = Reserved(h)
        BY <1>2, <3>1, <3>2, SameWork
      <3>4. QED
        BY <1>2, <2>3, <3>1, <3>2, <3>3 DEF Inv, Accounts
    <2>4. QED
      BY <2>1, <2>2, <2>3
  <1>7. Linked'
    <2>1. agent[h].born # 0 /\ req[h].pc = "answered"
      BY DEF Inv, Linked
    <2>2. \A g \in Request : agent'[g].born = agent[g].born
      OBVIOUS
    <2>3. \A n \in Node, id \in Id :
            agents'[n][id] # None => agents'[n][id] \in Request
                                     /\ agent'[agents'[n][id]].born # 0
      BY <2>2 DEF Inv, Linked
    <2>4. \A g \in Request :
            IF agent'[g].born = 0 THEN agent'[g] = NoAgent
            ELSE req'[g].pc = "answered"
      BY <2>1, <2>2 DEF Inv, Linked
    <2>5. \A q \in Request :
            /\ req'[q].pc \in {"door", "peer", "table"} => req'[q].at \in Node
                                                           /\ req'[q].id \in Id
            /\ req'[q].pc = "peer" => req'[q].to \in Node
      BY DEF Inv, Linked
    <2>6. ASSUME NEW q \in Request, req'[q].pc \in {"queued", "acting"}
          PROVE  /\ req'[q].to \in Request /\ agent'[req'[q].to].born # 0
                 /\ Queues(q, req[q].to)'
      <3>1. q # r /\ req'[q] = req[q]
        BY <2>6
      <3>2. req[q].to \in Request /\ agent[req[q].to].born # 0
            /\ Queues(q, req[q].to)
        BY <2>6, <3>1 DEF Inv, Linked
      <3>3. CASE req[q].to = h
        <4>1. Queues(q, h)'
          BY <3>1, <3>2, <3>3
        <4>2. QED
          BY <2>2, <3>1, <3>2, <3>3, <4>1 DEF Queues
      <3>4. CASE req[q].to # h
        BY <2>2, <3>1, <3>2, <3>4 DEF Queues
      <3>5. QED
        BY <3>3, <3>4
    <2>7. QED
      BY <2>3, <2>4, <2>5, <2>6 DEF Linked
  <1>8. QED
    BY <1>5, <1>6, <1>7 DEF Inv

\* The head of the queue of an agent is answered or fails, and the agent is left
\* with a, whose accounts are in order.
LEMMA FinishInv ==
  ASSUME Inv, NEW r \in Request, NEW h \in Request, NEW a \in AgentTypes,
         req[r].pc \in {"queued", "acting"}, h = req[r].to,
         Head(agent[h].queue) = r,
         \/ req' = Error(r)
         \/ \E reply \in Reports : req' = Reply(r, reply),
         agent' = [agent EXCEPT ![h] = Released(a)],
         a.born = agent[h].born, a.queue = agent[h].queue,
         a.budget.spent = Saturate(a.billed + a.lost),
         UNCHANGED <<agents, directory, peers, calls>>
  PROVE  Inv'
  <1> DEFINE tail == Tail(agent[h].queue)
  <1>1. TypeOK /\ agent[h].queue \in Seq(Request)
    BY DEF Inv, TypeOK, AgentTypes
  <1>2. agent[h].queue # <<>>
    BY DEF Inv, Linked, Queues
  <1>3. /\ tail \in Seq(Request)
        /\ \A q \in Request : q # r /\ Queues(q, h) =>
             \E i \in 1 .. Len(tail) : tail[i] = q
    BY <1>1, <1>2, TailQueue DEF Queues
  <1>4. Released(a) \in AgentTypes /\ Released(a) = [a EXCEPT !.queue = Tail(@)]
    BY <1>3 DEF Released, AgentTypes
  <1>5. /\ agent'[h] = Released(a)
        /\ \A g \in Request : g # h => agent'[g] = agent[g]
    BY <1>1 DEF TypeOK
  <1>6. /\ agent'[h].born = agent[h].born /\ agent'[h].budget = a.budget
        /\ agent'[h].billed = a.billed /\ agent'[h].lost = a.lost
        /\ agent'[h].queue = tail
    BY <1>4, <1>5, ZenonT(40) DEF AgentTypes
  <1>7. /\ req' \in [Request -> RequestTypes]
        /\ req'[r].pc \in {"answered", "failed"}
        /\ \A q \in Request : q # r => req'[q] = req[q]
    <2>1. CASE req' = Error(r)
      BY <1>1, <2>1, EndedForms
    <2>2. ASSUME NEW reply \in Reports, req' = Reply(r, reply)
          PROVE  /\ req' \in [Request -> RequestTypes]
                 /\ req'[r].pc = "answered"
                 /\ \A q \in Request : q # r => req'[q] = req[q]
      BY <1>1, <2>2, EndedForms
    <2>3. QED
      BY <2>1, <2>2
  <1>8. TypeOK'
    BY <1>1, <1>4, <1>7 DEF TypeOK
  <1>9. ActingOn(h) \subseteq {r}
    BY DEF Inv, OneAtATime
  <1>10. \A q \in Request : q # r /\ Queues(q, h) => Queues(q, h)'
    <2> SUFFICES ASSUME NEW q \in Request, q # r, Queues(q, h)
                 PROVE  Queues(q, h)'
      OBVIOUS
    <2>1. \E i \in 1 .. Len(tail) : tail[i] = q
      BY <1>3
    <2> HIDE DEF tail
    <2>2. QED
      BY <1>6, <2>1 DEF Queues
  <1>11. QED
    BY <1>5, <1>6, <1>7, <1>8, <1>9, <1>10, LeaveInv

\* The head of the queue of agent h is answered or fails: the agent is left with
\* a, and its trail, what it bills and what was lost have not shrunk.
Finished(r, h, a) ==
    /\ req[r].pc \in {"queued", "acting"} /\ h = req[r].to
    /\ Head(agent[h].queue) = r
    /\ \/ req' = Error(r)
       \/ Report(h, a) \in Reports /\ req' = Reply(r, Report(h, a))
    /\ agent' = [agent EXCEPT ![h] = Released(a)]
    /\ a.born = agent[h].born /\ a.queue = agent[h].queue
    /\ a.budget.total = agent[h].budget.total
    /\ a.records >= agent[h].records
    /\ a.billed >= agent[h].billed /\ a.lost >= agent[h].lost
    /\ a.budget.spent = Saturate(a.billed + a.lost)
    /\ UNCHANGED <<agents, directory, peers, calls>>

\* A request that is over leaves the queue, and the accounts in order.
LEMMA FinishedInv ==
  ASSUME Inv, NEW r \in Request, NEW h \in Request, NEW a \in AgentTypes,
         Finished(r, h, a)
  PROVE  Inv'
  BY FinishInv DEF Finished

\* A step by which a request joins the queue of an agent.
LEMMA JoinInv ==
  ASSUME Inv, NEW r \in Request, Lookup(r)
  PROVE  Inv'
  <1> DEFINE h == agents[req[r].at][req[r].id]
  <1>1. CASE h = None
    <2>1. UNCHANGED agent /\ req' = Error(r) /\ TypeOK
      BY <1>1, SMTT(30) DEF Lookup, Inv
    <2>2. TypeOK' /\ req'[r].pc = "failed" /\ req[r].pc = "table"
          /\ \A q \in Request : q # r => req'[q] = req[q]
      BY <2>1, EndedForms DEF Lookup, TypeOK
    <2>3. QED
      BY <2>1, <2>2, MoveInv DEF Lookup
  <1>2. CASE h # None
    <2> DEFINE queue == agent[h].queue
    <2>1. /\ req[r].pc = "table" /\ req' = [req EXCEPT ![r].pc = "queued", ![r].to = h]
          /\ agent' = [agent EXCEPT ![h].queue = Append(@, r)]
          /\ UNCHANGED <<agents, directory, peers, calls>>
      BY <1>2, ZenonT(40) DEF Lookup
    <2>2. /\ h \in Request /\ agent[h].born # 0 /\ req[h].pc = "answered"
      BY <1>2, <2>1 DEF Inv, Linked
    <2>3. TypeOK /\ agent[h] \in AgentTypes /\ req[r] \in RequestTypes
      BY <2>2 DEF Inv, TypeOK
    <2> HIDE DEF h
    <2>4. /\ queue \in Seq(Request) /\ Append(queue, r) \in Seq(Request)
          /\ \A p \in Request : p = r \/ Queues(p, h) =>
               \E i \in 1 .. Len(Append(queue, r)) : Append(queue, r)[i] = p
          /\ queue # <<>> => Append(queue, r) # <<>>
                             /\ Head(Append(queue, r)) = Head(queue)
      BY <2>3, AppendQueue DEF AgentTypes, Queues
    <2> HIDE DEF queue
    <2>5. /\ agent'[h] = [agent[h] EXCEPT !.queue = Append(queue, r)]
          /\ \A g \in Request : g # h => agent'[g] = agent[g]
      BY <2>1, <2>2, <2>3 DEF TypeOK, queue
    <2>6. /\ agent'[h] \in AgentTypes
          /\ agent'[h].queue = Append(queue, r)
          /\ agent'[h].born = agent[h].born /\ agent'[h].budget = agent[h].budget
          /\ agent'[h].billed = agent[h].billed /\ agent'[h].lost = agent[h].lost
      BY <2>3, <2>4, <2>5 DEF AgentTypes
    <2>7. /\ req'[r] = [req[r] EXCEPT !.pc = "queued", !.to = h]
          /\ \A q \in Request : q # r => req'[q] = req[q]
      BY <2>1, <2>3 DEF TypeOK
    <2>8. req'[r] \in RequestTypes /\ req'[r].pc = "queued" /\ req'[r].to = h
      BY <2>2, <2>3, <2>7 DEF RequestTypes
    <2>9. TypeOK'
      <3>1. agent' \in [Request -> AgentTypes]
        BY <2>1, <2>3, <2>5, <2>6 DEF TypeOK
      <3>2. req' \in [Request -> RequestTypes]
        BY <2>1, <2>3, <2>7, <2>8 DEF TypeOK
      <3>3. QED
        BY <2>1, <2>3, <3>1, <3>2 DEF TypeOK
    <2>10. \A g \in Request : ActingOn(g)' = ActingOn(g)
      BY <2>1, <2>7, <2>8 DEF ActingOn
    <2>11. OneAtATime'
      <3> SUFFICES ASSUME NEW g \in Request, NEW q \in ActingOn(g)
                   PROVE  agent'[g].queue # <<>> /\ Head(agent'[g].queue) = q
        BY <2>10 DEF OneAtATime
      <3>1. agent[g].queue # <<>> /\ Head(agent[g].queue) = q
        BY DEF Inv, OneAtATime
      <3>2. QED
        BY <2>4, <2>5, <2>6, <3>1 DEF queue
    <2>12. \A g \in Request : Accounts(g)'
      <3> TAKE g \in Request
      <3>1. \A q \in ActingOn(g) : req'[q] = req[q]
        BY <2>1, <2>7 DEF ActingOn
      <3>2. Reserved(g)' = Reserved(g)
        BY <2>10, <3>1, SameWork
      <3>3. Accounts(g)
        BY DEF Inv
      <3>4. QED
        BY <2>5, <2>6, <2>10, <3>1, <3>2, <3>3 DEF Accounts
    <2>13. Linked'
      <3>1. \A g \in Request : agent'[g].born = agent[g].born
        BY <2>5, <2>6
      <3>2. \A n \in Node, id \in Id :
              agents'[n][id] # None => agents'[n][id] \in Request
                                       /\ agent'[agents'[n][id]].born # 0
        BY <2>1, <3>1 DEF Inv, Linked
      <3>3. \A g \in Request :
              IF agent'[g].born = 0 THEN agent'[g] = NoAgent
              ELSE req'[g].pc = "answered"
        <4> TAKE g \in Request
        <4>1. CASE g = h
          BY <2>1, <2>2, <2>6, <2>7, <4>1, ZenonT(40)
        <4>2. CASE g # h
          <5>1. agent'[g] = agent[g] /\ (req[g].pc = "answered" => req'[g] = req[g])
            BY <2>1, <2>5, <2>7, <4>2
          <5>2. IF agent[g].born = 0 THEN agent[g] = NoAgent
                ELSE req[g].pc = "answered"
            BY DEF Inv, Linked
          <5>3. QED
            BY <5>1, <5>2
        <4>3. QED
          BY <4>1, <4>2
      <3>4. \A q \in Request :
              /\ req'[q].pc \in {"door", "peer", "table"} =>
                   req'[q].at \in Node /\ req'[q].id \in Id
              /\ req'[q].pc = "peer" => req'[q].to \in Node
        BY <2>7, <2>8 DEF Inv, Linked
      <3>5. ASSUME NEW q \in Request, req'[q].pc \in {"queued", "acting"}
            PROVE  /\ req'[q].to \in Request /\ agent'[req'[q].to].born # 0
                   /\ \E i \in 1 .. Len(agent'[req'[q].to].queue) :
                        agent'[req'[q].to].queue[i] = q
        <4>1. CASE q = r
          BY <2>2, <2>4, <2>6, <2>8, <4>1
        <4>2. CASE q # r
          <5>1. req'[q] = req[q] /\ req[q].to \in Request
                /\ agent[req[q].to].born # 0 /\ Queues(q, req[q].to)
            BY <2>7, <3>5, <4>2 DEF Inv, Linked
          <5>2. CASE req[q].to = h
            BY <2>4, <2>6, <5>1, <5>2, SMTT(30)
          <5>3. CASE req[q].to # h
            BY <2>5, <5>1, <5>3 DEF Queues
          <5>4. QED
            BY <5>2, <5>3
        <4>3. QED
          BY <4>1, <4>2
      <3>6. QED
        BY <3>2, <3>3, <3>4, <3>5 DEF Linked, Queues
    <2>14. QED
      BY <2>9, <2>11, <2>12, <2>13 DEF Inv
  <1>3. QED
    BY <1>1, <1>2

\* What is known of a request whose turn has come.
LEMMA LockFacts ==
  ASSUME Inv, NEW r \in Request, HasLock(r)
  PROVE  /\ req[r].pc = "queued" /\ Head(agent[req[r].to].queue) = r
         /\ req[r].to \in Request /\ req[r].cost \in Tokens
         /\ agent[req[r].to] \in AgentTypes
         /\ agent[req[r].to].budget.spent =
              Saturate(agent[req[r].to].billed + agent[req[r].to].lost)
  <1>1. /\ req[r].pc = "queued" /\ Head(agent[req[r].to].queue) = r
        /\ req[r].to \in Request /\ req[r] \in RequestTypes
        /\ agent[req[r].to] \in AgentTypes
    BY DEF HasLock, Inv, Linked, TypeOK
  <1>2. req[r].cost \in Costs \cup {0} /\ 0 \in Tokens
    BY <1>1, MaxTokensAssumption DEF RequestTypes, Tokens
  <1>3. Accounts(req[r].to) /\ Reserved(req[r].to) = 0
    BY <1>1, LockIsFree DEF Inv, Reserved
  <1>4. agent[req[r].to].billed \in Nat /\ agent[req[r].to].lost \in Nat
    BY <1>1 DEF AgentTypes
  <1>5. QED
    BY <1>1, <1>2, <1>3, <1>4, GatewayAssumption DEF Accounts

\* What is known of a request at work.
LEMMA WorkFacts ==
  ASSUME Inv, NEW r \in Request, req[r].pc = "acting"
  PROVE  /\ Head(agent[req[r].to].queue) = r
         /\ ActingOn(req[r].to) = {r}
         /\ req[r].to \in Request /\ req[r].cost \in Tokens
         /\ agent[req[r].to] \in AgentTypes
         /\ LET sum == agent[req[r].to].billed + agent[req[r].to].lost IN
            /\ agent[req[r].to].budget.spent = Saturate(sum + req[r].cost)
            /\ req[r].cost = 0 \/ sum + req[r].cost <= MaxTokens
  <1>1. /\ req[r].to \in Request /\ req[r] \in RequestTypes
        /\ agent[req[r].to] \in AgentTypes
    BY DEF Inv, Linked, TypeOK
  <1>2. req[r].cost \in Costs \cup {0} /\ 0 \in Tokens
    BY <1>1, MaxTokensAssumption DEF RequestTypes, Tokens
  <1>3. r \in ActingOn(req[r].to)
    BY DEF ActingOn
  <1>4. ActingOn(req[r].to) = {r} /\ Reserved(req[r].to) = req[r].cost
    BY <1>1, <1>3, AtWork DEF Inv
  <1>5. Head(agent[req[r].to].queue) = r
    BY <1>1, <1>3 DEF Inv, OneAtATime
  <1>6. Accounts(req[r].to)
    BY <1>1 DEF Inv
  <1>7. QED
    BY <1>1, <1>2, <1>3, <1>4, <1>5, <1>6, GatewayAssumption DEF Accounts

\* An agent with new accounts, and what is reported of it.
LEMMA RecordedForms ==
  ASSUME NEW a \in AgentTypes, NEW b \in AttentionBudgets, NEW cost \in Tokens,
         b.spent = Saturate(a.billed + a.lost + cost), NEW h \in Request
  PROVE  LET x == Recorded([a EXCEPT !.budget = b], cost) IN
         /\ x \in AgentTypes /\ x.born = a.born /\ x.queue = a.queue
         /\ x.budget = b /\ x.records >= a.records
         /\ x.billed >= a.billed /\ x.lost >= a.lost
         /\ x.budget.spent = Saturate(x.billed + x.lost)
         /\ Report(h, x) \in Reports /\ Report(h, a) \in Reports
  <1> DEFINE x == Recorded([a EXCEPT !.budget = b], cost)
  <1>1. cost \in Nat
    BY DEF Tokens
  <1>2. /\ x \in AgentTypes /\ x.born = a.born /\ x.queue = a.queue
        /\ x.budget = b /\ x.billed = a.billed + cost /\ x.lost = a.lost
        /\ x.records = a.records + 1
    <2> DEFINE y == [a EXCEPT !.budget = b]
    <2>1. /\ y \in AgentTypes /\ y.born = a.born /\ y.queue = a.queue
          /\ y.budget = b /\ y.billed = a.billed /\ y.lost = a.lost
          /\ y.records = a.records
      BY DEF AgentTypes
    <2> HIDE DEF y
    <2>2. y.records + 1 \in Nat /\ y.billed + cost \in Nat
      BY <1>1, <2>1 DEF AgentTypes
    <2>3. x = [y EXCEPT !.records = @ + 1, !.billed = @ + cost]
      BY DEF Recorded, y
    <2> HIDE DEF x
    <2>4. QED
      BY <2>1, <2>2, <2>3 DEF AgentTypes
  <1>3. a.billed + cost + a.lost = a.billed + a.lost + cost
    BY <1>1 DEF AgentTypes
  <1>4. \A y \in AgentTypes : Report(h, y) \in Reports
    <2> TAKE y \in AgentTypes
    <2>1. y.budget \in AttentionBudgets /\ y.records \in Nat
      BY DEF AgentTypes
    <2>2. Remaining(y.budget) \in Tokens
      BY <2>1, BudgetTypes
    <2>3. QED
      BY <2>1, <2>2 DEF Report, Reports
  <1>5. a.records + 1 >= a.records /\ a.billed + cost >= a.billed /\ a.lost >= a.lost
    BY <1>1 DEF AgentTypes
  <1> HIDE DEF x
  <1>6. QED
    BY <1>2, <1>3, <1>4, <1>5 DEF x

\* Steps that finish a request under the lock.
LEMMA LockedFinish ==
  ASSUME Inv, NEW r \in Request,
         ReadStatus(r) \/ Unaffordable(r) \/ Remember(r)
  PROVE  \E h \in Request, a \in AgentTypes : Finished(r, h, a)
  <1>1. HasLock(r) /\ UNCHANGED <<agents, directory, peers, calls>>
    BY DEF ReadStatus, Unaffordable, Remember
  <1>2. PICK h \in Request, cost \in Tokens, a \in AgentTypes :
          h = req[r].to /\ cost = req[r].cost /\ a = agent[h]
    BY <1>1, LockFacts
  <1>3. /\ req[r].pc = "queued" /\ Head(agent[h].queue) = r
        /\ a.budget.spent = Saturate(a.billed + a.lost)
    BY <1>1, <1>2, LockFacts
  <1>4. /\ a.budget \in AttentionBudgets /\ a.billed \in Nat /\ a.lost \in Nat
        /\ 0 \in Tokens /\ a.billed + a.lost + 0 = a.billed + a.lost
        /\ a = [a EXCEPT !.budget = a.budget]
        /\ a.records >= a.records /\ a.billed >= a.billed /\ a.lost >= a.lost
    BY MaxTokensAssumption, SMTT(30) DEF AgentTypes, Tokens
  <1>5. ASSUME ReadStatus(r) PROVE \E x \in AgentTypes : Finished(r, h, x)
    <2>1. Report(h, a) \in Reports
      BY <1>3, <1>4, RecordedForms
    <2>2. /\ agent' = [agent EXCEPT ![h] = Released(a)]
          /\ req' = Reply(r, Report(h, a))
      BY <1>2, <1>5 DEF ReadStatus
    <2>3. QED
      BY <1>1, <1>2, <1>3, <1>4, <2>1, <2>2 DEF Finished
  <1>6. ASSUME Unaffordable(r) PROVE \E x \in AgentTypes : Finished(r, h, x)
    <2> DEFINE x == Recorded(a, 0)
    <2>1. /\ x \in AgentTypes /\ x.born = a.born /\ x.queue = a.queue
          /\ x.budget = a.budget /\ x.records >= a.records
          /\ x.billed >= a.billed /\ x.lost >= a.lost
          /\ x.budget.spent = Saturate(x.billed + x.lost)
      BY <1>3, <1>4, RecordedForms
    <2>2. agent' = [agent EXCEPT ![h] = Released(x)] /\ req' = Error(r)
      BY <1>2, <1>6 DEF Unaffordable
    <2> HIDE DEF x
    <2>3. QED
      BY <1>1, <1>2, <1>3, <2>1, <2>2 DEF Finished
  <1>7. ASSUME Remember(r) PROVE \E x \in AgentTypes : Finished(r, h, x)
    <2>1. CanCharge(a.budget, cost)
      BY <1>2, <1>7 DEF Remember
    <2> DEFINE b == Charge(a.budget, cost)
               x(actual) == Recorded([a EXCEPT !.budget = Settle(b, cost, actual)],
                                     actual)
    <2>2. b \in AttentionBudgets
      BY <1>4, <2>1, BudgetTypes
    <2>3. /\ b.spent = Saturate(a.billed + a.lost + cost)
          /\ cost = 0 \/ a.billed + a.lost + cost <= MaxTokens
      BY <1>3, <1>4, <2>1, ChargeReserves
    <2>4. ASSUME NEW actual \in Tokens
          PROVE  /\ x(actual) \in AgentTypes
                 /\ x(actual).born = a.born /\ x(actual).queue = a.queue
                 /\ x(actual).budget.total = a.budget.total
                 /\ x(actual).records >= a.records
                 /\ x(actual).billed >= a.billed /\ x(actual).lost >= a.lost
                 /\ x(actual).budget.spent =
                      Saturate(x(actual).billed + x(actual).lost)
                 /\ Report(h, x(actual)) \in Reports
      <3> HIDE DEF b
      <3>1. Settle(b, cost, actual) \in AttentionBudgets
        BY <2>2, BudgetTypes
      <3>2. Settle(b, cost, actual).spent = Saturate(a.billed + a.lost + actual)
        BY <1>4, <2>2, <2>3, SettleAccounts
      <3>3. Settle(b, cost, actual).total = a.budget.total
        BY <1>4, <2>2 DEF Settle, b, Charge, AttentionBudgets
      <3>4. QED
        BY <3>1, <3>2, <3>3, RecordedForms
    <2>5. \A actual :
            Recorded([[a EXCEPT !.budget = Charge(@, cost)]
                        EXCEPT !.budget = Settle(@, cost, actual)], actual)
              = x(actual)
      BY DEF AgentTypes
    <2>6. \/ /\ req' = Reply(r, Report(h, x(cost)))
             /\ agent' = [agent EXCEPT ![h] = Released(x(cost))]
          \/ /\ req' = Error(r)
             /\ agent' = [agent EXCEPT ![h] = Released(x(0))]
      BY <1>2, <1>7, <2>5, ZenonT(40) DEF Remember
    <2> HIDE DEF x
    <2>7. CASE /\ req' = Reply(r, Report(h, x(cost)))
               /\ agent' = [agent EXCEPT ![h] = Released(x(cost))]
      <3>1. Finished(r, h, x(cost))
        BY <1>1, <1>2, <1>3, <2>4, <2>7 DEF Finished
      <3>2. QED
        BY <2>4, <3>1
    <2>8. CASE /\ req' = Error(r)
               /\ agent' = [agent EXCEPT ![h] = Released(x(0))]
      <3>1. Finished(r, h, x(0))
        BY <1>1, <1>2, <1>3, <1>4, <2>4, <2>8 DEF Finished
      <3>2. QED
        BY <1>4, <2>4, <3>1
    <2>9. QED
      BY <2>6, <2>7, <2>8
  <1>8. QED
    BY <1>5, <1>6, <1>7

\* Steps that finish a request at work.
LEMMA WorkFinish ==
  ASSUME Inv, NEW r \in Request, Complete(r) \/ Refund(r)
  PROVE  \E h \in Request, a \in AgentTypes : Finished(r, h, a)
  <1>1. req[r].pc = "acting" /\ UNCHANGED <<agents, directory, peers, calls>>
    BY DEF Complete, Refund
  <1>2. PICK h \in Request, cost \in Tokens, a \in AgentTypes :
          h = req[r].to /\ cost = req[r].cost /\ a = agent[h]
    BY <1>1, WorkFacts
  <1>3. /\ Head(agent[h].queue) = r
        /\ a.budget.spent = Saturate(a.billed + a.lost + cost)
        /\ cost = 0 \/ a.billed + a.lost + cost <= MaxTokens
    BY <1>1, <1>2, WorkFacts
  <1> DEFINE x(actual) ==
               Recorded([a EXCEPT !.budget = Settle(a.budget, cost, actual)], actual)
  <1>4. ASSUME NEW actual \in Tokens
        PROVE  /\ x(actual) \in AgentTypes
               /\ x(actual).born = a.born /\ x(actual).queue = a.queue
               /\ x(actual).budget.total = a.budget.total
               /\ x(actual).records >= a.records
               /\ x(actual).billed >= a.billed /\ x(actual).lost >= a.lost
               /\ x(actual).budget.spent =
                    Saturate(x(actual).billed + x(actual).lost)
               /\ Report(h, x(actual)) \in Reports
    <2>1. a.budget \in AttentionBudgets /\ a.billed + a.lost \in Nat
      BY DEF AgentTypes
    <2>2. Settle(a.budget, cost, actual) \in AttentionBudgets
      BY <2>1, BudgetTypes
    <2>3. Settle(a.budget, cost, actual).spent =
            Saturate(a.billed + a.lost + actual)
      BY <1>3, <2>1, SettleAccounts
    <2>4. Settle(a.budget, cost, actual).total = a.budget.total
      BY <2>1 DEF Settle, AttentionBudgets
    <2>5. QED
      BY <2>2, <2>3, <2>4, RecordedForms
  <1>5. \/ \E actual \in Actuals :
             /\ req' = Reply(r, Report(h, x(actual)))
             /\ agent' = [agent EXCEPT ![h] = Released(x(actual))]
        \/ /\ req' = Error(r)
           /\ agent' = [agent EXCEPT ![h] = Released(x(0))]
    BY <1>2 DEF Complete, Refund
  <1> HIDE DEF x
  <1>6. ASSUME NEW actual \in Actuals,
               req' = Reply(r, Report(h, x(actual))),
               agent' = [agent EXCEPT ![h] = Released(x(actual))]
        PROVE  \E y \in AgentTypes : Finished(r, h, y)
    <2>1. actual \in Tokens
      BY GatewayAssumption
    <2>2. Finished(r, h, x(actual))
      BY <1>1, <1>2, <1>3, <1>4, <1>6, <2>1 DEF Finished
    <2>3. QED
      BY <1>4, <2>1, <2>2
  <1>7. ASSUME req' = Error(r), agent' = [agent EXCEPT ![h] = Released(x(0))]
        PROVE  \E y \in AgentTypes : Finished(r, h, y)
    <2>1. 0 \in Tokens
      BY MaxTokensAssumption DEF Tokens
    <2>2. Finished(r, h, x(0))
      BY <1>1, <1>2, <1>3, <1>4, <1>7, <2>1 DEF Finished
    <2>3. QED
      BY <1>4, <2>1, <2>2
  <1>8. QED
    BY <1>5, <1>6, <1>7

\* A step by which a handler is dropped: it leaves the queue.
LEMMA DisconnectInv ==
  ASSUME Inv, NEW r \in Request, Disconnect(r)
  PROVE  Inv'
  <1>1. req[r].pc \in {"queued", "acting"} /\ req' = Error(r)
        /\ UNCHANGED <<agents, directory, peers, calls>>
    BY DEF Disconnect
  <1>2. TypeOK /\ req[r] \in RequestTypes /\ req[r].to \in Request
        /\ Queues(r, req[r].to)
    BY <1>1 DEF Inv, Linked, TypeOK
  <1>3. req[r].cost \in Nat
    <2>1. req[r].cost \in Costs \cup {0}
      BY <1>2 DEF RequestTypes
    <2>2. \A n \in Tokens : n \in Nat
      BY MaxTokensAssumption DEF Tokens
    <2>3. QED
      BY <2>1, <2>2, GatewayAssumption
  <1>4. PICK h \in Request, reserved \in Nat :
          /\ h = req[r].to
          /\ reserved = IF req[r].pc = "acting" THEN req[r].cost ELSE 0
    BY <1>2, <1>3
  <1>5. agent[h] \in AgentTypes /\ Queues(r, h)
    BY <1>2, <1>4 DEF TypeOK
  <1>6. PICK queue \in Seq(Request) : queue = agent[h].queue
    BY <1>5 DEF AgentTypes
  <1>6a. PICK rest : rest = Without(queue, r)
    OBVIOUS
  <1>7. \E i \in 1 .. Len(queue) : queue[i] = r
    BY <1>5, <1>6 DEF Queues
  <1>8. /\ rest \in Seq(Request)
        /\ \A p \in Request : p # r /\ (\E i \in 1 .. Len(queue) : queue[i] = p) =>
             \E i \in 1 .. Len(rest) : rest[i] = p
        /\ queue[1] # r => rest # <<>> /\ Head(rest) = queue[1]
    BY <1>6, <1>6a, <1>7, WithoutQueue, ZenonT(40)
  <1>9. agent' = [agent EXCEPT ![h].queue = rest, ![h].lost = @ + reserved]
    BY <1>4, <1>6, <1>6a DEF Disconnect
  <1>10. /\ agent'[h] = [agent[h] EXCEPT !.queue = rest, !.lost = @ + reserved]
         /\ \A g \in Request : g # h => agent'[g] = agent[g]
    BY <1>2, <1>9 DEF TypeOK
  <1>11. /\ agent'[h] \in AgentTypes
         /\ agent'[h].queue = rest /\ agent'[h].lost = agent[h].lost + reserved
         /\ agent'[h].born = agent[h].born /\ agent'[h].budget = agent[h].budget
         /\ agent'[h].billed = agent[h].billed
    <2>1. agent[h].lost + reserved \in Nat
      BY <1>5 DEF AgentTypes
    <2>2. QED
      BY <1>5, <1>8, <1>10, <2>1 DEF AgentTypes
  <1>12. /\ req' \in [Request -> RequestTypes] /\ req'[r].pc = "failed"
         /\ \A q \in Request : q # r => req'[q] = req[q]
    BY <1>1, <1>2, EndedForms
  <1>13. TypeOK'
    <2>1. agent' \in [Request -> AgentTypes]
      BY <1>2, <1>9, <1>10, <1>11 DEF TypeOK
    <2>2. QED
      BY <1>1, <1>2, <1>12, <2>1 DEF TypeOK
  <1>14. ASSUME NEW q \in Request, q # r, Queues(q, h)
         PROVE  Queues(q, h)'
    <2>1. \E i \in 1 .. Len(rest) : rest[i] = q
      BY <1>6, <1>8, <1>14 DEF Queues
    <2>2. QED
      BY <1>11, <2>1 DEF Queues
  <1>15. ASSUME NEW q \in ActingOn(h), q # r
         PROVE  rest # <<>> /\ Head(rest) = q
    <2>1. queue # <<>> /\ Head(queue) = q
      BY <1>6 DEF Inv, OneAtATime
    <2>2. QED
      BY <1>8, <1>15, <2>1
  <1>16. agent[h].billed \in Nat /\ agent[h].lost \in Nat
    BY <1>5 DEF AgentTypes
  <1>17. CASE req[r].pc = "acting"
    <2>1. /\ ActingOn(h) = {r} /\ reserved = req[r].cost
          /\ agent[h].budget.spent =
               Saturate(agent[h].billed + agent[h].lost + reserved)
      BY <1>4, <1>17, WorkFacts
    <2>2. agent[h].billed + agent[h].lost + reserved
            = agent[h].billed + (agent[h].lost + reserved)
      BY <1>16
    <2>3. agent'[h].budget.spent = Saturate(agent'[h].billed + agent'[h].lost)
      BY <1>11, <2>1, <2>2
    <2>4. QED
      BY <1>1, <1>4, <1>10, <1>11, <1>12, <1>13, <1>14, <1>15, <2>1, <2>3, LeaveInv
  <1>18. CASE req[r].pc = "queued"
    <2>1. reserved = 0 /\ agent'[h].lost = agent[h].lost
      BY <1>4, <1>11, <1>16, <1>18
    <2>2. ASSUME ActingOn(h) \subseteq {r}
          PROVE  agent'[h].budget.spent =
                   Saturate(agent'[h].billed + agent'[h].lost)
      <3>1. ActingOn(h) = {}
        BY <1>18, <2>2 DEF ActingOn
      <3>2. Accounts(h) /\ Reserved(h) = 0
        BY <3>1 DEF Inv, Reserved
      <3>3. QED
        BY <1>11, <1>16, <2>1, <3>2 DEF Accounts
    <2>3. QED
      BY <1>1, <1>4, <1>10, <1>11, <1>12, <1>13, <1>14, <1>15, <2>1, <2>2, LeaveInv, ZenonT(40)
  <1>19. QED
    BY <1>1, <1>17, <1>18

\* A step by which the request that has the lock of an agent is charged and goes
\* to work.
LEMMA ThinkInv ==
  ASSUME Inv, NEW r \in Request, Think(r)
  PROVE  Inv'
  <1>1. TypeOK /\ req[r] \in RequestTypes /\ req[r].to \in Request
    BY DEF Think, HasLock, Inv, TypeOK, Linked
  <1>2. req[r].cost \in Tokens
    <2>1. req[r].cost \in Costs \cup {0} /\ 0 \in Tokens
      BY <1>1, MaxTokensAssumption DEF RequestTypes, Tokens
    <2>2. QED
      BY <2>1, GatewayAssumption
  <1>3. PICK h \in Request, cost \in Tokens : h = req[r].to /\ cost = req[r].cost
    BY <1>1, <1>2
  <1>4. /\ req[r].pc = "queued" /\ Head(agent[h].queue) = r
        /\ CanCharge(agent[h].budget, cost)
        /\ req' = [req EXCEPT ![r].pc = "acting"]
        /\ agent' = [agent EXCEPT ![h].budget = Charge(@, cost)]
        /\ UNCHANGED <<agents, directory, peers, calls>>
    BY <1>3 DEF Think, HasLock
  <1>5. ActingOn(h) = {}
    BY <1>3, LockIsFree DEF Think
  <1>6. /\ agent[h].born # 0 /\ req[h].pc = "answered" /\ Queues(r, h)
        /\ agent[h] \in AgentTypes
    BY <1>1, <1>3, <1>4 DEF Inv, Linked, TypeOK
  <1>7. PICK sum \in Nat : /\ sum = agent[h].billed + agent[h].lost
                           /\ agent[h].budget.spent = Saturate(sum)
    <2>1. Accounts(h) /\ Reserved(h) = 0
      BY <1>5 DEF Inv, Reserved
    <2>2. agent[h].billed \in Nat /\ agent[h].lost \in Nat
      BY <1>6 DEF AgentTypes
    <2>3. QED
      BY <2>1, <2>2 DEF Accounts
  <1>8. /\ Charge(agent[h].budget, cost) \in AttentionBudgets
        /\ Charge(agent[h].budget, cost).spent = Saturate(sum + cost)
        /\ cost = 0 \/ sum + cost <= MaxTokens
    BY <1>4, <1>6, <1>7, BudgetTypes, ChargeReserves DEF AgentTypes
  <1>9. /\ agent'[h] = [agent[h] EXCEPT !.budget = Charge(@, cost)]
        /\ \A g \in Request : g # h => agent'[g] = agent[g]
    BY <1>1, <1>4 DEF TypeOK
  <1>10. /\ agent'[h] \in AgentTypes
         /\ agent'[h].budget = Charge(agent[h].budget, cost)
         /\ agent'[h].born = agent[h].born /\ agent'[h].queue = agent[h].queue
         /\ agent'[h].billed = agent[h].billed /\ agent'[h].lost = agent[h].lost
    BY <1>6, <1>8, <1>9 DEF AgentTypes
  <1>11. /\ req'[r] = [req[r] EXCEPT !.pc = "acting"]
         /\ \A q \in Request : q # r => req'[q] = req[q]
    BY <1>1, <1>4 DEF TypeOK
  <1>12. /\ req'[r] \in RequestTypes /\ req'[r].pc = "acting"
         /\ req'[r].to = h /\ req'[r].cost = cost
    BY <1>1, <1>3, <1>11 DEF RequestTypes
  <1>13. TypeOK'
    <2>1. agent' \in [Request -> AgentTypes]
      BY <1>1, <1>4, <1>9, <1>10 DEF TypeOK
    <2>2. req' \in [Request -> RequestTypes]
      BY <1>1, <1>4, <1>11, <1>12 DEF TypeOK
    <2>3. QED
      BY <1>1, <1>4, <2>1, <2>2 DEF TypeOK
  <1>14. \A g \in Request : g # h => ActingOn(g)' = ActingOn(g)
    BY <1>3, <1>4, <1>11, <1>12 DEF ActingOn
  <1>15. ActingOn(h)' = {r}
    <2>1. \A q \in Request : req[q].pc = "acting" => req[q].to # h
      BY <1>5 DEF ActingOn
    <2>2. \A q \in Request : req'[q].pc = "acting" /\ req'[q].to = h <=> q = r
      BY <1>11, <1>12, <2>1
    <2>3. QED
      BY <2>2 DEF ActingOn
  <1>16. OneAtATime'
    <2> SUFFICES ASSUME NEW g \in Request, NEW q \in ActingOn(g)'
                 PROVE  agent'[g].queue # <<>> /\ Head(agent'[g].queue) = q
      BY DEF OneAtATime
    <2>1. CASE g = h
      <3>1. agent[h].queue # <<>>
        BY <1>6 DEF Queues
      <3>2. q = r
        BY <1>15, <2>1
      <3>3. QED
        BY <1>4, <1>10, <2>1, <3>1, <3>2
    <2>2. CASE g # h
      <3>1. q \in ActingOn(g)
        BY <1>14, <2>2
      <3>2. agent[g].queue # <<>> /\ Head(agent[g].queue) = q
        BY <3>1 DEF Inv, OneAtATime
      <3>3. QED
        BY <1>9, <2>2, <3>2
    <2>3. QED
      BY <2>1, <2>2
  <1>17. \A g \in Request : Accounts(g)'
    <2> TAKE g \in Request
    <2>1. CASE g = h
      <3>1. Reserved(h)' = cost
        <4>1. (CHOOSE q \in ActingOn(h)' : TRUE) = r
          BY <1>15
        <4>2. QED
          BY <1>12, <1>15, <4>1 DEF Reserved
      <3>2. QED
        BY <1>7, <1>8, <1>10, <1>12, <1>15, <2>1, <3>1 DEF Accounts
    <2>2. CASE g # h
      <3>1. \A q \in ActingOn(g) : req'[q] = req[q]
        BY <1>4, <1>11 DEF ActingOn
      <3>2. Reserved(g)' = Reserved(g)
        BY <1>14, <2>2, <3>1, SameWork
      <3>3. Accounts(g)
        BY DEF Inv
      <3>4. QED
        BY <1>9, <1>14, <2>2, <3>1, <3>2, <3>3 DEF Accounts
    <2>3. QED
      BY <2>1, <2>2
  <1>18. Linked'
    <2>1. \A g \in Request : /\ agent'[g].born = agent[g].born
                             /\ agent'[g].queue = agent[g].queue
      BY <1>9, <1>10
    <2>2. \A n \in Node, id \in Id :
            agents'[n][id] # None => agents'[n][id] \in Request
                                     /\ agent'[agents'[n][id]].born # 0
      BY <1>4, <2>1 DEF Inv, Linked
    <2>3. \A g \in Request :
            IF agent'[g].born = 0 THEN agent'[g] = NoAgent
            ELSE req'[g].pc = "answered"
      <3> TAKE g \in Request
      <3>1. CASE g = h
        BY <1>4, <1>6, <1>10, <1>11, <3>1
      <3>2. CASE g # h
        <4>1. agent'[g] = agent[g] /\ (req[g].pc = "answered" => req'[g] = req[g])
          BY <1>4, <1>9, <1>11, <3>2
        <4>2. IF agent[g].born = 0 THEN agent[g] = NoAgent
              ELSE req[g].pc = "answered"
          BY DEF Inv, Linked
        <4>3. QED
          BY <4>1, <4>2
      <3>3. QED
        BY <3>1, <3>2
    <2>4. \A q \in Request :
            /\ req'[q].pc \in {"door", "peer", "table"} =>
                 req'[q].at \in Node /\ req'[q].id \in Id
            /\ req'[q].pc = "peer" => req'[q].to \in Node
      BY <1>11, <1>12 DEF Inv, Linked
    <2>5. ASSUME NEW q \in Request, req'[q].pc \in {"queued", "acting"}
          PROVE  /\ req'[q].to \in Request /\ agent'[req'[q].to].born # 0
                 /\ \E i \in 1 .. Len(agent'[req'[q].to].queue) :
                      agent'[req'[q].to].queue[i] = q
      <3>1. /\ req'[q].to = req[q].to
            /\ req[q].to \in Request /\ agent[req[q].to].born # 0
            /\ Queues(q, req[q].to)
        BY <1>3, <1>4, <1>6, <1>11, <1>12, <2>5 DEF Inv, Linked
      <3>2. QED
        BY <2>1, <3>1 DEF Queues
    <2>6. QED
      BY <2>2, <2>3, <2>4, <2>5 DEF Linked, Queues
  <1>19. QED
    BY <1>13, <1>16, <1>17, <1>18 DEF Inv

\* A step by which an agent is spawned.
LEMMA SpawnInv ==
  ASSUME Inv, NEW r \in Request, Spawn(r)
  PROVE  Inv'
  <1>1. Cardinality(Spawned) \in Nat
    <2>1. IsFiniteSet(Request)
      BY FS_Interval, GatewayAssumption DEF Request
    <2>2. IsFiniteSet(Spawned)
      BY <2>1, FS_Subset DEF Spawned
    <2>3. QED
      BY <2>2, FS_CardinalityType
  <1>2. /\ req[r].pc = "door"
        /\ agents' = [agents EXCEPT ![req[r].at][req[r].id] = r]
        /\ UNCHANGED <<directory, peers, calls>>
    BY DEF Spawn
  <1>3. TypeOK /\ req[r].at \in Node /\ req[r].id \in Id
    BY <1>2 DEF Inv, Linked
  <1> DEFINE born == Cardinality(Spawned) + 1
  <1>b. born \in Nat \ {0}
    BY <1>1
  <1>4. PICK grant \in Grants :
          LET a == [NoAgent EXCEPT !.born = born, !.budget = NewBudget(grant)]
          IN  /\ agent' = [agent EXCEPT ![r] = a]
              /\ req' = Reply(r, Report(r, a))
    BY DEF Spawn
  <1> HIDE DEF born
  <1>5. NewBudget(grant) \in AttentionBudgets
    BY GatewayAssumption, MaxTokensAssumption
       DEF NewBudget, AttentionBudgets, Tokens
  <1> DEFINE a == [NoAgent EXCEPT !.born = born, !.budget = NewBudget(grant)]
  <1>6. /\ a \in AgentTypes /\ a.born # 0 /\ a.budget = NewBudget(grant)
        /\ a.records = 0 /\ a.billed = 0 /\ a.lost = 0
    <2>1. <<>> \in Seq(Request)
      OBVIOUS
    <2>2. QED
      BY <1>5, <1>b, <2>1 DEF NoAgent, AgentTypes
  <1> HIDE DEF a
  <1>7. Report(r, a) \in Reports
    BY <1>5, <1>6, BudgetTypes, MaxTokensAssumption DEF Report, Reports, Tokens
  <1>8. agent' = [agent EXCEPT ![r] = a] /\ req' = Reply(r, Report(r, a))
    BY <1>4 DEF a
  <1>9. /\ req' \in [Request -> RequestTypes]
        /\ req'[r].pc = "answered"
        /\ \A q \in Request : q # r => req'[q] = req[q]
    BY <1>3, <1>7, <1>8, EndedForms
  <1>10. agent'[r] = a /\ \A g \in Request : g # r => agent'[g] = agent[g]
    BY <1>3, <1>8 DEF TypeOK
  <1>11. TypeOK'
    BY <1>2, <1>3, <1>6, <1>8, <1>9 DEF TypeOK
  <1>12. agent[r].born = 0
    BY <1>2 DEF Inv, Linked
  <1>13. \A q \in Request : req[q].pc \in {"queued", "acting"} => req[q].to # r
    BY <1>12 DEF Inv, Linked
  <1>14. /\ \A g \in Request : ActingOn(g)' = ActingOn(g)
         /\ ActingOn(r) = {}
    BY <1>2, <1>9, <1>13 DEF ActingOn
  <1>15. OneAtATime'
    BY <1>10, <1>14 DEF Inv, OneAtATime
  <1>16. \A g \in Request : Accounts(g)'
    <2> TAKE g \in Request
    <2>1. CASE g = r
      <3>1. Reserved(r)' = 0 /\ ActingOn(r)' = {}
        BY <1>14 DEF Reserved
      <3>2. a.budget.spent = 0 /\ Saturate(0) = 0
        BY <1>6, MaxTokensAssumption DEF NewBudget, Saturate
      <3>3. QED
        BY <1>6, <1>10, <2>1, <3>1, <3>2 DEF Accounts
    <2>2. CASE g # r
      <3>1. \A q \in ActingOn(g) : req'[q] = req[q]
        BY <1>2, <1>9 DEF ActingOn
      <3>2. Reserved(g)' = Reserved(g)
        BY <1>14, <3>1, SameWork
      <3>3. Accounts(g)
        BY DEF Inv
      <3>4. QED
        BY <1>10, <1>14, <2>2, <3>1, <3>2, <3>3 DEF Accounts
    <2>3. QED
      BY <2>1, <2>2
  <1>17. Linked'
    <2>1. \A n \in Node, id \in Id :
            agents'[n][id] # None => agents'[n][id] \in Request
                                     /\ agent'[agents'[n][id]].born # 0
      <3> TAKE n \in Node, id \in Id
      <3>1. agents'[n][id] = agents[n][id] \/ agents'[n][id] = r
        BY <1>2, <1>3 DEF TypeOK
      <3>2. QED
        BY <1>6, <1>10, <3>1 DEF Inv, Linked
    <2>2. \A g \in Request :
            IF agent'[g].born = 0 THEN agent'[g] = NoAgent
            ELSE req'[g].pc = "answered"
      BY <1>6, <1>9, <1>10 DEF Inv, Linked
    <2>3. \A q \in Request :
            /\ req'[q].pc \in {"door", "peer", "table"} =>
                 req'[q].at \in Node /\ req'[q].id \in Id
            /\ req'[q].pc = "peer" => req'[q].to \in Node
      BY <1>9 DEF Inv, Linked
    <2>4. ASSUME NEW q \in Request, req'[q].pc \in {"queued", "acting"}
          PROVE  /\ req'[q].to \in Request /\ agent'[req'[q].to].born # 0
                 /\ \E i \in 1 .. Len(agent'[req'[q].to].queue) :
                      agent'[req'[q].to].queue[i] = q
      <3>1. q # r /\ req'[q] = req[q] /\ req[q].to # r
        BY <1>9, <1>13, <2>4
      <3>2. /\ req[q].to \in Request /\ agent[req[q].to].born # 0
            /\ Queues(q, req[q].to)
        BY <2>4, <3>1 DEF Inv, Linked
      <3>3. QED
        BY <1>10, <3>1, <3>2 DEF Queues
    <2>5. QED
      BY <2>1, <2>2, <2>3, <2>4 DEF Linked, Queues
  <1>18. QED
    BY <1>11, <1>15, <1>16, <1>17 DEF Inv

----------------------------------------------------------------------------
\* The invariant.

\* It holds when the gateways begin to serve.
LEMMA InvInit == Init => Inv
  <1> SUFFICES ASSUME Init PROVE Inv
    OBVIOUS
  <1>1. /\ agents = [n \in Node |-> [id \in Id |-> None]]
        /\ directory = [n \in Node |-> [id \in Id |-> None]]
        /\ peers \in [Node -> SUBSET Node]
        /\ agent = [h \in Request |-> NoAgent]
        /\ req = [r \in Request |-> Unmade] /\ calls = 0
    BY DEF Init
  <1>2. NoAgent \in AgentTypes /\ NoAgent.born = 0
    <2>1. NewBudget(0) \in AttentionBudgets /\ <<>> \in Seq(Request)
      BY MaxTokensAssumption DEF NewBudget, AttentionBudgets, Tokens
    <2>2. QED
      BY <2>1 DEF NoAgent, AgentTypes
  <1>3. Unmade \in RequestTypes /\ Unmade.pc = "unmade"
    BY GatewayAssumption DEF Unmade, RequestTypes, Ops
  <1>4. TypeOK
    BY <1>1, <1>2, <1>3, GatewayAssumption DEF TypeOK
  <1>5. \A h \in Request : ActingOn(h) = {}
    BY <1>1, <1>3 DEF ActingOn
  <1>6. ASSUME NEW h \in Request PROVE Accounts(h)
    <2>1. ActingOn(h) = {} /\ Reserved(h) = 0
      BY <1>5 DEF Reserved
    <2>2. /\ agent[h].budget.spent = 0 /\ agent[h].billed = 0 /\ agent[h].lost = 0
          /\ Saturate(0) = 0
      BY <1>1, MaxTokensAssumption DEF NoAgent, NewBudget, Saturate
    <2>3. QED
      BY <2>1, <2>2 DEF Accounts
  <1>7. Linked
    BY <1>1, <1>2, <1>3 DEF Linked
  <1>8. QED
    BY <1>4, <1>5, <1>6, <1>7 DEF Inv, OneAtATime

\* Every step preserves it.
LEMMA InvNext == Inv /\ [Next]_vars => Inv'
  <1> SUFFICES ASSUME Inv, [Next]_vars PROVE Inv'
    OBVIOUS
  <1>1. TypeOK
    BY DEF Inv
  <1>2. ASSUME UNCHANGED <<agents, agent, req>>, TypeOK'
        PROVE  Inv'
    BY <1>2 DEF Inv, Linked, Queues, OneAtATime, ActingOn, Accounts, Reserved
  <1>3. CASE UNCHANGED vars
    <2>1. TypeOK'
      BY <1>1, <1>3 DEF vars, TypeOK
    <2>2. QED
      BY <1>2, <1>3, <2>1 DEF vars
  <1>4. ASSUME NEW r \in Request, Arrive(r) PROVE Inv'
    <2> DEFINE before == Answered
    <2>1. before \in SUBSET Request
      BY DEF Answered
    <2>2. PICK n \in Node, id \in Id, op \in Ops, cost \in Costs :
            req' = [req EXCEPT ![r] =
                      [Unmade EXCEPT !.pc = "door", !.at = n, !.id = id, !.op = op,
                                     !.cost = cost, !.before = before]]
      BY <1>4 DEF Arrive
    <2> HIDE DEF before
    <2> DEFINE x == [Unmade EXCEPT !.pc = "door", !.at = n, !.id = id, !.op = op,
                                   !.cost = cost, !.before = before]
    <2>3. x \in RequestTypes /\ x.pc = "door" /\ x.at \in Node /\ x.id \in Id
      <3>1. 0 \in 0 .. MaxHops
        BY GatewayAssumption
      <3>2. QED
        BY <2>1, <3>1 DEF Unmade, RequestTypes
    <2>4. req' = [req EXCEPT ![r] = x]
      BY <2>2
    <2> HIDE DEF x
    <2>5. req'[r] = x /\ \A q \in Request : q # r => req'[q] = req[q]
      BY <1>1, <2>4 DEF TypeOK
    <2>6. TypeOK'
      BY <1>1, <1>4, <2>3, <2>4 DEF Arrive, TypeOK
    <2>7. QED
      BY <1>4, <2>3, <2>5, <2>6, MoveInv DEF Arrive
  <1>5. ASSUME NEW r \in Request, Refuse(r) PROVE Inv'
    <2>1. /\ req' \in [Request -> RequestTypes] /\ req'[r].pc = "failed"
          /\ \A q \in Request : q # r => req'[q] = req[q]
      BY <1>1, <1>5, EndedForms DEF Refuse
    <2>2. TypeOK'
      BY <1>1, <1>5, <2>1 DEF Refuse, TypeOK
    <2>3. QED
      BY <1>5, <2>1, <2>2, MoveInv DEF Refuse
  <1>6. ASSUME NEW r \in Request, AskDirectory(r) PROVE Inv'
    <2>1. req[r].pc = "door" /\ req[r] \in RequestTypes
          /\ req[r].at \in Node /\ req[r].id \in Id
      BY <1>1, <1>6 DEF AskDirectory, TypeOK, Inv, Linked
    <2>2. PICK to \in Node \cup {None} : to = directory[req[r].at][req[r].id]
      BY <1>1, <2>1 DEF TypeOK
    <2>3. req' = [req EXCEPT ![r].pc = IF to = None THEN "table" ELSE "peer",
                             ![r].to = to]
      BY <1>6, <2>2 DEF AskDirectory
    <2>4. /\ req'[r] = [req[r] EXCEPT !.pc = IF to = None THEN "table" ELSE "peer",
                                      !.to = to]
          /\ \A q \in Request : q # r => req'[q] = req[q]
      BY <1>1, <2>3 DEF TypeOK
    <2>5. /\ req'[r] \in RequestTypes
          /\ req'[r].pc \in {"table", "peer"}
          /\ req'[r].pc = "peer" => req'[r].to \in Node
          /\ req'[r].at \in Node /\ req'[r].id \in Id
      BY <2>1, <2>4 DEF RequestTypes
    <2>6. TypeOK'
      BY <1>1, <1>6, <2>3, <2>4, <2>5 DEF AskDirectory, TypeOK
    <2>7. QED
      BY <1>6, <2>1, <2>4, <2>5, <2>6, MoveInv DEF AskDirectory
  <1>7. ASSUME NEW r \in Request, Redirect(r) PROVE Inv'
    <2>1. /\ req[r].pc = "peer" /\ req[r] \in RequestTypes
          /\ req[r].at \in Node /\ req[r].id \in Id /\ req[r].to \in Node
      BY <1>1, <1>7 DEF Redirect, TypeOK, Inv, Linked
    <2>2. CASE req' = Error(r)
      <3>1. /\ req' \in [Request -> RequestTypes] /\ req'[r].pc = "failed"
            /\ \A q \in Request : q # r => req'[q] = req[q]
        BY <1>1, <2>2, EndedForms
      <3>2. TypeOK'
        BY <1>1, <1>7, <3>1 DEF Redirect, TypeOK
      <3>3. QED
        BY <1>7, <2>1, <3>1, <3>2, MoveInv DEF Redirect
    <2>3. CASE /\ req[r].hops < MaxHops
               /\ req' = [req EXCEPT ![r].pc = "door", ![r].at = req[r].to,
                                     ![r].to = None, ![r].hops = @ + 1]
      <3>1. req[r].hops \in 0 .. MaxHops
        BY <2>1 DEF RequestTypes
      <3>2. req[r].hops + 1 \in 0 .. MaxHops
        BY <2>3, <3>1, GatewayAssumption
      <3>3. /\ req'[r] = [req[r] EXCEPT !.pc = "door", !.at = req[r].to,
                                        !.to = None, !.hops = @ + 1]
            /\ \A q \in Request : q # r => req'[q] = req[q]
        BY <1>1, <2>3 DEF TypeOK
      <3>4. /\ req'[r] \in RequestTypes /\ req'[r].pc = "door"
            /\ req'[r].at \in Node /\ req'[r].id \in Id
        BY <2>1, <3>2, <3>3 DEF RequestTypes
      <3>5. TypeOK'
        BY <1>1, <1>7, <2>3, <3>3, <3>4 DEF Redirect, TypeOK
      <3>6. QED
        BY <1>7, <2>1, <3>3, <3>4, <3>5, MoveInv DEF Redirect
    <2>4. QED
      BY <1>7, <2>2, <2>3 DEF Redirect
  <1>8. ASSUME NEW n \in Node, NEW m \in Node, NEW id \in Id,
               PlaceRemote(n, id, m)
        PROVE  Inv'
    <2>1. UNCHANGED <<agents, peers, agent, req>>
      BY <1>8 DEF PlaceRemote
    <2>2. calls < MaxCalls /\ calls' = calls + 1 /\ calls \in 0 .. MaxCalls
      BY <1>1, <1>8 DEF PlaceRemote, TypeOK
    <2>3. calls' \in 0 .. MaxCalls
      BY <2>2, GatewayAssumption
    <2>4. directory' \in [Node -> [Id -> Node \cup {None}]]
      BY <1>1, <1>8 DEF PlaceRemote, TypeOK
    <2>5. TypeOK'
      BY <1>1, <2>1, <2>3, <2>4 DEF TypeOK
    <2>6. QED
      BY <1>2, <2>1, <2>5
  <1>9. ASSUME NEW n \in Node, NEW m \in Node, RegisterPeer(n, m)
        PROVE  Inv'
    <2>1. UNCHANGED <<agents, directory, agent, req>>
      BY <1>9 DEF RegisterPeer
    <2>2. calls < MaxCalls /\ calls' = calls + 1 /\ calls \in 0 .. MaxCalls
      BY <1>1, <1>9 DEF RegisterPeer, TypeOK
    <2>3. calls' \in 0 .. MaxCalls
      BY <2>2, GatewayAssumption
    <2>4. peers' \in [Node -> SUBSET Node]
      BY <1>1, <1>9 DEF RegisterPeer, TypeOK
    <2>5. TypeOK'
      BY <1>1, <2>1, <2>3, <2>4 DEF TypeOK
    <2>6. QED
      BY <1>2, <2>1, <2>5
  <1>10. QED
    BY <1>3, <1>4, <1>5, <1>6, <1>7, <1>8, <1>9, SpawnInv, JoinInv, LockedFinish,
       WorkFinish, FinishedInv, ThinkInv, DisconnectInv DEF Next, Handle, Rest

----------------------------------------------------------------------------
\* One history.

\* What is left of the grant of agent h when nothing is reserved.
Settled(h) ==
    Saturate(agent[h].budget.total - Saturate(agent[h].billed + agent[h].lost))

\* Gateway n has, under id, agent h or a younger one.
Placed(n, id, h) ==
    /\ n \in Node /\ id \in Id
    /\ h \in Request /\ agent[h].born # 0
    /\ agents[n][id] # None
    /\ agent[h].born <= agent[agents[n][id]].born

\* The agent that answered r has a trail no shorter, and no more left, than it
\* told.
Told(r) ==
    LET reply == req[r].reply
    IN  /\ reply \in Reports
        /\ Placed(req[r].at, req[r].id, reply.agent)
        /\ reply.records <= agent[reply.agent].records
        /\ reply.left >= Settled(reply.agent)

\* Request q was made after the answer to r, for the same id at the same gateway.
Follows(q, r) ==
    r \in req[q].before /\ req[q].at = req[r].at /\ req[q].id = req[r].id

\* A request at an agent is at none older than those that answered before it.
Found(q) ==
    /\ Placed(req[q].at, req[q].id, req[q].to)
    /\ \A r \in Request :
         Follows(q, r) => agent[req[r].reply.agent].born <= agent[req[q].to].born

History ==
    /\ \A h \in Request : agent[h].born <= Cardinality(Spawned)
    /\ \A q \in Request : req[q].before \subseteq Answered
    /\ \A r \in Answered : Told(r)
    /\ \A q \in Request : req[q].pc \in {"queued", "acting"} => Found(q)
    /\ OneHistory

\* Agent h keeps its grant; its trail, what it bills and what was lost grow.
Grown(h) ==
    /\ agent'[h].born = agent[h].born
    /\ agent'[h].budget.total = agent[h].budget.total
    /\ agent'[h].records >= agent[h].records
    /\ agent'[h].billed >= agent[h].billed
    /\ agent'[h].lost >= agent[h].lost

\* Agents grow, and only a younger one takes the place of another.
Onward ==
    /\ \A g \in Spawned : Grown(g)
    /\ \A n \in Node, id \in Id :
         agents[n][id] # None =>
           /\ agents'[n][id] \in Request
           /\ agent[agents[n][id]].born <= agent'[agents'[n][id]].born

\* The less was billed and lost, the more is left.
LEMMA SaturateOrder ==
  ASSUME NEW t \in Tokens, NEW m \in Nat, NEW n \in Nat, m <= n
  PROVE  Saturate(t - Saturate(n)) <= Saturate(t - Saturate(m))
  BY MaxTokensAssumption DEF Saturate, Tokens

\* So what is left of the grant never grows.
LEMMA SettledFalls ==
  ASSUME TypeOK, TypeOK', NEW h \in Request, Grown(h)
  PROVE  /\ Settled(h) \in Int /\ Settled(h)' \in Int
         /\ Settled(h)' <= Settled(h)
  <1>1. agent[h] \in AgentTypes /\ agent'[h] \in AgentTypes
    BY DEF TypeOK
  <1>2. PICK t \in Tokens, b \in Nat, l \in Nat, c \in Nat, k \in Nat :
          /\ t = agent[h].budget.total /\ t = agent'[h].budget.total
          /\ b = agent[h].billed /\ l = agent[h].lost
          /\ c = agent'[h].billed /\ k = agent'[h].lost
    BY <1>1 DEF AgentTypes, AttentionBudgets, Grown
  <1>3. b <= c /\ l <= k
    BY <1>2 DEF Grown
  <1>4. b + l \in Nat /\ c + k \in Nat /\ b + l <= c + k
    BY <1>3
  <1>5. \A n \in Nat : Saturate(t - Saturate(n)) \in Int
    BY MaxTokensAssumption DEF Saturate, Tokens
  <1>6. /\ Settled(h) = Saturate(t - Saturate(b + l))
        /\ Settled(h)' = Saturate(t - Saturate(c + k))
    BY <1>2 DEF Settled, Saturate
  <1>7. QED
    BY <1>4, <1>5, <1>6, SaturateOrder

\* An agent keeps its place, or a younger one has it.
LEMMA PlacedStays ==
  ASSUME Inv, Inv', Onward, NEW n \in Node, NEW id \in Id, NEW h \in Request,
         Placed(n, id, h)
  PROVE  Placed(n, id, h)'
  <1>1. PICK g \in Request : g = agents[n][id] /\ agent[g].born # 0
    BY DEF Placed, Inv, Linked
  <1>2. PICK k \in Request : k = agents'[n][id] /\ agent[g].born <= agent'[k].born
    BY <1>1 DEF Placed, Onward
  <1>3. agent[h].born <= agent[g].born /\ agent[h].born # 0
    BY <1>1 DEF Placed
  <1>4. agent'[h].born = agent[h].born
    BY <1>3 DEF Onward, Grown, Spawned
  <1>5. agent[h].born \in Nat /\ agent[g].born \in Nat /\ agent'[k].born \in Nat
    BY DEF Inv, TypeOK, AgentTypes
  <1>6. k # None
    BY GatewayAssumption DEF Request
  <1>7. QED
    BY <1>2, <1>3, <1>4, <1>5, <1>6 DEF Placed

\* What was told stays true.
LEMMA ToldStays ==
  ASSUME Inv, Inv', Onward, NEW r \in Request, Told(r), req'[r] = req[r]
  PROVE  Told(r)'
  <1>1. PICK n \in Node, id \in Id, h \in Request, k \in Nat, l \in Tokens :
          /\ n = req[r].at /\ id = req[r].id /\ h = req[r].reply.agent
          /\ k = req[r].reply.records /\ l = req[r].reply.left
    BY DEF Told, Placed, Reports
  <1>2. /\ req[r].reply \in Reports /\ Placed(n, id, h)
        /\ k <= agent[h].records /\ l >= Settled(h)
    BY <1>1 DEF Told
  <1>3. Placed(n, id, h)'
    BY <1>2, PlacedStays
  <1>4. Grown(h)
    BY <1>2 DEF Onward, Placed, Spawned
  <1>5. k <= agent'[h].records
    <2>1. agent[h].records \in Nat /\ agent'[h].records \in Nat
      BY DEF Inv, TypeOK, AgentTypes
    <2>2. QED
      BY <1>2, <1>4, <2>1 DEF Grown
  <1>6. l >= Settled(h)'
    <2>1. Settled(h) \in Int /\ Settled(h)' \in Int /\ Settled(h)' <= Settled(h)
      BY <1>4, SettledFalls DEF Inv
    <2>2. l \in Int
      BY DEF Tokens
    <2>3. QED
      BY <1>2, <2>1, <2>2
  <1>7. QED
    BY <1>1, <1>2, <1>3, <1>5, <1>6 DEF Told, Placed, Settled

\* A step of one request keeps the history if it keeps what it adds to it.
LEMMA HistoryKept ==
  ASSUME Inv, Inv', History, NEW r \in Request, Onward,
         \A h \in Request : agent'[h].born <= Cardinality(Spawned'),
         \A q \in Request : q # r => req'[q] = req[q],
         req[r].pc # "answered", req'[r].before \subseteq Answered,
         req'[r].pc \in {"queued", "acting"} => Found(r)',
         req'[r].pc = "answered" =>
           /\ Told(r)'
           /\ \A p \in Answered : Follows(r, p)' =>
                LET earlier == req[p].reply
                    later == req'[r].reply
                IN  /\ agent'[earlier.agent].born <= agent'[later.agent].born
                    /\ earlier.agent = later.agent =>
                         earlier.records <= later.records /\ earlier.left >= later.left
  PROVE  History'
  <1>1. \A p \in Answered : p \in Request /\ p # r /\ req'[p] = req[p]
    BY DEF Answered
  <1>2. Answered \subseteq Answered' /\ \A p \in Answered' : p = r \/ p \in Answered
    BY <1>1 DEF Answered
  <1>3. \A g \in Request : agent[g].born # 0 => agent'[g].born = agent[g].born
    BY DEF Onward, Grown, Spawned
  <1>4. \A q \in Request : req'[q].before \subseteq Answered
    BY DEF History
  <1>5. \A p \in Answered' : Told(p)'
    <2> SUFFICES ASSUME NEW p \in Answered' PROVE Told(p)'
      OBVIOUS
    <2>1. CASE p = r
      BY <2>1 DEF Answered
    <2>2. CASE p \in Answered
      <3>1. Told(p) /\ p \in Request /\ req'[p] = req[p]
        BY <1>1, <2>2 DEF History
      <3>2. QED
        BY <3>1, ToldStays
    <2>3. QED
      BY <1>2, <2>1, <2>2
  <1>6. ASSUME NEW q \in Request, req'[q].pc \in {"queued", "acting"}
        PROVE  Found(q)'
    <2>1. CASE q = r
      BY <1>6, <2>1
    <2>2. CASE q # r
      <3>1. req'[q] = req[q] /\ Found(q)
        BY <1>6, <2>2 DEF History
      <3>2. PICK n \in Node, id \in Id, h \in Request :
              n = req[q].at /\ id = req[q].id /\ h = req[q].to /\ Placed(n, id, h)
        BY <3>1 DEF Found, Placed
      <3>3. Placed(n, id, h)'
        BY <3>2, PlacedStays
      <3>4. Placed(req[q].at, req[q].id, req[q].to)'
        BY <3>1, <3>2, <3>3 DEF Placed
      <3>5. ASSUME NEW p \in Request, Follows(q, p)'
            PROVE  agent'[req'[p].reply.agent].born <= agent'[req'[q].to].born
        <4>1. p \in Answered /\ req'[p] = req[p] /\ Follows(q, p)
          BY <1>1, <1>4, <3>1, <3>5 DEF Follows
        <4>2. agent[req[p].reply.agent].born <= agent[req[q].to].born
          BY <3>1, <4>1 DEF Found
        <4>3. /\ req[p].reply.agent \in Request /\ req[q].to \in Request
              /\ agent[req[p].reply.agent].born # 0 /\ agent[req[q].to].born # 0
          BY <3>1, <4>1 DEF History, Told, Found, Placed
        <4>4. QED
          BY <1>3, <3>1, <4>1, <4>2, <4>3
      <3>6. QED
        BY <3>1, <3>4, <3>5 DEF Found, Placed
    <2>3. QED
      BY <2>1, <2>2
  <1>7. OneHistory'
    <2> SUFFICES ASSUME NEW q \in Answered', NEW p \in req'[q].before,
                        req'[q].at = req'[p].at, req'[q].id = req'[p].id
                 PROVE  LET earlier == req'[p].reply
                            later == req'[q].reply
                        IN  /\ agent'[earlier.agent].born <= agent'[later.agent].born
                            /\ earlier.agent = later.agent =>
                                 /\ earlier.records <= later.records
                                 /\ earlier.left >= later.left
      BY DEF OneHistory
    <2>1. q \in Request /\ p \in Answered /\ req'[p] = req[p]
      BY <1>1, <1>4 DEF Answered
    <2>2. CASE q = r
      <3>1. Follows(r, p)' /\ req'[r].pc = "answered"
        BY <2>1, <2>2 DEF Follows, Answered
      <3>2. QED
        BY <2>1, <2>2, <3>1
    <2>3. CASE q \in Answered
      <3>1. req'[q] = req[q] /\ Told(q) /\ Told(p)
        BY <1>1, <2>1, <2>3 DEF History
      <3>2. /\ req[q].reply.agent \in Request /\ req[p].reply.agent \in Request
            /\ agent[req[q].reply.agent].born # 0
            /\ agent[req[p].reply.agent].born # 0
        BY <3>1 DEF Told, Placed
      <3>3. LET earlier == req[p].reply
                later == req[q].reply
            IN  /\ agent[earlier.agent].born <= agent[later.agent].born
                /\ earlier.agent = later.agent =>
                     earlier.records <= later.records /\ earlier.left >= later.left
        BY <2>1, <2>3, <3>1 DEF History, OneHistory
      <3>4. QED
        BY <1>3, <2>1, <3>1, <3>2, <3>3
    <2>4. QED
      BY <1>2, <2>2, <2>3
  <1>8. QED
    BY <1>2, <1>4, <1>5, <1>6, <1>7 DEF History

----------------------------------------------------------------------------
\* The steps of the history.

\* Numbers of spawns.
LEMMA SpawnedFinite == IsFiniteSet(Spawned) /\ Cardinality(Spawned) \in Nat
  <1>1. IsFiniteSet(Request)
    BY FS_Interval, GatewayAssumption DEF Request
  <1>2. IsFiniteSet(Spawned)
    BY <1>1, FS_Subset DEF Spawned
  <1>3. QED
    BY <1>2, FS_CardinalityType

\* A step that spawns nobody and by which agents only grow.
LEMMA GrowingIsOnward ==
  ASSUME Inv, History, agents' = agents, \A g \in Request : Grown(g)
  PROVE  Onward /\ \A h \in Request : agent'[h].born <= Cardinality(Spawned')
  <1>1. Spawned' = Spawned
    BY DEF Spawned, Grown
  <1>2. \A h \in Request : agent'[h].born <= Cardinality(Spawned')
    BY <1>1 DEF History, Grown
  <1>3. ASSUME NEW n \in Node, NEW id \in Id, agents[n][id] # None
        PROVE  /\ agents'[n][id] \in Request
               /\ agent[agents[n][id]].born <= agent'[agents'[n][id]].born
    <2>1. PICK g \in Request : g = agents[n][id]
      BY <1>3 DEF Inv, Linked
    <2>2. agent[g].born \in Nat /\ agent'[g].born = agent[g].born
      BY DEF Grown, Inv, TypeOK, AgentTypes
    <2>3. QED
      BY <2>1, <2>2
  <1>4. QED
    BY <1>2, <1>3 DEF Onward, Spawned

\* An agent that is left alone, or only queued for, grows.
LEMMA SameGrows ==
  ASSUME TypeOK, NEW g \in Request,
         agent'[g].born = agent[g].born, agent'[g].budget.total = agent[g].budget.total,
         agent'[g].records = agent[g].records, agent'[g].billed = agent[g].billed,
         agent'[g].lost = agent[g].lost
  PROVE  Grown(g)
  <1>1. agent[g].records \in Nat /\ agent[g].billed \in Nat /\ agent[g].lost \in Nat
    BY DEF TypeOK, AgentTypes
  <1>2. QED
    BY <1>1 DEF Grown

\* A request moves that is at no agent, or fails.
LEMMA MoveHistory ==
  ASSUME Inv, Inv', History, NEW r \in Request,
         agents' = agents, \A g \in Request : Grown(g),
         \A q \in Request : q # r => req'[q] = req[q],
         req[r].pc # "answered", req'[r].pc \notin {"queued", "acting", "answered"},
         req'[r].before \in {{}, Answered, req[r].before}
  PROVE  History'
  <1>1. req'[r].before \subseteq Answered
    BY DEF History
  <1>2. QED
    BY <1>1, GrowingIsOnward, HistoryKept

\* A request is answered or fails at the head of the queue.
LEMMA FinishHistory ==
  ASSUME Inv, Inv', History, NEW r \in Request, NEW h \in Request,
         NEW a \in AgentTypes, Finished(r, h, a)
  PROVE  History'
  <1>1. TypeOK /\ req[r].pc \in {"queued", "acting"} /\ agents' = agents
    BY DEF Finished, Inv
  <1>2. /\ agent'[h] = Released(a)
        /\ \A g \in Request : g # h => agent'[g] = agent[g]
    BY <1>1 DEF Finished, TypeOK
  <1>3. /\ agent'[h].born = a.born /\ agent'[h].budget = a.budget
        /\ agent'[h].records = a.records /\ agent'[h].billed = a.billed
        /\ agent'[h].lost = a.lost
    BY <1>2 DEF Released, AgentTypes
  <1>4. \A g \in Request : Grown(g)
    <2> TAKE g \in Request
    <2>1. CASE g = h
      BY <1>3, <2>1 DEF Finished, Grown
    <2>2. CASE g # h
      BY <1>1, <1>2, <2>2, SameGrows
    <2>3. QED
      BY <2>1, <2>2
  <1>5. /\ Onward
        /\ \A g \in Request : agent'[g].born <= Cardinality(Spawned')
    BY <1>1, <1>4, GrowingIsOnward
  <1>6. CASE req' = Error(r)
    <2>1. /\ req'[r].pc = "failed" /\ req'[r].before = {}
          /\ \A q \in Request : q # r => req'[q] = req[q]
      BY <1>1, <1>6 DEF Error, Unmade, TypeOK
    <2>2. QED
      BY <1>1, <1>4, <2>1, MoveHistory
  <1>7. ASSUME Report(h, a) \in Reports, req' = Reply(r, Report(h, a))
        PROVE  History'
    <2>1. /\ req'[r].pc = "answered" /\ req'[r].at = req[r].at
          /\ req'[r].id = req[r].id /\ req'[r].before = req[r].before
          /\ req'[r].reply = Report(h, a)
          /\ \A q \in Request : q # r => req'[q] = req[q]
      BY <1>1, <1>7 DEF Reply, Unmade, TypeOK
    <2>2. PICK n \in Node, id \in Id :
            n = req[r].at /\ id = req[r].id /\ Placed(n, id, h)
      BY <1>1 DEF Finished, History, Found, Placed
    <2>3. Placed(n, id, h)'
      BY <1>5, <2>2, PlacedStays
    <2>4. PICK left \in Int : left = Settled(h)' /\ left = Remaining(a.budget)
      <3>1. Settled(h)' = Remaining(a.budget)
        BY <1>3 DEF Finished, Settled, Remaining
      <3>2. Remaining(a.budget) \in Tokens
        <4>1. a.budget \in AttentionBudgets /\ 0 \in Tokens
          BY MaxTokensAssumption DEF AgentTypes, Tokens
        <4>2. QED
          BY <4>1, BudgetTypes
      <3>3. QED
        BY <3>1, <3>2 DEF Tokens
    <2>5. PICK k \in Nat : k = a.records
      BY DEF AgentTypes
    <2>6. /\ req'[r].reply.agent = h /\ req'[r].reply.records = k
          /\ req'[r].reply.left = left
      BY <2>1, <2>4, <2>5 DEF Report
    <2>7. Told(r)'
      <3>1. agent'[h].records = k /\ k <= k /\ left >= left
        BY <1>3, <2>5
      <3>2. QED
        BY <1>7, <2>1, <2>2, <2>3, <2>4, <2>6, <3>1 DEF Told, Placed, Settled
    <2>8. ASSUME NEW p \in Answered, Follows(r, p)'
          PROVE  LET earlier == req[p].reply
                     later == req'[r].reply
                 IN  /\ agent'[earlier.agent].born <= agent'[later.agent].born
                     /\ earlier.agent = later.agent =>
                          earlier.records <= later.records /\ earlier.left >= later.left
      <3>1. p \in Request /\ p # r /\ req'[p] = req[p] /\ Follows(r, p)
        BY <1>1, <2>1, <2>8 DEF Answered, Follows
      <3>2. PICK g \in Request, m \in Nat, l \in Int :
              /\ g = req[p].reply.agent /\ m = req[p].reply.records
              /\ l = req[p].reply.left
              /\ m <= agent[g].records /\ l >= Settled(g)
        BY DEF History, Told, Reports, Tokens
      <3>3. agent[g].born <= agent[h].born
        BY <1>1, <3>1, <3>2 DEF Finished, History, Found
      <3>4. agent'[g].born <= agent'[h].born
        BY <1>4, <3>3 DEF Grown
      <3>5. ASSUME g = h PROVE m <= k /\ l >= left
        <4>1. m <= agent[h].records /\ k >= agent[h].records
              /\ agent[h].records \in Nat
          BY <2>5, <3>2, <3>5 DEF Finished, Inv, TypeOK, AgentTypes
        <4>2. /\ l >= Settled(h) /\ left <= Settled(h) /\ Settled(h) \in Int
          BY <1>4, <2>4, <3>2, <3>5, SettledFalls DEF Inv
        <4>3. QED
          BY <4>1, <4>2
      <3>6. QED
        BY <2>6, <3>2, <3>4, <3>5
    <2>9. req'[r].before \subseteq Answered
      BY <2>1 DEF History
    <2>10. QED
      BY <1>1, <1>5, <2>1, <2>7, <2>8, <2>9, HistoryKept
  <1>8. QED
    BY <1>6, <1>7 DEF Finished

\* A request finds, in the table, the agent that those who were answered before
\* it found, or a younger one.
LEMMA LookupHistory ==
  ASSUME Inv, Inv', History, NEW r \in Request, Lookup(r)
  PROVE  History'
  <1>1. TypeOK /\ req[r].pc = "table" /\ agents' = agents
        /\ req[r].at \in Node /\ req[r].id \in Id
    BY DEF Inv, Linked, Lookup
  <1>2. PICK n \in Node, id \in Id, h \in Request \cup {None} :
          n = req[r].at /\ id = req[r].id /\ h = agents[n][id]
    BY <1>1 DEF TypeOK
  <1>3. CASE h = None
    <2>1. agent' = agent /\ req' = Error(r)
      BY <1>2, <1>3 DEF Lookup
    <2>2. /\ req'[r].pc = "failed" /\ req'[r].before = {}
          /\ \A q \in Request : q # r => req'[q] = req[q]
      BY <1>1, <2>1 DEF Error, Unmade, TypeOK
    <2>3. \A g \in Request : Grown(g)
      BY <1>1, <2>1, SameGrows
    <2>4. QED
      BY <1>1, <2>2, <2>3, MoveHistory
  <1>4. CASE h # None
    <2>1. h \in Request
      BY <1>2, <1>4
    <2>2. /\ req' = [req EXCEPT ![r].pc = "queued", ![r].to = h]
          /\ agent' = [agent EXCEPT ![h].queue = Append(@, r)]
      BY <1>2, <1>4, ZenonT(40) DEF Lookup
    <2>3. /\ req'[r].pc = "queued" /\ req'[r].to = h /\ req'[r].at = n
          /\ req'[r].id = id /\ req'[r].before = req[r].before
          /\ \A q \in Request : q # r => req'[q] = req[q]
      BY <1>1, <1>2, <2>2, ZenonT(40) DEF TypeOK, RequestTypes
    <2>4. \A g \in Request : Grown(g)
      <3> TAKE g \in Request
      <3>1. /\ agent'[g].born = agent[g].born /\ agent'[g].budget = agent[g].budget
            /\ agent'[g].records = agent[g].records
            /\ agent'[g].billed = agent[g].billed /\ agent'[g].lost = agent[g].lost
        BY <1>1, <2>1, <2>2 DEF TypeOK, AgentTypes
      <3>2. QED
        BY <1>1, <3>1, SameGrows
    <2>5. /\ Onward
          /\ \A g \in Request : agent'[g].born <= Cardinality(Spawned')
      BY <1>1, <2>4, GrowingIsOnward
    <2>6. /\ agent[h].born # 0 /\ agent'[h].born = agent[h].born
          /\ agent[h].born \in Nat
      BY <1>2, <1>4, <2>1, <2>4 DEF Inv, Linked, Grown, TypeOK, AgentTypes
    <2>7. Placed(n, id, h)'
      BY <1>1, <1>2, <1>4, <2>1, <2>6 DEF Placed
    <2>8. ASSUME NEW p \in Request, Follows(r, p)'
          PROVE  agent'[req'[p].reply.agent].born <= agent'[req'[r].to].born
      <3>1. p \in Answered /\ p # r /\ req'[p] = req[p]
            /\ req[p].at = n /\ req[p].id = id
        BY <1>1, <2>3, <2>8 DEF Follows, History, Answered
      <3>2. PICK g \in Request : g = req[p].reply.agent /\ Placed(n, id, g)
        BY <3>1 DEF History, Told, Placed
      <3>3. agent[g].born <= agent[h].born
        BY <1>2, <3>2 DEF Placed
      <3>4. agent'[g].born <= agent'[h].born
        BY <2>1, <2>4, <3>3 DEF Grown
      <3>5. QED
        BY <2>3, <3>1, <3>2, <3>4
    <2>9. Found(r)'
      BY <2>3, <2>7, <2>8 DEF Found, Placed
    <2>10. req'[r].before \subseteq Answered
      BY <2>3 DEF History
    <2>11. QED
      BY <1>1, <2>3, <2>5, <2>9, <2>10, HistoryKept
  <1>5. QED
    BY <1>3, <1>4

\* A request that goes to work stays with the agent it found.
LEMMA ThinkHistory ==
  ASSUME Inv, Inv', History, NEW r \in Request, Think(r)
  PROVE  History'
  <1>1. /\ TypeOK /\ req[r].pc = "queued" /\ agents' = agents
        /\ req' = [req EXCEPT ![r].pc = "acting"]
    BY DEF Inv, Think, HasLock
  <1>2. PICK n \in Node, id \in Id, h \in Request :
          n = req[r].at /\ id = req[r].id /\ h = req[r].to /\ Placed(n, id, h)
    BY <1>1 DEF History, Found, Placed
  <1>3. agent' = [agent EXCEPT ![h].budget = Charge(@, req[r].cost)]
    BY <1>2 DEF Think
  <1>4. /\ req'[r].pc = "acting" /\ req'[r].to = h /\ req'[r].at = n
        /\ req'[r].id = id /\ req'[r].before = req[r].before
        /\ \A q \in Request : q # r => req'[q] = req[q]
    BY <1>1, <1>2 DEF TypeOK, RequestTypes
  <1>5. \A g \in Request : Grown(g)
    <2> TAKE g \in Request
    <2>1. agent[g] \in AgentTypes /\ agent[g].budget \in AttentionBudgets
      BY <1>1 DEF TypeOK, AgentTypes
    <2>2. CASE g = h
      <3>1. agent'[g] = [agent[g] EXCEPT !.budget = Charge(@, req[r].cost)]
        BY <1>1, <1>3, <2>2 DEF TypeOK
      <3>2. Charge(agent[g].budget, req[r].cost).total = agent[g].budget.total
        BY <2>1 DEF Charge, AttentionBudgets
      <3>3. QED
        BY <1>1, <2>1, <3>1, <3>2, SameGrows DEF AgentTypes
    <2>3. CASE g # h
      <3>1. agent'[g] = agent[g]
        BY <1>1, <1>3, <2>3 DEF TypeOK
      <3>2. QED
        BY <1>1, <3>1, SameGrows
    <2>4. QED
      BY <2>2, <2>3
  <1>6. /\ Onward
        /\ \A g \in Request : agent'[g].born <= Cardinality(Spawned')
    BY <1>1, <1>5, GrowingIsOnward
  <1>7. Placed(n, id, h)'
    BY <1>2, <1>6, PlacedStays
  <1>8. ASSUME NEW p \in Request, Follows(r, p)'
        PROVE  agent'[req'[p].reply.agent].born <= agent'[req'[r].to].born
    <2>1. p \in Answered /\ p # r /\ req'[p] = req[p] /\ Follows(r, p)
      BY <1>1, <1>2, <1>4, <1>8 DEF Follows, History, Answered
    <2>2. PICK g \in Request : g = req[p].reply.agent
      BY <2>1 DEF History, Told, Placed
    <2>3. agent[g].born <= agent[h].born
      BY <1>1, <1>2, <2>1, <2>2 DEF History, Found
    <2>4. QED
      BY <1>4, <1>5, <2>1, <2>2, <2>3 DEF Grown
  <1>9. Found(r)'
    BY <1>4, <1>7, <1>8 DEF Found, Placed
  <1>10. req'[r].before \subseteq Answered
    BY <1>4 DEF History
  <1>11. QED
    BY <1>1, <1>4, <1>6, <1>9, <1>10, HistoryKept

\* A handler that is dropped loses what it reserved, and answers nothing.
LEMMA DisconnectHistory ==
  ASSUME Inv, Inv', History, NEW r \in Request, Disconnect(r)
  PROVE  History'
  <1>1. /\ TypeOK /\ req[r].pc \in {"queued", "acting"} /\ agents' = agents
        /\ req' = Error(r)
    BY DEF Inv, Disconnect
  <1>2. PICK h \in Request, cost \in Nat : h = req[r].to /\ cost = req[r].cost
    <2>1. req[r] \in RequestTypes /\ req[r].to \in Request
      BY <1>1 DEF Inv, Linked, TypeOK
    <2>2. req[r].cost \in Costs \cup {0}
      BY <2>1 DEF RequestTypes
    <2>3. \A n \in Tokens : n \in Nat
      BY MaxTokensAssumption DEF Tokens
    <2>4. QED
      BY <2>1, <2>2, <2>3, GatewayAssumption
  <1>3. PICK reserved \in Nat :
          reserved = IF req[r].pc = "acting" THEN req[r].cost ELSE 0
    BY <1>2
  <1>4. PICK queue :
          agent' = [agent EXCEPT ![h].queue = queue, ![h].lost = @ + reserved]
    BY <1>2, <1>3 DEF Disconnect
  <1>5. \A g \in Request : Grown(g)
    <2> TAKE g \in Request
    <2>1. PICK k \in Nat, b \in Nat, l \in Nat :
            k = agent[g].records /\ b = agent[g].billed /\ l = agent[g].lost
      BY <1>1 DEF TypeOK, AgentTypes
    <2>2. /\ agent'[g].born = agent[g].born /\ agent'[g].budget = agent[g].budget
          /\ agent'[g].records = k /\ agent'[g].billed = b
          /\ agent'[g].lost = l \/ agent'[g].lost = l + reserved
      BY <1>1, <1>4, <2>1 DEF TypeOK, AgentTypes
    <2>3. k >= k /\ b >= b /\ l >= l /\ l + reserved >= l
      OBVIOUS
    <2>4. QED
      BY <2>1, <2>2, <2>3 DEF Grown
  <1>6. /\ req'[r].pc = "failed" /\ req'[r].before = {}
        /\ \A q \in Request : q # r => req'[q] = req[q]
    BY <1>1 DEF Error, Unmade, TypeOK
  <1>7. QED
    BY <1>1, <1>5, <1>6, MoveHistory

\* A spawned agent is younger than all before it.
LEMMA SpawnHistory ==
  ASSUME Inv, Inv', History, NEW r \in Request, Spawn(r)
  PROVE  History'
  <1>1. /\ TypeOK /\ req[r].pc = "door" /\ req[r].at \in Node /\ req[r].id \in Id
        /\ agents' = [agents EXCEPT ![req[r].at][req[r].id] = r]
    BY DEF Spawn, Inv, Linked
  <1>2. PICK n \in Node, id \in Id, born \in Nat :
          n = req[r].at /\ id = req[r].id /\ born = Cardinality(Spawned) + 1
    BY <1>1, SpawnedFinite
  <1>3. PICK grant \in Tokens :
          LET a == [NoAgent EXCEPT !.born = born, !.budget = NewBudget(grant)]
          IN  agent' = [agent EXCEPT ![r] = a] /\ req' = Reply(r, Report(r, a))
    BY <1>2, GatewayAssumption DEF Spawn
  <1> DEFINE a == [NoAgent EXCEPT !.born = born, !.budget = NewBudget(grant)]
  <1>4. /\ a.born = born /\ a.records = 0 /\ a.billed = 0 /\ a.lost = 0
        /\ a.budget = [total |-> grant, spent |-> 0]
    BY DEF NoAgent, NewBudget
  <1>5. /\ agent'[r] = a /\ \A g \in Request : g # r => agent'[g] = agent[g]
        /\ req' = Reply(r, Report(r, a))
    BY <1>1, <1>3 DEF TypeOK
  <1> HIDE DEF a
  <1>6. /\ req'[r].pc = "answered" /\ req'[r].at = n /\ req'[r].id = id
        /\ req'[r].before = req[r].before /\ req'[r].reply = Report(r, a)
        /\ \A q \in Request : q # r => req'[q] = req[q]
    BY <1>1, <1>2, <1>5 DEF Reply, Unmade, TypeOK
  <1>7. agent[r].born = 0 /\ born # 0 /\ r \notin Spawned
    BY <1>1, <1>2, SpawnedFinite DEF Inv, Linked, Spawned
  <1>8. Spawned' = Spawned \cup {r}
    BY <1>4, <1>5, <1>7 DEF Spawned
  <1>9. Cardinality(Spawned') = born
    BY <1>2, <1>7, <1>8, SpawnedFinite, FS_AddElement
  <1>10. \A g \in Request : g # r => agent[g].born <= born /\ agent[g].born \in Nat
    <2> TAKE g \in Request
    <2>1. agent[g].born <= Cardinality(Spawned) /\ agent[g].born \in Nat
      BY <1>1 DEF History, TypeOK, AgentTypes
    <2>2. QED
      BY <1>2, <2>1, SpawnedFinite
  <1>11. \A g \in Request : agent'[g].born <= Cardinality(Spawned')
    BY <1>4, <1>5, <1>9, <1>10
  <1>12. Onward
    <2>1. ASSUME NEW g \in Spawned PROVE Grown(g)
      <3>1. g \in Request /\ g # r
        BY <1>7 DEF Spawned
      <3>2. QED
        BY <1>1, <1>5, <3>1, SameGrows
    <2>2. ASSUME NEW m \in Node, NEW i \in Id, agents[m][i] # None
          PROVE  /\ agents'[m][i] \in Request
                 /\ agent[agents[m][i]].born <= agent'[agents'[m][i]].born
      <3>1. PICK g \in Request : g = agents[m][i] /\ agent[g].born # 0
        BY <2>2 DEF Inv, Linked
      <3>2. g # r
        BY <1>7, <3>1
      <3>3. agents'[m][i] = g \/ agents'[m][i] = r
        BY <1>1, <3>1 DEF TypeOK
      <3>4. agent[g].born <= born /\ agent[g].born \in Nat
        BY <1>10, <3>2
      <3>5. QED
        BY <1>4, <1>5, <3>1, <3>2, <3>3, <3>4
    <2>3. QED
      BY <2>1, <2>2 DEF Onward
  <1>13. Told(r)'
    <2>1. /\ Report(r, a).agent = r /\ Report(r, a).records = 0
          /\ Report(r, a).left = Saturate(grant - 0)
      BY <1>4 DEF Report, Remaining
    <2>2. Saturate(grant - 0) \in Tokens
      BY SaturateType DEF Tokens
    <2>3. Report(r, a) \in Reports
      BY <1>4, <2>1, <2>2 DEF Report, Reports, Remaining
    <2>4. Placed(n, id, r)'
      <3>1. agents'[n][id] = r /\ r # None
        BY <1>1, <1>2, GatewayAssumption DEF TypeOK, Request
      <3>2. QED
        BY <1>4, <1>5, <1>7, <3>1 DEF Placed
    <2>5. Settled(r)' = Saturate(grant - 0)
      <3>1. Saturate(0) = 0
        BY MaxTokensAssumption DEF Saturate
      <3>2. QED
        BY <1>4, <1>5, <3>1 DEF Settled
    <2>6. \A k \in Tokens : k >= k
      BY DEF Tokens
    <2>7. agent'[r].records = 0
      BY <1>4, <1>5
    <2>8. QED
      BY <1>6, <2>1, <2>2, <2>3, <2>4, <2>5, <2>6, <2>7 DEF Told, Placed, Settled
  <1>14. ASSUME NEW p \in Answered, Follows(r, p)'
         PROVE  LET earlier == req[p].reply
                    later == req'[r].reply
                IN  /\ agent'[earlier.agent].born <= agent'[later.agent].born
                    /\ earlier.agent = later.agent =>
                         earlier.records <= later.records /\ earlier.left >= later.left
    <2>1. PICK g \in Request : g = req[p].reply.agent /\ agent[g].born # 0
      BY DEF History, Told, Placed
    <2>2. g # r /\ req'[r].reply.agent = r
      BY <1>6, <1>7, <2>1 DEF Report
    <2>3. agent'[g].born <= agent'[r].born
      BY <1>4, <1>5, <1>10, <2>2
    <2>4. QED
      BY <2>1, <2>2, <2>3
  <1>15. req'[r].before \subseteq Answered
    BY <1>6 DEF History
  <1>16. QED
    BY <1>1, <1>6, <1>11, <1>12, <1>13, <1>14, <1>15, HistoryKept

----------------------------------------------------------------------------
\* The theorems.

\* The invariant holds throughout.
LEMMA InvHolds == Spec => []Inv
  <1>1. Init => Inv
    BY InvInit
  <1>2. Inv /\ [Next]_vars => Inv'
    BY InvNext
  <1>3. QED
    BY <1>1, <1>2, PTL DEF Spec

\* The variables keep their types (TypeOK), with any number of gateways, agents
\* and requests: no saturating charge, settlement or refund leaves a u64, no
\* dropped handler leaves a hole in a queue.
THEOREM GatewayTyped == Spec => []TypeOK
  <1>1. Inv => TypeOK
    BY DEF Inv
  <1>2. QED
    BY <1>1, InvHolds, PTL

\* One request at a time is at work with an agent, the one at the head of its
\* queue (OneAtATime), whoever queues, fails and disconnects.
THEOREM GatewayOneAtATime == Spec => []OneAtATime
  <1>1. Inv => OneAtATime
    BY DEF Inv
  <1>2. QED
    BY <1>1, InvHolds, PTL

\* The ledger of every agent adds up (LedgerAddsUp): its spend is what its trail
\* bills, what dropped handlers left reserved and what is reserved now, clipped
\* to a u64.
THEOREM GatewayLedger == Spec => []LedgerAddsUp
  <1>1. Inv => LedgerAddsUp
    BY DEF Inv, Accounts, LedgerAddsUp, Spawned
  <1>2. QED
    BY <1>1, InvHolds, PTL

\* The history begins when nobody has asked for anything.
LEMMA HistoryInit == Init => History
  <1> SUFFICES ASSUME Init PROVE History
    OBVIOUS
  <1>1. /\ \A h \in Request : agent[h] = NoAgent
        /\ \A r \in Request : req[r] = Unmade
    BY DEF Init
  <1>2. Answered = {} /\ \A q \in Request : req[q].before = {}
                                            /\ req[q].pc = "unmade"
    BY <1>1 DEF Answered, Unmade
  <1>3. \A h \in Request : agent[h].born <= Cardinality(Spawned)
    BY <1>1, SpawnedFinite DEF NoAgent
  <1>4. QED
    BY <1>2, <1>3 DEF History, OneHistory

\* Every step goes on with it.
LEMMA HistoryNext == Inv /\ History /\ [Next]_vars => History'
  <1> SUFFICES ASSUME Inv, History, [Next]_vars PROVE History'
    OBVIOUS
  <1>1. Inv' /\ TypeOK
    BY InvNext DEF Inv
  <1>2. ASSUME UNCHANGED <<agents, agent, req>>
        PROVE  History'
    BY <1>2 DEF History, OneHistory, Answered, Spawned, Told, Placed, Found, Follows,
                Settled
  <1>3. agent' = agent => \A g \in Request : Grown(g)
    BY <1>1, SameGrows
  <1>4. ASSUME NEW r \in Request, Arrive(r) PROVE History'
    <2>1. /\ req[r].pc = "unmade" /\ agents' = agents /\ agent' = agent
          /\ req'[r].pc = "door" /\ req'[r].before = Answered
          /\ \A q \in Request : q # r => req'[q] = req[q]
      BY <1>1, <1>4 DEF Arrive, Unmade, TypeOK
    <2>2. QED
      BY <1>1, <1>3, <2>1, MoveHistory
  <1>5. ASSUME NEW r \in Request, Refuse(r) PROVE History'
    <2>1. /\ req[r].pc = "door" /\ agents' = agents /\ agent' = agent
          /\ req'[r].pc = "failed" /\ req'[r].before = {}
          /\ \A q \in Request : q # r => req'[q] = req[q]
      BY <1>1, <1>5 DEF Refuse, Error, Unmade, TypeOK
    <2>2. QED
      BY <1>1, <1>3, <2>1, MoveHistory
  <1>6. ASSUME NEW r \in Request, AskDirectory(r) PROVE History'
    <2> DEFINE to == directory[req[r].at][req[r].id]
               pc == IF to = None THEN "table" ELSE "peer"
    <2>1. pc \in {"table", "peer"} /\ req' = [req EXCEPT ![r].pc = pc, ![r].to = to]
      BY <1>6 DEF AskDirectory
    <2> HIDE DEF to, pc
    <2>2. /\ req[r].pc = "door" /\ agents' = agents /\ agent' = agent
          /\ req'[r].pc \in {"table", "peer"} /\ req'[r].before = req[r].before
          /\ \A q \in Request : q # r => req'[q] = req[q]
      BY <1>1, <1>6, <2>1 DEF AskDirectory, TypeOK, RequestTypes
    <2>3. QED
      BY <1>1, <1>3, <2>2, MoveHistory
  <1>7. ASSUME NEW r \in Request, Redirect(r) PROVE History'
    <2>1. req[r].pc = "peer" /\ agents' = agents /\ agent' = agent
      BY <1>7 DEF Redirect
    <2>2. /\ req'[r].pc \in {"door", "failed"}
          /\ req'[r].before \in {{}, req[r].before}
          /\ \A q \in Request : q # r => req'[q] = req[q]
      BY <1>1, <1>7 DEF Redirect, Error, Unmade, TypeOK, RequestTypes
    <2>3. QED
      BY <1>1, <1>3, <2>1, <2>2, MoveHistory
  <1>8. ASSUME NEW r \in Request,
               \/ ReadStatus(r) \/ Unaffordable(r) \/ Remember(r)
               \/ Complete(r) \/ Refund(r)
        PROVE  History'
    <2>1. \E h \in Request, a \in AgentTypes : Finished(r, h, a)
      BY <1>8, LockedFinish, WorkFinish
    <2>2. QED
      BY <1>1, <2>1, FinishHistory
  <1>9. ASSUME NEW r \in Request, Spawn(r) \/ Lookup(r) \/ Think(r) \/ Disconnect(r)
        PROVE  History'
    BY <1>1, <1>9, SpawnHistory, LookupHistory, ThinkHistory, DisconnectHistory
  <1>10. QED
    BY <1>2, <1>4, <1>5, <1>6, <1>7, <1>8, <1>9
       DEF Next, Handle, Rest, RegisterPeer, PlaceRemote, vars

\* Clients observe one history (OneHistory), whatever the number of gateways, of
\* agents and of requests, and wherever handlers are dropped: who asks after
\* another was answered is answered by the same agent or a younger one, and never
\* sees its trail shorter or more of its budget left.
THEOREM GatewayOneHistory == Spec => []OneHistory
  <1>1. Init => History
    BY HistoryInit
  <1>2. Inv /\ History /\ [Next]_vars => History'
    BY HistoryNext
  <1>3. History => OneHistory
    BY DEF History
  <1>4. QED
    BY <1>1, <1>2, <1>3, InvHolds, PTL DEF Spec

=============================================================================
