--------------------------- MODULE GovernorProofs ---------------------------
(***************************************************************************)
(* Proofs about the fleet and its two control planes, for any nodes,       *)
(* agents and bounds.                                                      *)
(*                                                                         *)
(* The fleet: its types, the single-instance fence, and the safety net of  *)
(* the self-update histories.                                              *)
(*                                                                         *)
(* The governor, for any policy, modes and budget: it acts only through    *)
(* the fleet's mechanisms, so the fleet's guarantees carry over, only on   *)
(* agents it holds a capability over, on no more of them than its mode     *)
(* allows, and in ticks it has paid for.                                   *)
(*                                                                         *)
(* The heuristic: it too acts only through the mechanisms, and no decision *)
(* of its plans takes away what a later one builds on.                     *)
(***************************************************************************)
EXTENDS Governor, HeuristicControl, WellFoundedInduction, FiniteSetTheorems, TLAPS

----------------------------------------------------------------------------
\* What the operations of a history return.

\* A newest committed generation exists.  (That a finite set of indices has a
\* largest one needs induction; here it is carried by the invariant.)
HasLast(h) == \E i \in Committed(h) : \A j \in Committed(h) : j <= i

\* LastCommitted chooses it.
LEMMA LastCommittedChosen ==
  ASSUME NEW h, HasLast(h)
  PROVE  /\ LastCommitted(h) \in Committed(h)
         /\ \A j \in Committed(h) : j <= LastCommitted(h)
  BY DEF HasLast, LastCommitted

\* It is the only one.
LEMMA LastCommittedUnique ==
  ASSUME NEW h, NEW i \in Committed(h), \A j \in Committed(h) : j <= i
  PROVE  HasLast(h) /\ LastCommitted(h) = i
  <1>1. HasLast(h)
    BY DEF HasLast
  <1>2. LastCommitted(h) <= i /\ i <= LastCommitted(h)
    BY <1>1, LastCommittedChosen
  <1>3. LastCommitted(h) \in Int /\ i \in Int
    BY <1>1, LastCommittedChosen DEF Committed
  <1>4. QED
    BY <1>1, <1>2, <1>3

\* What the type of a history says of its parts.
LEMMA HistoryTyped ==
  ASSUME NEW S, NEW h \in Histories(S)
  PROVE  /\ h.gens \in Seq(Generations(S))
         /\ Len(h.gens) \in Nat
         /\ h.next \in Nat
         /\ \A i \in 1 .. Len(h.gens) :
              /\ h.gens[i] \in Generations(S)
              /\ h.gens[i].number \in Nat
              /\ h.gens[i].checkpoint \in S
  <1>1. h.gens \in Seq(Generations(S)) /\ h.next \in Nat
    BY DEF Histories
  <1>2. Len(h.gens) \in Nat /\ \A i \in 1 .. Len(h.gens) : h.gens[i] \in Generations(S)
    BY <1>1
  <1>3. \A g \in Generations(S) : g.number \in Nat /\ g.checkpoint \in S
    BY DEF Generations
  <1>4. QED
    BY <1>1, <1>2, <1>3

\* Staging appends a candidate and leaves the committed generations alone.
LEMMA StageFacts ==
  ASSUME NEW S, NEW h \in Histories(S), HasLast(h), NEW c \in S
  PROVE  /\ Stage(h, c) \in Histories(S)
         /\ Len(Stage(h, c).gens) = Len(h.gens) + 1
         /\ \A i \in 1 .. Len(h.gens) : Stage(h, c).gens[i] = h.gens[i]
         /\ Stage(h, c).gens[Len(h.gens) + 1] = Generation(h.next, "Candidate", c)
         /\ Stage(h, c).next = h.next + 1
         /\ HasLast(Stage(h, c))
         /\ LastCommitted(Stage(h, c)) = LastCommitted(h)
  <1> DEFINE s == Stage(h, c)
             g == Generation(h.next, "Candidate", c)
  <1>1. h.gens \in Seq(Generations(S)) /\ h.next \in Nat
    BY DEF Histories
  <1>2. g \in Generations(S)
    BY <1>1 DEF Generation, Generations
  <1>3. s = [gens |-> Append(h.gens, g), next |-> h.next + 1]
    BY DEF Stage
  <1>4. /\ s.gens \in Seq(Generations(S)) /\ Len(s.gens) = Len(h.gens) + 1
        /\ \A i \in 1 .. Len(h.gens) : s.gens[i] = h.gens[i]
        /\ s.gens[Len(h.gens) + 1] = g
        /\ s.next = h.next + 1
    BY <1>1, <1>2, <1>3
  <1>5. s \in Histories(S)
    BY <1>1, <1>3, <1>4 DEF Histories
  <1>6. g.status = "Candidate"
    BY DEF Generation
  <1>7. Committed(s) = Committed(h)
    <2>1. Len(h.gens) \in Nat
      BY <1>1
    <2>2. QED
      BY <1>4, <1>6, <2>1 DEF Committed
  <1>8. HasLast(s) /\ LastCommitted(s) = LastCommitted(h)
    BY <1>7 DEF HasLast, LastCommitted
  <1>9. QED
    BY <1>4, <1>5, <1>8

\* Promotion commits the newest generation and changes no other.
LEMMA PromoteFacts ==
  ASSUME NEW S, NEW h \in Histories(S), Len(h.gens) > 0
  PROVE  /\ Promote(h) \in Histories(S)
         /\ Len(Promote(h).gens) = Len(h.gens)
         /\ \A i \in 1 .. Len(h.gens) :
              /\ Promote(h).gens[i].number = h.gens[i].number
              /\ Promote(h).gens[i].checkpoint = h.gens[i].checkpoint
              /\ Promote(h).gens[i].status =
                   IF i = Len(h.gens) THEN "Committed" ELSE h.gens[i].status
         /\ Promote(h).next = h.next
         /\ HasLast(Promote(h))
         /\ LastCommitted(Promote(h)) = Len(h.gens)
  <1> DEFINE p == Promote(h)
             n == Len(h.gens)
  <1>1. h.gens \in Seq(Generations(S)) /\ h.next \in Nat /\ n \in Nat
    BY DEF Histories
  <1>2. p = [gens |-> [h.gens EXCEPT ![n].status = "Committed"],
             next |-> h.next]
    BY DEF Promote
  <1>3. \A i \in 1 .. n : h.gens[i] \in Generations(S)
    BY <1>1
  <1>4. [h.gens[n] EXCEPT !.status = "Committed"] \in Generations(S)
    BY <1>1, <1>3 DEF Generations
  <1>5. /\ p.gens = [h.gens EXCEPT ![n].status = "Committed"]
        /\ p.next = h.next
    BY <1>2
  <1>6. p.gens \in Seq(Generations(S)) /\ Len(p.gens) = n
    BY <1>1, <1>4, <1>5
  <1>7. \A i \in 1 .. n :
          /\ p.gens[i].number = h.gens[i].number
          /\ p.gens[i].checkpoint = h.gens[i].checkpoint
          /\ p.gens[i].status =
               IF i = n THEN "Committed" ELSE h.gens[i].status
    BY <1>1, <1>3, <1>5 DEF Generations
  <1>8. p \in Histories(S)
    BY <1>1, <1>2, <1>5, <1>6 DEF Histories
  <1>9. n \in Committed(p) /\ \A j \in Committed(p) : j <= n
    BY <1>1, <1>6, <1>7 DEF Committed
  <1>10. HasLast(p) /\ LastCommitted(p) = n
    BY <1>9, LastCommittedUnique
  <1>11. QED
    BY <1>5, <1>6, <1>7, <1>8, <1>10

\* Rolling back keeps the generations up to the last committed one.
LEMMA RollbackFacts ==
  ASSUME NEW S, NEW h \in Histories(S), HasLast(h)
  PROVE  /\ Rollback(h) \in Histories(S)
         /\ LastCommitted(h) \in 1 .. Len(h.gens)
         /\ Len(Rollback(h).gens) = LastCommitted(h)
         /\ \A i \in 1 .. LastCommitted(h) : Rollback(h).gens[i] = h.gens[i]
         /\ Rollback(h).next = h.next
         /\ HasLast(Rollback(h))
         /\ LastCommitted(Rollback(h)) = LastCommitted(h)
  <1> DEFINE r == Rollback(h)
             k == LastCommitted(h)
  <1>1. h.gens \in Seq(Generations(S)) /\ h.next \in Nat
        /\ Len(h.gens) \in Nat
    BY DEF Histories
  <1>2. k \in Committed(h) /\ \A j \in Committed(h) : j <= k
    BY LastCommittedChosen
  <1>3. k \in 1 .. Len(h.gens) /\ h.gens[k].status = "Committed"
    BY <1>2 DEF Committed
  <1>4. r = [gens |-> SubSeq(h.gens, 1, k), next |-> h.next]
    BY DEF Rollback
  <1>5. /\ r.gens \in Seq(Generations(S)) /\ Len(r.gens) = k
        /\ \A i \in 1 .. k : r.gens[i] = h.gens[i]
    BY <1>1, <1>3, <1>4
  <1>6. r \in Histories(S) /\ r.next = h.next
    BY <1>1, <1>4, <1>5 DEF Histories
  <1>7. k \in Committed(r) /\ \A j \in Committed(r) : j <= k
    BY <1>3, <1>5 DEF Committed
  <1>8. HasLast(r) /\ LastCommitted(r) = k
    BY <1>7, LastCommittedUnique
  <1>9. QED
    BY <1>3, <1>5, <1>6, <1>8

\* A fresh history: the baseline, committed, is its last committed generation.
LEMMA InitFacts ==
  ASSUME NEW S, NEW c \in S
  PROVE  /\ InitHistory(c) \in Histories(S)
         /\ Len(InitHistory(c).gens) = 1
         /\ InitHistory(c).gens[1] = Generation(0, "Committed", c)
         /\ InitHistory(c).next = 1
         /\ HasLast(InitHistory(c))
         /\ LastCommitted(InitHistory(c)) = 1
  <1> DEFINE h == InitHistory(c)
             g == Generation(0, "Committed", c)
  <1>1. h = [gens |-> <<g>>, next |-> 1] /\ g \in Generations(S)
    BY DEF InitHistory, Generation, Generations
  <1>2. h.gens \in Seq(Generations(S)) /\ Len(h.gens) = 1 /\ h.gens[1] = g
    BY <1>1
  <1>3. 1 \in Committed(h) /\ \A j \in Committed(h) : j <= 1
    BY <1>2 DEF Committed, Generation
  <1>4. h \in Histories(S)
    BY <1>1, <1>2 DEF Histories
  <1>5. QED
    BY <1>1, <1>2, <1>3, <1>4, LastCommittedUnique

----------------------------------------------------------------------------
\* The fleet.

RegRecords == [node : Node, lastGood : Checkpoints, misses : Nat]

\* Every tracked history has a newest committed generation.
HistoriesSound == \A a \in Agents : Tracked(a) => HasLast(histories[a])

IInv == FleetTypeOK /\ HistoriesSound /\ SingleInstance

----------------------------------------------------------------------------
\* Checkpoints, instances and slots.

\* What checkpoint and restore return.
LEMMA Portable ==
  /\ \A i \in Instances : Checkpoint(i) \in Checkpoints
  /\ \A c \in Checkpoints, e \in BOOLEAN : Restored(c, e) \in Instances
  /\ \A v \in 0 .. MaxVersion, l \in BOOLEAN, e \in BOOLEAN :
       Instance(v, l, e) \in Instances
  /\ \A i \in Instances : /\ i.version \in 0 .. MaxVersion
                          /\ i.low \in BOOLEAN
                          /\ i.equipped \in BOOLEAN
  BY DEF Checkpoint, Restored, Instance, Checkpoints, Instances

\* An agent is hosted by the node HostOf names, and by no other.
LEMMA HostOfHosts ==
  ASSUME IInv, NEW a \in Agents
  PROVE  /\ HostOf(a) \in Node
         /\ Hosts(HostOf(a), a)
         /\ placement[HostOf(a)][a] \in Instances
         /\ \A m \in Node : Hosts(m, a) => m = HostOf(a)
  <1>1. PICK n \in Node : Hosts(n, a) /\ \A m \in Node : Hosts(m, a) => m = n
    BY DEF IInv, SingleInstance
  <1>2. Rank[n] <= Rank[n]
    BY FleetAssumption
  <1>3. HostOf(a) \in Node /\ Hosts(HostOf(a), a)
    BY <1>1, <1>2 DEF HostOf
  <1>4. placement[HostOf(a)][a] \in Instances
    BY <1>3 DEF IInv, FleetTypeOK, Hosts
  <1>5. QED
    BY <1>1, <1>3, <1>4

\* Overwriting the slot of a hosted agent keeps the types and who hosts whom.
LEMMA SlotUpdate ==
  ASSUME IInv, NEW n \in Node, NEW a \in Agents, Hosts(n, a),
         NEW i \in Instances, placement' = [placement EXCEPT ![n][a] = i]
  PROVE  /\ placement' \in [Node -> [Agents -> Instances \cup {Absent}]]
         /\ SingleInstance'
  <1>1. placement \in [Node -> [Agents -> Instances \cup {Absent}]]
    BY DEF IInv, FleetTypeOK
  <1>2. placement' \in [Node -> [Agents -> Instances \cup {Absent}]]
    BY <1>1
  <1>3. \A m \in Node, b \in Agents :
          placement'[m][b] = IF m = n /\ b = a THEN i ELSE placement[m][b]
    BY <1>1
  <1>4. \A m \in Node, b \in Agents : Hosts(m, b)' <=> Hosts(m, b)
    BY <1>3, FleetAssumption DEF Hosts
  <1>5. SingleInstance'
    BY <1>4 DEF IInv, SingleInstance
  <1>6. QED
    BY <1>2, <1>5

----------------------------------------------------------------------------
\* The mechanisms.

\* self_heal and drain_except leave exactly one instance, on the target.
LEMMA HealStep ==
  ASSUME IInv, NEW a \in Agents, NEW n \in Node,
         reg[a] # NotRegistered, Heal(a, n)
  PROVE  IInv'
  <1> DEFINE i == Restored(reg[a].lastGood, TRUE)
  <1>1. reg[a] \in RegRecords
    BY DEF IInv, FleetTypeOK, RegRecords
  <1>2. i \in Instances
    BY <1>1, Portable DEF RegRecords
  <1>3. placement \in [Node -> [Agents -> Instances \cup {Absent}]]
    BY DEF IInv, FleetTypeOK
  <1>4. placement' = [m \in Node |-> [placement[m] EXCEPT ![a] =
                        IF m = n THEN i ELSE Absent]]
    BY DEF Heal
  <1>5. placement' \in [Node -> [Agents -> Instances \cup {Absent}]]
    BY <1>2, <1>3, <1>4
  <1>6. \A m \in Node, b \in Agents :
          placement'[m][b] = IF b = a THEN IF m = n THEN i ELSE Absent
                             ELSE placement[m][b]
    BY <1>3, <1>4
  <1>7. SingleInstance'
    <2>1. \A m \in Node : Hosts(m, a)' <=> m = n
      BY <1>2, <1>6, FleetAssumption DEF Hosts
    <2>2. \A m \in Node, b \in Agents : b # a => (Hosts(m, b)' <=> Hosts(m, b))
      BY <1>6 DEF Hosts
    <2>3. QED
      BY <2>1, <2>2 DEF IInv, SingleInstance
  <1>8. Healed(reg[a], n) \in RegRecords
    BY <1>1 DEF Healed, Entry, RegRecords
  <1>9. reg' \in [Agents -> RegRecords \cup {NotRegistered}]
    BY <1>8 DEF Heal, IInv, FleetTypeOK, RegRecords
  <1>10. FleetTypeOK'
    BY <1>5, <1>9 DEF Heal, IInv, FleetTypeOK, RegRecords
  <1>11. HistoriesSound'
    BY DEF Heal, IInv, HistoriesSound, Tracked
  <1>12. QED
    BY <1>7, <1>10, <1>11 DEF IInv

\* A migration moves the only instance.
LEMMA MigrateStep ==
  ASSUME IInv, NEW a \in Agents, NEW from \in Node, NEW to \in Node,
         from = to \/ Hosts(from, a), Migrate(a, from, to)
  PROVE  IInv'
  <1>1. placement \in [Node -> [Agents -> Instances \cup {Absent}]]
    BY DEF IInv, FleetTypeOK
  <1>2. /\ placement' \in [Node -> [Agents -> Instances \cup {Absent}]]
        /\ SingleInstance'
    <2>1. CASE from = to
      BY <1>1, <2>1 DEF Migrate, IInv, SingleInstance, Hosts
    <2>2. CASE from # to
      <3> DEFINE i == Restored(Checkpoint(placement[from][a]), TRUE)
      <3>1. Hosts(from, a) /\ placement[from][a] \in Instances
        BY <1>1, <2>2 DEF Hosts
      <3>2. i \in Instances
        BY <3>1, Portable
      <3>3. placement' = [placement EXCEPT ![to][a] = i, ![from][a] = Absent]
        BY <2>2 DEF Migrate
      <3>4. placement' \in [Node -> [Agents -> Instances \cup {Absent}]]
        BY <1>1, <3>2, <3>3
      <3>5. \A m \in Node, b \in Agents :
              placement'[m][b] = IF b = a /\ m = from THEN Absent
                                 ELSE IF b = a /\ m = to THEN i
                                 ELSE placement[m][b]
        BY <1>1, <2>2, <3>3
      <3>6. \A m \in Node : Hosts(m, a) => m = from
        BY <3>1 DEF IInv, SingleInstance
      <3>7. \A m \in Node : Hosts(m, a)' <=> m = to
        <4> SUFFICES ASSUME NEW m \in Node PROVE Hosts(m, a)' <=> m = to
          OBVIOUS
        <4>1. i # Absent
          BY <3>2, FleetAssumption
        <4>2. placement'[m][a] = IF m = from THEN Absent
                                 ELSE IF m = to THEN i ELSE placement[m][a]
          BY <3>5
        <4>3. CASE m = from
          BY <2>2, <4>2, <4>3 DEF Hosts
        <4>4. CASE m = to
          BY <2>2, <4>1, <4>2, <4>4 DEF Hosts
        <4>5. CASE m # from /\ m # to
          BY <3>6, <4>2, <4>5 DEF Hosts
        <4>6. QED
          BY <4>3, <4>4, <4>5
      <3>8. \A m \in Node, b \in Agents : b # a => (Hosts(m, b)' <=> Hosts(m, b))
        BY <3>5 DEF Hosts
      <3>9. SingleInstance'
        BY <3>7, <3>8 DEF IInv, SingleInstance
      <3>10. QED
        BY <3>4, <3>9
    <2>3. QED
      BY <2>1, <2>2
  <1>3. FleetTypeOK'
    BY <1>2 DEF Migrate, IInv, FleetTypeOK
  <1>4. HistoriesSound'
    BY DEF Migrate, IInv, HistoriesSound, Tracked
  <1>5. QED
    BY <1>2, <1>3, <1>4 DEF IInv

\* A refill changes the budget of the only instance.
LEMMA RefillStep ==
  ASSUME IInv, NEW a \in Agents, NEW e \in BOOLEAN, Refill(a, e)
  PROVE  IInv'
  <1> DEFINE n == HostOf(a)
             i == Instance(placement[n][a].version, placement[n][a].low /\ ~e,
                           placement[n][a].equipped)
  <1>1. n \in Node /\ Hosts(n, a) /\ placement[n][a] \in Instances
    BY HostOfHosts
  <1>2. (placement[n][a].low /\ ~e) \in BOOLEAN
    OBVIOUS
  <1>3. i \in Instances
    BY <1>1, <1>2, Portable
  <1>4. placement' = [placement EXCEPT ![n][a] = i]
    BY DEF Refill
  <1>5. /\ placement' \in [Node -> [Agents -> Instances \cup {Absent}]]
        /\ SingleInstance'
    BY <1>1, <1>3, <1>4, SlotUpdate
  <1>6. FleetTypeOK'
    BY <1>5 DEF Refill, IInv, FleetTypeOK
  <1>7. HistoriesSound'
    BY DEF Refill, IInv, HistoriesSound, Tracked
  <1>8. QED
    BY <1>5, <1>6, <1>7 DEF IInv

\* A verdict on a history leaves the instances' number alone.
LEMMA PromoteStep ==
  ASSUME IInv, NEW a \in Agents, Candidate(a), PromoteUpdate(a)
  PROVE  IInv'
  <1> DEFINE h == histories[a]
  <1>1. h \in Histories(Checkpoints) /\ HasLast(h)
    BY DEF IInv, FleetTypeOK, HistoriesSound, Candidate, Tracked
  <1>2. Len(h.gens) > 0
    <2>1. LastCommitted(h) \in 1 .. Len(h.gens)
      BY <1>1, RollbackFacts
    <2>2. QED
      BY <1>1, <2>1, HistoryTyped
  <1>3. Promote(h) \in Histories(Checkpoints) /\ HasLast(Promote(h))
    BY <1>1, <1>2, PromoteFacts
  <1>4. histories' = [histories EXCEPT ![a] = Promote(h)]
    BY DEF PromoteUpdate
  <1>5. histories' \in [Agents -> Histories(Checkpoints) \cup {NotTracked}]
    BY <1>3, <1>4 DEF IInv, FleetTypeOK
  <1>6. rejected' \in [Agents -> SUBSET (0 .. MaxVersion)]
    BY DEF PromoteUpdate, IInv, FleetTypeOK
  <1>7. FleetTypeOK'
    BY <1>5, <1>6 DEF PromoteUpdate, IInv, FleetTypeOK
  <1>8. HistoriesSound'
    BY <1>3, <1>4 DEF IInv, FleetTypeOK, HistoriesSound, Tracked
  <1>9. SingleInstance'
    BY DEF PromoteUpdate, IInv, SingleInstance, Hosts
  <1>10. QED
    BY <1>7, <1>8, <1>9 DEF IInv

\* A rollback overwrites the only instance with the last good one.
LEMMA RollbackStep ==
  ASSUME IInv, NEW a \in Agents, Candidate(a), RollbackUpdate(a)
  PROVE  IInv'
  <1> DEFINE h == histories[a]
             r == Rollback(h)
             n == HostOf(a)
             popped == {h.gens[i].checkpoint.version :
                          i \in (Len(r.gens) + 1) .. Len(h.gens)}
             kept == {r.gens[i].checkpoint.version : i \in 1 .. Len(r.gens)}
  <1>1. h \in Histories(Checkpoints) /\ HasLast(h)
    BY DEF IInv, FleetTypeOK, HistoriesSound, Candidate, Tracked
  <1>2. /\ r \in Histories(Checkpoints) /\ HasLast(r)
        /\ LastCommitted(r) \in 1 .. Len(r.gens)
        /\ Len(r.gens) \in 1 .. Len(h.gens)
    BY <1>1, RollbackFacts
  <1>3. /\ histories' = [histories EXCEPT ![a] = r]
        /\ placement' = [placement EXCEPT ![n][a] = Restored(LastGood(r), FALSE)]
        /\ rejected' = [rejected EXCEPT ![a] = (@ \cup popped) \ kept]
        /\ UNCHANGED <<reg, dead, latest>>
    BY DEF RollbackUpdate
  <1>4. LastGood(r) \in Checkpoints
    BY <1>2, HistoryTyped DEF LastGood
  <1>5. Restored(LastGood(r), FALSE) \in Instances
    BY <1>4, Portable
  <1>6. n \in Node /\ Hosts(n, a)
    BY HostOfHosts
  <1>7. /\ placement' \in [Node -> [Agents -> Instances \cup {Absent}]]
        /\ SingleInstance'
    BY <1>3, <1>5, <1>6, SlotUpdate
  <1>8. histories' \in [Agents -> Histories(Checkpoints) \cup {NotTracked}]
    BY <1>2, <1>3 DEF IInv, FleetTypeOK
  <1>9. popped \subseteq 0 .. MaxVersion
    <2>1. \A i \in (Len(r.gens) + 1) .. Len(h.gens) : i \in 1 .. Len(h.gens)
      BY <1>1, <1>2, HistoryTyped
    <2>2. \A c \in Checkpoints : c.version \in 0 .. MaxVersion
      BY DEF Checkpoints
    <2>3. QED
      BY <1>1, <2>1, <2>2, HistoryTyped
  <1>10. rejected' \in [Agents -> SUBSET (0 .. MaxVersion)]
    BY <1>3, <1>9 DEF IInv, FleetTypeOK
  <1>11. FleetTypeOK'
    BY <1>3, <1>7, <1>8, <1>10 DEF IInv, FleetTypeOK
  <1>12. HistoriesSound'
    BY <1>2, <1>3 DEF IInv, FleetTypeOK, HistoriesSound, Tracked
  <1>13. QED
    BY <1>7, <1>11, <1>12 DEF IInv

\* Any decision that can be actuated keeps the invariant.
LEMMA ActuateStep ==
  ASSUME IInv, NEW d \in Decisions, Actuate(d)
  PROVE  IInv'
  <1>1. CASE d.kind = "Heal"
    <2>1. d.agent \in Agents /\ d.onto \in Node
      BY <1>1 DEF Decisions
    <2>2. reg[d.agent] # NotRegistered /\ Heal(d.agent, d.onto)
      BY <1>1 DEF Actuate, Applicable
    <2>3. QED
      BY <2>1, <2>2, HealStep
  <1>2. CASE d.kind = "Migrate"
    <2>1. d.agent \in Agents /\ d.from \in Node /\ d.to \in Node
      BY <1>2 DEF Decisions
    <2>2. /\ d.from = d.to \/ Hosts(d.from, d.agent)
          /\ Migrate(d.agent, d.from, d.to)
      BY <1>2 DEF Actuate, Applicable
    <2>3. QED
      BY <2>1, <2>2, MigrateStep
  <1>3. CASE d.kind = "Refill"
    <2>1. d.agent \in Agents /\ d.enough \in BOOLEAN
      BY <1>3 DEF Decisions
    <2>2. Refill(d.agent, d.enough)
      BY <1>3 DEF Actuate
    <2>3. QED
      BY <2>1, <2>2, RefillStep
  <1>4. CASE d.kind = "Promote"
    <2>1. d.agent \in Agents
      BY DEF Decisions
    <2>2. Candidate(d.agent) /\ PromoteUpdate(d.agent)
      BY <1>4 DEF Actuate, Applicable
    <2>3. QED
      BY <2>1, <2>2, PromoteStep
  <1>5. CASE d.kind = "Rollback"
    <2>1. d.agent \in Agents
      BY DEF Decisions
    <2>2. Candidate(d.agent) /\ RollbackUpdate(d.agent)
      BY <1>5 DEF Actuate, Applicable
    <2>3. QED
      BY <2>1, <2>2, RollbackStep
  <1>6. QED
    BY <1>1, <1>2, <1>3, <1>4, <1>5 DEF Actuate

----------------------------------------------------------------------------
\* The rest of the system.

\* Work and self-updates overwrite the slot of a hosted agent.
LEMMA WorkStep ==
  ASSUME IInv, NEW n \in Node, NEW a \in Agents,
         Exhaust(n, a) \/ SelfUpdates(n, a)
  PROVE  IInv'
  <1> DEFINE j == placement[n][a]
  <1>1. Hosts(n, a)
    BY DEF Exhaust, SelfUpdates, Running
  <1>2. j \in Instances
    BY <1>1 DEF IInv, FleetTypeOK, Hosts
  <1>3. PICK i \in Instances : placement' = [placement EXCEPT ![n][a] = i]
    <2>1. CASE Exhaust(n, a)
      <3>1. Instance(j.version, TRUE, j.equipped) \in Instances
        BY <1>2, Portable
      <3>2. QED
        BY <2>1, <3>1 DEF Exhaust
    <2>2. CASE SelfUpdates(n, a)
      <3>1. latest[a] + 1 \in 0 .. MaxVersion
        BY <2>2, FleetAssumption DEF SelfUpdates, IInv, FleetTypeOK
      <3>2. Instance(latest[a] + 1, j.low, j.equipped) \in Instances
        BY <1>2, <3>1, Portable
      <3>3. QED
        BY <2>2, <3>2 DEF SelfUpdates
    <2>3. QED
      BY <2>1, <2>2
  <1>4. /\ placement' \in [Node -> [Agents -> Instances \cup {Absent}]]
        /\ SingleInstance'
    BY <1>1, <1>3, SlotUpdate
  <1>5. latest' \in [Agents -> 0 .. MaxVersion]
    <2>1. CASE Exhaust(n, a)
      BY <2>1 DEF Exhaust, IInv, FleetTypeOK
    <2>2. CASE SelfUpdates(n, a)
      <3>1. latest[a] + 1 \in 0 .. MaxVersion
        BY <2>2, FleetAssumption DEF SelfUpdates, IInv, FleetTypeOK
      <3>2. QED
        BY <2>2, <3>1 DEF SelfUpdates, IInv, FleetTypeOK
    <2>3. QED
      BY <2>1, <2>2
  <1>6. UNCHANGED <<reg, histories, dead, rejected>>
    BY DEF Exhaust, SelfUpdates
  <1>7. FleetTypeOK'
    BY <1>4, <1>5, <1>6 DEF IInv, FleetTypeOK
  <1>8. HistoriesSound'
    BY <1>6 DEF IInv, HistoriesSound, Tracked
  <1>9. QED
    BY <1>4, <1>7, <1>8 DEF IInv

\* Tracking and staging change one history.
LEMMA HistoryStep ==
  ASSUME IInv, NEW a \in Agents, Track(a) \/ StageCandidate(a)
  PROVE  IInv'
  <1> DEFINE c == Checkpoint(placement[HostOf(a)][a])
  <1>1. c \in Checkpoints
    BY HostOfHosts, Portable
  <1>2. PICK h \in Histories(Checkpoints) :
          HasLast(h) /\ histories' = [histories EXCEPT ![a] = h]
    <2>1. CASE Track(a)
      <3>1. InitHistory(c) \in Histories(Checkpoints) /\ HasLast(InitHistory(c))
        BY <1>1, InitFacts
      <3>2. QED
        BY <2>1, <3>1 DEF Track
    <2>2. CASE StageCandidate(a)
      <3>1. histories[a] \in Histories(Checkpoints) /\ HasLast(histories[a])
        BY <2>2 DEF StageCandidate, IInv, FleetTypeOK, HistoriesSound, Tracked
      <3>2. /\ Stage(histories[a], c) \in Histories(Checkpoints)
            /\ HasLast(Stage(histories[a], c))
        BY <1>1, <3>1, StageFacts
      <3>3. QED
        BY <2>2, <3>2 DEF StageCandidate
    <2>3. QED
      BY <2>1, <2>2
  <1>3. UNCHANGED <<placement, reg, dead, latest, rejected>>
    BY DEF Track, StageCandidate
  <1>4. histories' \in [Agents -> Histories(Checkpoints) \cup {NotTracked}]
    BY <1>2 DEF IInv, FleetTypeOK
  <1>5. FleetTypeOK'
    BY <1>3, <1>4 DEF IInv, FleetTypeOK
  <1>6. HistoriesSound'
    BY <1>2 DEF IInv, FleetTypeOK, HistoriesSound, Tracked
  <1>7. SingleInstance'
    BY <1>3 DEF IInv, SingleInstance, Hosts
  <1>8. QED
    BY <1>5, <1>6, <1>7 DEF IInv

\* Supervision changes the registry only.
LEMMA RegistryStep ==
  ASSUME IInv,
         \/ \E n \in Node, a \in Agents : Pull(n, a) \/ Report(n, a)
         \/ SupervisorTick
  PROVE  IInv'
  <1>1. UNCHANGED <<placement, histories, dead, latest, rejected>>
    BY DEF Pull, Report, SupervisorTick
  <1>2. reg' \in [Agents -> RegRecords \cup {NotRegistered}]
    <2>1. reg \in [Agents -> RegRecords \cup {NotRegistered}]
      BY DEF IInv, FleetTypeOK, RegRecords
    <2>2. ASSUME NEW n \in Node, NEW a \in Agents, Pull(n, a) \/ Report(n, a)
          PROVE  reg' \in [Agents -> RegRecords \cup {NotRegistered}]
      <3> DEFINE c == Checkpoint(placement[n][a])
      <3>1. placement[n][a] \in Instances
        BY <2>2 DEF Pull, Report, Running, Hosts, IInv, FleetTypeOK
      <3>2. c \in Checkpoints
        BY <3>1, Portable
      <3>3. Register(n, c) \in RegRecords
        BY <3>2 DEF Register, Entry, RegRecords
      <3>4. \A r \in RegRecords : /\ Observe(r, n, c) \in RegRecords
                                  /\ Heartbeat(r) \in RegRecords
        BY <3>2 DEF Observe, Heartbeat, Entry, RegRecords
      <3>5. PICK r \in RegRecords : reg' = [reg EXCEPT ![a] = r]
        <4>1. CASE Pull(n, a)
          BY <2>1, <3>3, <3>4, <4>1 DEF Pull
        <4>2. CASE Report(n, a)
          BY <2>1, <3>3, <3>4, <4>2 DEF Report
        <4>3. QED
          BY <2>2, <4>1, <4>2
      <3>6. QED
        BY <2>1, <3>5
    <2>3. CASE SupervisorTick
      <3>1. \A r \in RegRecords : Missed(r) \in RegRecords
        BY DEF Missed, Entry, RegRecords
      <3>2. QED
        BY <2>1, <2>3, <3>1 DEF SupervisorTick
    <2>4. QED
      BY <2>2, <2>3
  <1>3. FleetTypeOK'
    BY <1>1, <1>2 DEF IInv, FleetTypeOK, RegRecords
  <1>4. HistoriesSound'
    BY <1>1 DEF IInv, HistoriesSound, Tracked
  <1>5. SingleInstance'
    BY <1>1 DEF IInv, SingleInstance, Hosts
  <1>6. QED
    BY <1>3, <1>4, <1>5 DEF IInv

\* So does the failure of a node keep it, and a step that changes nothing.
LEMMA QuietStep ==
  ASSUME IInv, UNCHANGED fleet \/ \E n \in Node : Fail(n)
  PROVE  IInv'
  <1>1. UNCHANGED <<placement, reg, histories, latest, rejected>>
        /\ dead' \subseteq Node
    BY DEF fleet, Fail, IInv, FleetTypeOK
  <1>2. QED
    BY <1>1 DEF IInv, FleetTypeOK, HistoriesSound, Tracked, SingleInstance, Hosts

----------------------------------------------------------------------------
\* The invariant holds at first.
LEMMA InitIInv == FleetInit => IInv
  <1> SUFFICES ASSUME FleetInit PROVE IInv
    OBVIOUS
  <1>1. PICK home \in [Agents -> Node] :
          placement = [n \in Node |-> [a \in Agents |->
             IF home[a] = n THEN Instance(0, FALSE, TRUE) ELSE Absent]]
    BY DEF FleetInit
  <1>2. 0 \in 0 .. MaxVersion
    BY FleetAssumption
  <1>3. Instance(0, FALSE, TRUE) \in Instances
    BY <1>2, Portable
  <1>4. FleetTypeOK
    BY <1>1, <1>2, <1>3 DEF FleetInit, FleetTypeOK
  <1>5. HistoriesSound
    BY DEF FleetInit, HistoriesSound, Tracked
  <1>6. SingleInstance
    <2>1. \A n \in Node, a \in Agents : Hosts(n, a) <=> n = home[a]
      BY <1>1, <1>3, FleetAssumption DEF Hosts
    <2>2. QED
      BY <2>1 DEF SingleInstance
  <1>7. QED
    BY <1>4, <1>5, <1>6 DEF IInv

\* Every step keeps the invariant.
LEMMA NextIInv == IInv /\ [FleetNext]_fleet => IInv'
  <1> SUFFICES ASSUME IInv, [FleetNext]_fleet PROVE IInv'
    OBVIOUS
  <1>1. CASE Surroundings
    BY <1>1, WorkStep, HistoryStep, RegistryStep, QuietStep DEF Surroundings
  <1>2. CASE \E d \in Decisions : Actuate(d)
    BY <1>2, ActuateStep
  <1>3. CASE UNCHANGED fleet
    BY <1>3, QuietStep
  <1>4. QED
    BY <1>1, <1>2, <1>3 DEF FleetNext

\* The invariant holds throughout.
LEMMA Inductive == FleetSpec => []IInv
  BY InitIInv, NextIInv, PTL DEF FleetSpec

\* Types: every reachable fleet is well typed, so whatever is restored - the
\* supervisor's checkpoint, a migrated one, a rolled back generation - is a
\* checkpoint of an agent.
THEOREM FleetTypes == FleetSpec => []FleetTypeOK
  BY Inductive, PTL DEF IInv

\* The single-instance fence of drain_except: for any policy, any number of
\* nodes and agents and any failures, each agent is hosted exactly once.
THEOREM OneInstance == FleetSpec => []SingleInstance
  BY Inductive, PTL DEF IInv

----------------------------------------------------------------------------
\* Updates: the versions that are known, and those that were rolled back.

\* A history that is a safety net: its baseline is committed, it holds nothing
\* newer than the newest update, and what it would restore is not rejected.
Sound(h, newest, bad) ==
    /\ Len(h.gens) >= 1
    /\ h.gens[1].number = 0 /\ h.gens[1].status = "Committed"
    /\ \A i \in 1 .. Len(h.gens) : h.gens[i].checkpoint.version <= newest
    /\ LastGood(h).version \notin bad

\* Agents and the supervisor know no version that was never made; nothing is
\* rejected without a history; and every history is a safety net.
Known(a) ==
    /\ \A n \in Node : Hosts(n, a) => placement[n][a].version <= latest[a]
    /\ reg[a] # NotRegistered => reg[a].lastGood.version <= latest[a]
    /\ rejected[a] \subseteq 0 .. latest[a]
    /\ IF Tracked(a) THEN Sound(histories[a], latest[a], rejected[a])
       ELSE rejected[a] = {}

UpdatesKnown == \A a \in Agents : Known(a)

\* The fields of checkpoints and instances.
LEMMA VersionTypes ==
  /\ \A c \in Checkpoints : c.version \in 0 .. MaxVersion /\ c.version \in Nat
  /\ \A i \in Instances : Checkpoint(i).version = i.version
  /\ \A c \in Checkpoints, e \in BOOLEAN : Restored(c, e).version = c.version
  /\ \A v, l, e : Instance(v, l, e).version = v
  BY FleetAssumption DEF Checkpoints, Instances, Checkpoint, Restored, Instance

\* A fresh history is sound, whatever it starts from.
LEMMA InitSound ==
  ASSUME NEW c \in Checkpoints, NEW newest \in Nat, c.version <= newest
  PROVE  Sound(InitHistory(c), newest, {})
  <1>1. /\ Len(InitHistory(c).gens) = 1
        /\ InitHistory(c).gens[1] = Generation(0, "Committed", c)
        /\ LastCommitted(InitHistory(c)) = 1
    BY InitFacts
  <1>2. QED
    BY <1>1 DEF Sound, LastGood, Generation

\* Staging what runs keeps a history sound.
LEMMA StageSound ==
  ASSUME NEW h \in Histories(Checkpoints), HasLast(h), NEW c \in Checkpoints,
         NEW newest \in Nat, NEW bad, Sound(h, newest, bad), c.version <= newest
  PROVE  Sound(Stage(h, c), newest, bad)
  <1> DEFINE s == Stage(h, c)
  <1>1. /\ Len(s.gens) = Len(h.gens) + 1
        /\ \A i \in 1 .. Len(h.gens) : s.gens[i] = h.gens[i]
        /\ s.gens[Len(h.gens) + 1] = Generation(h.next, "Candidate", c)
        /\ LastCommitted(s) = LastCommitted(h)
    BY StageFacts
  <1>2. Len(h.gens) \in Nat /\ LastCommitted(h) \in 1 .. Len(h.gens)
    BY HistoryTyped, RollbackFacts
  <1> HIDE DEF s
  <1>3. LastGood(s) = LastGood(h)
    BY <1>1, <1>2 DEF LastGood
  <1>4. \A i \in 1 .. Len(s.gens) : s.gens[i].checkpoint.version <= newest
    <2> TAKE i \in 1 .. Len(s.gens)
    <2>1. CASE i \in 1 .. Len(h.gens)
      BY <1>1, <2>1 DEF Sound
    <2>2. CASE i = Len(h.gens) + 1
      BY <1>1, <2>2 DEF Generation
    <2>3. QED
      BY <1>1, <1>2, <2>1, <2>2
  <1>5. Len(s.gens) >= 1 /\ s.gens[1] = h.gens[1]
    BY <1>1, <1>2 DEF Sound
  <1>6. QED
    BY <1>3, <1>4, <1>5 DEF Sound, s

\* Promoting the newest generation does: it is not rejected any more.
LEMMA PromoteSound ==
  ASSUME NEW h \in Histories(Checkpoints), NEW newest \in Nat, NEW bad,
         Sound(h, newest, bad)
  PROVE  Sound(Promote(h), newest, bad \ {Newest(h).checkpoint.version})
  <1> DEFINE p == Promote(h)
  <1>1. Len(h.gens) \in Nat /\ Len(h.gens) >= 1
    BY HistoryTyped DEF Sound
  <1>2. /\ Len(p.gens) = Len(h.gens)
        /\ \A i \in 1 .. Len(h.gens) :
             /\ p.gens[i].number = h.gens[i].number
             /\ p.gens[i].checkpoint = h.gens[i].checkpoint
             /\ p.gens[i].status =
                  IF i = Len(h.gens) THEN "Committed" ELSE h.gens[i].status
        /\ LastCommitted(p) = Len(h.gens)
    BY <1>1, PromoteFacts
  <1> HIDE DEF p
  <1>3. LastGood(p) = Newest(h).checkpoint
    BY <1>1, <1>2 DEF LastGood, Newest
  <1>4. p.gens[1].number = 0 /\ p.gens[1].status = "Committed"
    BY <1>1, <1>2 DEF Sound
  <1>5. \A i \in 1 .. Len(p.gens) : p.gens[i].checkpoint.version <= newest
    BY <1>2 DEF Sound
  <1>6. QED
    BY <1>1, <1>2, <1>3, <1>4, <1>5 DEF Sound, p

\* So does rolling back: what is popped is rejected, what is kept is not.
LEMMA RollbackSound ==
  ASSUME NEW h \in Histories(Checkpoints), HasLast(h), NEW newest \in Nat, NEW bad,
         Sound(h, newest, bad),
         NEW popped, NEW kept,
         kept = {Rollback(h).gens[i].checkpoint.version :
                   i \in 1 .. Len(Rollback(h).gens)}
  PROVE  /\ Sound(Rollback(h), newest, (bad \cup popped) \ kept)
         /\ LastGood(Rollback(h)).version \in kept
         /\ LastGood(Rollback(h)) \in Checkpoints
         /\ LastGood(Rollback(h)).version <= newest
  <1> DEFINE r == Rollback(h)
             k == LastCommitted(h)
  <1>1. /\ r \in Histories(Checkpoints)
        /\ k \in 1 .. Len(h.gens) /\ Len(r.gens) = k
        /\ \A i \in 1 .. k : r.gens[i] = h.gens[i]
        /\ LastCommitted(r) = k
        /\ Len(h.gens) \in Nat
    BY RollbackFacts, HistoryTyped
  <1>2. kept = {r.gens[i].checkpoint.version : i \in 1 .. Len(r.gens)}
    OBVIOUS
  <1> HIDE DEF r, k
  <1>3. k \in 1 .. k /\ 1 \in 1 .. k /\ k \in Nat
    BY <1>1
  <1>4. LastGood(r) = r.gens[k].checkpoint
    BY <1>1 DEF LastGood
  <1>5. LastGood(r).version \in kept
    BY <1>1, <1>2, <1>3, <1>4
  <1>6. \A i \in 1 .. Len(r.gens) : r.gens[i].checkpoint.version <= newest
    BY <1>1 DEF Sound
  <1>7. r.gens[1].number = 0 /\ r.gens[1].status = "Committed"
    BY <1>1, <1>3 DEF Sound
  <1>8. LastGood(r) \in Checkpoints
    BY <1>1, <1>3, <1>4, HistoryTyped
  <1>9. QED
    BY <1>1, <1>3, <1>4, <1>5, <1>6, <1>7, <1>8, SMTT(30) DEF Sound, r

\* The parts of the invariants that the steps below read.
LEMMA KnownTypes ==
  ASSUME IInv, NEW a \in Agents
  PROVE  /\ latest[a] \in Nat /\ rejected[a] \in SUBSET Nat
         /\ \A n \in Node : Hosts(n, a) => placement[n][a] \in Instances
                                           /\ placement[n][a].version \in Nat
         /\ reg[a] # NotRegistered => reg[a].lastGood \in Checkpoints
                                      /\ reg[a].lastGood.version \in Nat
         /\ Tracked(a) => histories[a] \in Histories(Checkpoints)
                          /\ HasLast(histories[a])
  <1>1. \A n \in Node : Hosts(n, a) => placement[n][a] \in Instances
    BY DEF IInv, FleetTypeOK, Hosts
  <1>2. reg[a] # NotRegistered => reg[a].lastGood \in Checkpoints
    BY DEF IInv, FleetTypeOK
  <1>3. \A i \in Instances : i.version \in Nat
    BY FleetAssumption DEF Instances
  <1>4. QED
    BY <1>1, <1>2, <1>3, VersionTypes, FleetAssumption
    DEF IInv, FleetTypeOK, HistoriesSound, Tracked

\* What OnlyHealsRevive says of one agent in one step.
Revival(a) ==
    ~RunsRejected(a) /\ RunsRejected(a)' =>
      /\ histories'[a] = histories[a]
      /\ reg[a] # NotRegistered /\ reg[a].lastGood.version \in rejected[a]

\* What runs after a step ran before it.
Carried(a) ==
    \A n \in Node : Hosts(n, a)' => \E m \in Node :
        Hosts(m, a) /\ placement'[n][a].version = placement[m][a].version

\* Nothing rejected comes to life by a step that rejects nothing and gives
\* agents only versions that they ran.
LEMMA CarriedRevivesNone ==
  ASSUME NEW a \in Agents, Carried(a), rejected'[a] \subseteq rejected[a]
  PROVE  Revival(a)
  BY DEF Carried, Revival, RunsRejected

\* A step that gives agents only versions that they ran, or that the supervisor
\* holds, and leaves the rest alone.
LEMMA SlotsKeepKnown ==
  ASSUME UpdatesKnown,
         \A a \in Agents, n \in Node : Hosts(n, a)' =>
           \/ \E m \in Node : Hosts(m, a) /\ placement'[n][a].version
                                              = placement[m][a].version
           \/ reg[a] # NotRegistered /\ placement'[n][a].version
                                              = reg[a].lastGood.version,
         UNCHANGED <<reg, histories, latest, rejected>>
  PROVE  UpdatesKnown' /\ \A a \in Agents : Revival(a)
  <1>1. UpdatesKnown'
    BY DEF UpdatesKnown, Known, Tracked
  <1>2. \A a \in Agents : Revival(a)
    BY DEF Revival, RunsRejected
  <1>3. QED
    BY <1>1, <1>2

\* A step that changes one slot, keeping its version.
LEMMA SlotKeepsVersion ==
  ASSUME IInv, UpdatesKnown, NEW n \in Node, NEW a \in Agents, Hosts(n, a), NEW i,
         i.version = placement[n][a].version,
         placement' = [placement EXCEPT ![n][a] = i],
         UNCHANGED <<reg, histories, latest, rejected>>
  PROVE  UpdatesKnown' /\ \A b \in Agents : Revival(b)
  <1>1. placement \in [Node -> [Agents -> Instances \cup {Absent}]]
    BY DEF IInv, FleetTypeOK
  <1>2. \A m \in Node, b \in Agents :
          placement'[m][b] = IF m = n /\ b = a THEN i ELSE placement[m][b]
    BY <1>1
  <1>3. \A b \in Agents, m \in Node : Hosts(m, b)' =>
          Hosts(m, b) /\ placement'[m][b].version = placement[m][b].version
    BY <1>2 DEF Hosts
  <1>4. QED
    BY <1>3, SlotsKeepKnown

\* A heal keeps what is known of updates, and may revive one.
LEMMA HealKnown ==
  ASSUME IInv, UpdatesKnown, NEW a \in Agents, NEW n \in Node,
         reg[a] # NotRegistered, Heal(a, n)
  PROVE  UpdatesKnown' /\ \A b \in Agents : Revival(b)
  <1> DEFINE i == Restored(reg[a].lastGood, TRUE)
  <1>1. placement \in [Node -> [Agents -> Instances \cup {Absent}]]
    BY DEF IInv, FleetTypeOK
  <1>2. reg[a].lastGood \in Checkpoints /\ i.version = reg[a].lastGood.version
    BY KnownTypes, VersionTypes
  <1> HIDE DEF i
  <1>3. \A m \in Node, b \in Agents :
          placement'[m][b] = IF b = a THEN IF m = n THEN i ELSE Absent
                             ELSE placement[m][b]
    BY <1>1 DEF Heal, i
  <1>4. \A b \in Agents, m \in Node : Hosts(m, b)' =>
          IF b = a THEN placement'[m][b].version = reg[b].lastGood.version
          ELSE Hosts(m, b) /\ placement'[m][b].version = placement[m][b].version
    BY <1>2, <1>3 DEF Hosts
  <1>5. /\ reg \in [Agents -> RegRecords \cup {NotRegistered}]
        /\ \A b \in Agents : reg'[b] # NotRegistered =>
             reg[b] # NotRegistered /\ reg'[b].lastGood = reg[b].lastGood
    BY DEF Heal, Healed, Entry, IInv, FleetTypeOK, RegRecords
  <1>6. UNCHANGED <<histories, latest, rejected>>
    BY DEF Heal
  <1>7. UpdatesKnown'
    BY <1>4, <1>5, <1>6 DEF UpdatesKnown, Known, Tracked
  <1>8. \A b \in Agents : Revival(b)
    BY <1>4, <1>6 DEF Revival, RunsRejected
  <1>9. QED
    BY <1>7, <1>8

\* A migration keeps what is known of updates and revives none.
LEMMA MigrateKnown ==
  ASSUME IInv, UpdatesKnown, NEW a \in Agents, NEW from \in Node, NEW to \in Node,
         from = to \/ Hosts(from, a), Migrate(a, from, to)
  PROVE  UpdatesKnown' /\ \A b \in Agents : Revival(b)
  <1>1. placement \in [Node -> [Agents -> Instances \cup {Absent}]]
    BY DEF IInv, FleetTypeOK
  <1>2. UNCHANGED <<reg, histories, latest, rejected>>
    BY DEF Migrate
  <1>3. CASE from = to
    <2>1. placement' = placement
      BY <1>3 DEF Migrate
    <2>2. \A b \in Agents, m \in Node : Hosts(m, b)' =>
            Hosts(m, b) /\ placement'[m][b].version = placement[m][b].version
      BY <2>1 DEF Hosts
    <2>3. QED
      BY <1>2, <2>2, SlotsKeepKnown
  <1>4. CASE from # to
    <2> DEFINE i == Restored(Checkpoint(placement[from][a]), TRUE)
    <2>1. Hosts(from, a) /\ placement[from][a] \in Instances
      BY <1>1, <1>4 DEF Hosts
    <2>2. i.version = placement[from][a].version
      BY <2>1, VersionTypes, Portable
    <2> HIDE DEF i
    <2>3. \A m \in Node, b \in Agents :
            placement'[m][b] = IF b = a /\ m = from THEN Absent
                               ELSE IF b = a /\ m = to THEN i
                               ELSE placement[m][b]
      BY <1>1, <1>4 DEF Migrate, i
    <2>4. \A b \in Agents, m \in Node : Hosts(m, b)' => \E l \in Node :
            Hosts(l, b) /\ placement'[m][b].version = placement[l][b].version
      BY <2>1, <2>2, <2>3 DEF Hosts
    <2>5. QED
      BY <1>2, <2>4, SlotsKeepKnown
  <1>5. QED
    BY <1>3, <1>4

\* A refill or a throttle keeps what is known of updates and revives none.
LEMMA BudgetKnown ==
  ASSUME IInv, UpdatesKnown, NEW a \in Agents,
         \/ \E e \in BOOLEAN : Refill(a, e)
         \/ \E n \in Node : Exhaust(n, a)
  PROVE  UpdatesKnown' /\ \A b \in Agents : Revival(b)
  <1>1. ASSUME NEW e \in BOOLEAN, Refill(a, e)
        PROVE  UpdatesKnown' /\ \A b \in Agents : Revival(b)
    <2> DEFINE n == HostOf(a)
               i == Instance(placement[n][a].version, placement[n][a].low /\ ~e,
                             placement[n][a].equipped)
    <2>1. n \in Node /\ Hosts(n, a)
      BY HostOfHosts
    <2>2. i.version = placement[n][a].version
      BY VersionTypes
    <2>3. placement' = [placement EXCEPT ![n][a] = i]
          /\ UNCHANGED <<reg, histories, latest, rejected>>
      BY <1>1 DEF Refill
    <2> HIDE DEF n, i
    <2>4. QED
      BY <2>1, <2>2, <2>3, SlotKeepsVersion
  <1>2. ASSUME NEW n \in Node, Exhaust(n, a)
        PROVE  UpdatesKnown' /\ \A b \in Agents : Revival(b)
    <2> DEFINE i == Instance(placement[n][a].version, TRUE, placement[n][a].equipped)
    <2>1. i.version = placement[n][a].version
      BY DEF Instance
    <2>2. placement' = [placement EXCEPT ![n][a] = i]
      BY <1>2 DEF Exhaust
    <2>3. Hosts(n, a) /\ UNCHANGED <<reg, histories, latest, rejected>>
      BY <1>2 DEF Exhaust, Running
    <2> HIDE DEF i
    <2>4. QED
      BY <2>1, <2>2, <2>3, SlotKeepsVersion
  <1>3. QED
    BY <1>1, <1>2

\* A promotion keeps what is known of updates and revives none.
LEMMA PromoteKnown ==
  ASSUME IInv, UpdatesKnown, NEW a \in Agents, Candidate(a), PromoteUpdate(a)
  PROVE  UpdatesKnown' /\ \A b \in Agents : Revival(b)
  <1> DEFINE h == histories[a]
             v == Newest(h).checkpoint.version
  <1>1. /\ Tracked(a) /\ h \in Histories(Checkpoints) /\ HasLast(h)
        /\ latest[a] \in Nat
    BY KnownTypes DEF Candidate
  <1>2. Sound(h, latest[a], rejected[a]) /\ rejected[a] \subseteq 0 .. latest[a]
    BY <1>1 DEF UpdatesKnown, Known
  <1>3. Sound(Promote(h), latest[a], rejected[a] \ {v})
    BY <1>1, <1>2, PromoteSound
  <1>4. /\ \A b \in Agents : histories'[b] = IF b = a THEN Promote(h) ELSE histories[b]
        /\ \A b \in Agents :
             rejected'[b] = IF b = a THEN rejected[a] \ {v} ELSE rejected[b]
        /\ UNCHANGED <<placement, reg, latest>>
    BY DEF PromoteUpdate, IInv, FleetTypeOK
  <1> HIDE DEF h, v
  <1>5. Tracked(a)'
    <2>1. Len(h.gens) > 0
      BY <1>1, <1>2, HistoryTyped DEF Sound
    <2>2. Promote(h) \in Histories(Checkpoints)
      BY <1>1, <2>1, PromoteFacts
    <2>3. QED
      BY <1>4, <2>2, FleetAssumption DEF Tracked
  <1>6. UpdatesKnown'
    <2> SUFFICES ASSUME NEW b \in Agents PROVE Known(b)'
      BY DEF UpdatesKnown
    <2>1. CASE b = a
      BY <1>2, <1>3, <1>4, <1>5, <2>1 DEF UpdatesKnown, Known, Hosts
    <2>2. CASE b # a
      BY <1>4, <2>2 DEF UpdatesKnown, Known, Hosts, Tracked
    <2>3. QED
      BY <2>1, <2>2
  <1>7. \A b \in Agents : Revival(b)
    BY <1>4, CarriedRevivesNone DEF Carried, Hosts
  <1>8. QED
    BY <1>6, <1>7


\* A rollback keeps what is known of updates and revives none.
LEMMA RollbackKnown ==
  ASSUME IInv, UpdatesKnown, NEW a \in Agents, Candidate(a), RollbackUpdate(a)
  PROVE  UpdatesKnown' /\ \A b \in Agents : Revival(b)
  <1> DEFINE h == histories[a]
             r == Rollback(h)
             n == HostOf(a)
             i == Restored(LastGood(r), FALSE)
             popped == {h.gens[j].checkpoint.version :
                          j \in (Len(r.gens) + 1) .. Len(h.gens)}
             kept == {r.gens[j].checkpoint.version : j \in 1 .. Len(r.gens)}
  <1>1. /\ Tracked(a) /\ h \in Histories(Checkpoints) /\ HasLast(h)
        /\ latest[a] \in Nat
    BY KnownTypes DEF Candidate
  <1>2. Sound(h, latest[a], rejected[a]) /\ rejected[a] \subseteq 0 .. latest[a]
    BY <1>1 DEF UpdatesKnown, Known
  <1>3. /\ Sound(r, latest[a], (rejected[a] \cup popped) \ kept)
        /\ LastGood(r).version \in kept
        /\ LastGood(r) \in Checkpoints
        /\ LastGood(r).version <= latest[a]
    BY <1>1, <1>2, RollbackSound
  <1>4. r \in Histories(Checkpoints) /\ Len(r.gens) \in 1 .. Len(h.gens)
    BY <1>1, RollbackFacts
  <1>5. popped \subseteq 0 .. latest[a]
    <2> SUFFICES ASSUME NEW j \in (Len(r.gens) + 1) .. Len(h.gens)
                 PROVE  h.gens[j].checkpoint.version \in 0 .. latest[a]
      OBVIOUS
    <2>1. j \in 1 .. Len(h.gens)
      BY <1>1, <1>4, HistoryTyped
    <2>2. h.gens[j].checkpoint.version \in Nat
      BY <1>1, <2>1, HistoryTyped, VersionTypes
    <2>3. h.gens[j].checkpoint.version <= latest[a]
      BY <1>2, <2>1 DEF Sound
    <2>4. QED
      BY <1>1, <2>2, <2>3
  <1>6. /\ histories' = [histories EXCEPT ![a] = r]
        /\ placement' = [placement EXCEPT ![n][a] = i]
        /\ rejected' = [rejected EXCEPT ![a] = (@ \cup popped) \ kept]
        /\ UNCHANGED <<reg, latest>>
    BY DEF RollbackUpdate
  <1>7. n \in Node /\ \A m \in Node : Hosts(m, a) => m = n
    BY HostOfHosts
  <1>8. i.version = LastGood(r).version
    BY <1>3, VersionTypes
  <1> HIDE DEF h, r, n, i, popped, kept
  <1>9. /\ \A b \in Agents : histories'[b] = IF b = a THEN r ELSE histories[b]
        /\ \A b \in Agents : rejected'[b] =
             IF b = a THEN (rejected[a] \cup popped) \ kept ELSE rejected[b]
        /\ \A m \in Node, b \in Agents :
             placement'[m][b] = IF m = n /\ b = a THEN i ELSE placement[m][b]
    BY <1>6 DEF IInv, FleetTypeOK
  <1>10. \A m \in Node : Hosts(m, a)' => placement'[m][a].version \in kept
                                         /\ placement'[m][a].version <= latest[a]
    BY <1>3, <1>7, <1>8, <1>9 DEF Hosts
  <1>11. \A m \in Node, b \in Agents : b # a =>
           placement'[m][b] = placement[m][b] /\ (Hosts(m, b)' <=> Hosts(m, b))
    BY <1>9 DEF Hosts
  <1>12. UpdatesKnown'
    <2> SUFFICES ASSUME NEW b \in Agents PROVE Known(b)'
      BY DEF UpdatesKnown
    <2>1. CASE b = a
      <3>1. Tracked(a)'
        BY <1>4, <1>9, FleetAssumption DEF Tracked
      <3>2. reg[a] # NotRegistered => reg[a].lastGood.version <= latest[a]
        BY DEF UpdatesKnown, Known
      <3>3. (rejected[a] \cup popped) \ kept \subseteq 0 .. latest[a]
        BY <1>2, <1>5
      <3>4. QED
        BY <1>3, <1>6, <1>9, <1>10, <2>1, <3>1, <3>2, <3>3 DEF Known
    <2>2. CASE b # a
      BY <1>6, <1>9, <1>11, <2>2 DEF UpdatesKnown, Known, Tracked
    <2>3. QED
      BY <2>1, <2>2
  <1>13. \A b \in Agents : Revival(b)
    BY <1>9, <1>10, <1>11 DEF Revival, RunsRejected
  <1>14. QED
    BY <1>12, <1>13

\* Whatever is actuated.
LEMMA ActuateKnown ==
  ASSUME IInv, UpdatesKnown, NEW d \in Decisions, Actuate(d)
  PROVE  UpdatesKnown' /\ \A b \in Agents : Revival(b)
  <1>1. CASE d.kind = "Heal"
    <2>1. d.agent \in Agents /\ d.onto \in Node
      BY <1>1 DEF Decisions
    <2>2. reg[d.agent] # NotRegistered /\ Heal(d.agent, d.onto)
      BY <1>1 DEF Actuate, Applicable
    <2>3. QED
      BY <2>1, <2>2, HealKnown
  <1>2. CASE d.kind = "Migrate"
    <2>1. d.agent \in Agents /\ d.from \in Node /\ d.to \in Node
      BY <1>2 DEF Decisions
    <2>2. /\ d.from = d.to \/ Hosts(d.from, d.agent)
          /\ Migrate(d.agent, d.from, d.to)
      BY <1>2 DEF Actuate, Applicable
    <2>3. QED
      BY <2>1, <2>2, MigrateKnown
  <1>3. CASE d.kind = "Refill"
    <2>1. d.agent \in Agents /\ d.enough \in BOOLEAN
      BY <1>3 DEF Decisions
    <2>2. Refill(d.agent, d.enough)
      BY <1>3 DEF Actuate
    <2>3. QED
      BY <2>1, <2>2, BudgetKnown
  <1>4. CASE d.kind = "Promote"
    <2>1. d.agent \in Agents
      BY DEF Decisions
    <2>2. Candidate(d.agent) /\ PromoteUpdate(d.agent)
      BY <1>4 DEF Actuate, Applicable
    <2>3. QED
      BY <2>1, <2>2, PromoteKnown
  <1>5. CASE d.kind = "Rollback"
    <2>1. d.agent \in Agents
      BY DEF Decisions
    <2>2. Candidate(d.agent) /\ RollbackUpdate(d.agent)
      BY <1>5 DEF Actuate, Applicable
    <2>3. QED
      BY <2>1, <2>2, RollbackKnown
  <1>6. QED
    BY <1>1, <1>2, <1>3, <1>4, <1>5 DEF Actuate

\* A self-update makes a version that nobody has seen.
LEMMA UpdateKnown ==
  ASSUME IInv, UpdatesKnown, NEW n \in Node, NEW a \in Agents, SelfUpdates(n, a)
  PROVE  UpdatesKnown' /\ \A b \in Agents : Revival(b)
  <1> DEFINE i == Instance(latest[a] + 1, placement[n][a].low,
                           placement[n][a].equipped)
  <1>1. i.version = latest[a] + 1
    BY VersionTypes
  <1>2. placement' = [placement EXCEPT ![n][a] = i]
    BY DEF SelfUpdates
  <1>3. Hosts(n, a) /\ UNCHANGED <<reg, histories, rejected>>
        /\ latest' = [latest EXCEPT ![a] = @ + 1]
    BY DEF SelfUpdates, Running
  <1> HIDE DEF i
  <1>4. /\ \A b \in Agents : latest'[b] = IF b = a THEN latest[a] + 1 ELSE latest[b]
        /\ \A m \in Node, b \in Agents :
             placement'[m][b] = IF m = n /\ b = a THEN i ELSE placement[m][b]
    BY <1>2, <1>3 DEF IInv, FleetTypeOK
  <1>5. \A m \in Node, b \in Agents : Hosts(m, b)' =>
          \/ m = n /\ b = a /\ placement'[m][b].version = latest[a] + 1
          \/ Hosts(m, b) /\ placement'[m][b] = placement[m][b]
    BY <1>1, <1>4 DEF Hosts
  <1>6. UpdatesKnown'
    <2> SUFFICES ASSUME NEW b \in Agents PROVE Known(b)'
      BY DEF UpdatesKnown
    <2>1. latest[b] \in Nat /\ latest[b] <= latest'[b] /\ latest'[b] \in Nat
      BY <1>4, KnownTypes
    <2>2. \A m \in Node : Hosts(m, b)' => placement'[m][b].version <= latest'[b]
      <3> SUFFICES ASSUME NEW m \in Node, Hosts(m, b)'
                   PROVE  placement'[m][b].version <= latest'[b]
        OBVIOUS
      <3>1. CASE m = n /\ b = a /\ placement'[m][b].version = latest[a] + 1
        BY <1>4, <2>1, <3>1
      <3>2. CASE Hosts(m, b) /\ placement'[m][b] = placement[m][b]
        BY <2>1, <3>2, KnownTypes DEF UpdatesKnown, Known
      <3>3. QED
        BY <1>5, <3>1, <3>2
    <2>3. reg'[b] # NotRegistered => reg'[b].lastGood.version <= latest'[b]
      BY <1>3, <2>1, KnownTypes DEF UpdatesKnown, Known
    <2>4. rejected'[b] \subseteq 0 .. latest'[b]
      BY <1>3, <2>1 DEF UpdatesKnown, Known
    <2>5. CASE Tracked(b)
      <3>1. Sound(histories[b], latest[b], rejected[b])
            /\ histories[b] \in Histories(Checkpoints)
        BY <2>5, KnownTypes DEF UpdatesKnown, Known
      <3>2. \A j \in 1 .. Len(histories[b].gens) :
              histories[b].gens[j].checkpoint.version \in Nat
        BY <3>1, HistoryTyped, VersionTypes
      <3>3. Sound(histories[b], latest'[b], rejected[b])
        BY <2>1, <3>1, <3>2 DEF Sound
      <3>4. QED
        BY <1>3, <2>2, <2>3, <2>4, <2>5, <3>3 DEF Known, Tracked
    <2>6. CASE ~Tracked(b)
      BY <1>3, <2>2, <2>3, <2>4, <2>6 DEF UpdatesKnown, Known, Tracked
    <2>7. QED
      BY <2>5, <2>6
  <1>7. latest[a] + 1 \notin rejected[a]
    <2>1. rejected[a] \subseteq 0 .. latest[a] /\ latest[a] \in Nat
      BY KnownTypes DEF UpdatesKnown, Known
    <2>2. QED
      BY <2>1
  <1>8. \A b \in Agents : Revival(b)
    BY <1>3, <1>5, <1>7 DEF Revival, RunsRejected
  <1>9. QED
    BY <1>6, <1>8

\* Tracking and staging take the checkpoint of what runs.
LEMMA HistoryKnown ==
  ASSUME IInv, UpdatesKnown, NEW a \in Agents, Track(a) \/ StageCandidate(a)
  PROVE  UpdatesKnown' /\ \A b \in Agents : Revival(b)
  <1> DEFINE c == Checkpoint(placement[HostOf(a)][a])
  <1>1. c \in Checkpoints /\ c.version <= latest[a] /\ latest[a] \in Nat
    <2>1. HostOf(a) \in Node /\ Hosts(HostOf(a), a)
          /\ placement[HostOf(a)][a] \in Instances
      BY HostOfHosts
    <2>2. placement[HostOf(a)][a].version <= latest[a]
      BY <2>1 DEF UpdatesKnown, Known
    <2>3. QED
      BY <2>1, <2>2, Portable, VersionTypes, KnownTypes
  <1>2. UNCHANGED <<placement, reg, latest, rejected>>
    BY DEF Track, StageCandidate
  <1>3. PICK h : /\ h \in Histories(Checkpoints)
                 /\ Sound(h, latest[a], rejected[a])
                 /\ histories' = [histories EXCEPT ![a] = h]
    <2>1. CASE Track(a)
      <3>1. rejected[a] = {}
        BY <2>1 DEF Track, UpdatesKnown, Known
      <3>2. Sound(InitHistory(c), latest[a], rejected[a])
        BY <1>1, <3>1, InitSound
      <3>3. InitHistory(c) \in Histories(Checkpoints)
        BY <1>1, InitFacts
      <3>4. QED
        BY <2>1, <3>2, <3>3 DEF Track
    <2>2. CASE StageCandidate(a)
      <3>1. /\ histories[a] \in Histories(Checkpoints) /\ HasLast(histories[a])
            /\ Sound(histories[a], latest[a], rejected[a])
        BY <2>2, KnownTypes DEF StageCandidate, UpdatesKnown, Known
      <3>2. Sound(Stage(histories[a], c), latest[a], rejected[a])
        BY <1>1, <3>1, StageSound
      <3>3. Stage(histories[a], c) \in Histories(Checkpoints)
        BY <1>1, <3>1, StageFacts
      <3>4. QED
        BY <2>2, <3>2, <3>3 DEF StageCandidate
    <2>3. QED
      BY <2>1, <2>2
  <1> HIDE DEF c
  <1>4. \A b \in Agents : histories'[b] = IF b = a THEN h ELSE histories[b]
    BY <1>3 DEF IInv, FleetTypeOK
  <1>5. h # NotTracked
    BY <1>3, FleetAssumption
  <1>6. UpdatesKnown'
    BY <1>2, <1>3, <1>4, <1>5 DEF UpdatesKnown, Known, Tracked, Hosts
  <1>7. \A b \in Agents : Revival(b)
    BY <1>2, CarriedRevivesNone DEF Carried, Hosts
  <1>8. QED
    BY <1>6, <1>7

\* The supervisor takes the checkpoint of what runs, or keeps its own.
LEMMA RegistryKnown ==
  ASSUME IInv, UpdatesKnown,
         \/ \E n \in Node, a \in Agents : Pull(n, a) \/ Report(n, a)
         \/ SupervisorTick
  PROVE  UpdatesKnown' /\ \A b \in Agents : Revival(b)
  <1>1. UNCHANGED <<placement, histories, latest, rejected>>
    BY DEF Pull, Report, SupervisorTick
  <1>2. \A b \in Agents : reg'[b] # NotRegistered =>
          \/ reg[b] # NotRegistered /\ reg'[b].lastGood = reg[b].lastGood
          \/ \E n \in Node : Hosts(n, b) /\ reg'[b].lastGood = Checkpoint(placement[n][b])
    <2>1. reg \in [Agents -> RegRecords \cup {NotRegistered}]
      BY DEF IInv, FleetTypeOK, RegRecords
    <2>2. ASSUME NEW n \in Node, NEW a \in Agents, Pull(n, a) \/ Report(n, a),
                 NEW b \in Agents, reg'[b] # NotRegistered
          PROVE  \/ reg[b] # NotRegistered /\ reg'[b].lastGood = reg[b].lastGood
                 \/ \E m \in Node : /\ Hosts(m, b)
                                    /\ reg'[b].lastGood = Checkpoint(placement[m][b])
      <3> DEFINE c == Checkpoint(placement[n][a])
      <3>1. Hosts(n, a)
        BY <2>2 DEF Pull, Report, Running
      <3> HIDE DEF c
      <3>2. /\ Register(n, c).lastGood = c
            /\ \A r : Observe(r, n, c).lastGood = c
            /\ \A r : Heartbeat(r).lastGood = r.lastGood
        BY DEF Register, Observe, Heartbeat, Entry
      <3>3. PICK r : reg' = [reg EXCEPT ![a] = r] /\ r.lastGood = c
        <4>1. CASE Pull(n, a)
          <5> DEFINE r == IF reg[a] = NotRegistered THEN Register(n, c)
                          ELSE Observe(reg[a], n, c)
          <5>1. r.lastGood = c
            BY <3>2
          <5>2. reg' = [reg EXCEPT ![a] = r]
            BY <4>1 DEF Pull, c
          <5>3. QED
            BY <5>1, <5>2
        <4>2. CASE Report(n, a)
          <5> DEFINE r == IF reg[a] = NotRegistered THEN Register(n, c)
                          ELSE Heartbeat(Observe(reg[a], n, c))
          <5>1. r.lastGood = c
            BY <3>2
          <5>2. reg' = [reg EXCEPT ![a] = r]
            BY <4>2 DEF Report, c
          <5>3. QED
            BY <5>1, <5>2
        <4>3. QED
          BY <2>2, <4>1, <4>2
      <3>4. QED
        BY <2>1, <2>2, <3>1, <3>3 DEF c
    <2>3. CASE SupervisorTick
      <3>1. \A r : Missed(r).lastGood = r.lastGood
        BY DEF Missed, Entry
      <3>2. QED
        BY <2>1, <2>3, <3>1 DEF SupervisorTick
    <2>4. QED
      BY <2>2, <2>3
  <1>3. UpdatesKnown'
    <2> SUFFICES ASSUME NEW b \in Agents PROVE Known(b)'
      BY DEF UpdatesKnown
    <2>1. reg'[b] # NotRegistered => reg'[b].lastGood.version <= latest[b]
      BY <1>2, KnownTypes, VersionTypes DEF UpdatesKnown, Known
    <2>2. QED
      BY <1>1, <2>1 DEF UpdatesKnown, Known, Hosts, Tracked
  <1>4. \A b \in Agents : Revival(b)
    BY <1>1, CarriedRevivesNone DEF Carried, Hosts
  <1>5. QED
    BY <1>3, <1>4

\* A step that changes no node, registry or history revives nothing.
LEMMA QuietKnown ==
  ASSUME IInv, UpdatesKnown, UNCHANGED fleet \/ \E n \in Node : Fail(n)
  PROVE  UpdatesKnown' /\ \A b \in Agents : Revival(b)
  <1>1. UNCHANGED <<placement, reg, histories, latest, rejected>>
    BY DEF fleet, Fail
  <1>2. \A a \in Agents, n \in Node : Hosts(n, a)' =>
          Hosts(n, a) /\ placement'[n][a].version = placement[n][a].version
    BY <1>1 DEF Hosts
  <1>3. QED
    BY <1>1, <1>2, SlotsKeepKnown

\* At first every agent runs version 0, and nothing else is known.
LEMMA InitKnown == FleetInit => UpdatesKnown
  <1> SUFFICES ASSUME FleetInit, NEW a \in Agents PROVE Known(a)
    BY DEF UpdatesKnown
  <1>1. \A n \in Node : Hosts(n, a) => placement[n][a].version = 0
    <2>1. PICK home \in [Agents -> Node] :
            placement = [n \in Node |-> [b \in Agents |->
               IF home[b] = n THEN Instance(0, FALSE, TRUE) ELSE Absent]]
      BY DEF FleetInit
    <2>2. Instance(0, FALSE, TRUE).version = 0
      BY DEF Instance
    <2>3. QED
      BY <2>1, <2>2 DEF Hosts
  <1>2. /\ latest[a] = 0 /\ rejected[a] = {}
        /\ reg[a] = NotRegistered /\ ~Tracked(a)
    BY DEF FleetInit, Tracked
  <1>3. QED
    BY <1>1, <1>2 DEF Known

\* Every step keeps what is known, and revives nothing but by a heal.
LEMMA NextKnown ==
  ASSUME IInv, UpdatesKnown, [FleetNext]_fleet
  PROVE  UpdatesKnown' /\ \A b \in Agents : Revival(b)
  <1>1. CASE Surroundings
    <2>1. ASSUME NEW n \in Node, NEW a \in Agents, Exhaust(n, a)
          PROVE  UpdatesKnown' /\ \A b \in Agents : Revival(b)
      BY <2>1, BudgetKnown
    <2>2. QED
      BY <1>1, <2>1, UpdateKnown, HistoryKnown, RegistryKnown, QuietKnown
      DEF Surroundings
  <1>2. CASE \E d \in Decisions : Actuate(d)
    BY <1>2, ActuateKnown
  <1>3. CASE UNCHANGED fleet
    BY <1>3, QuietKnown
  <1>4. QED
    BY <1>1, <1>2, <1>3 DEF FleetNext

\* What is known stays known.
LEMMA KnownInductive == FleetSpec => [](IInv /\ UpdatesKnown)
  <1>1. FleetInit => IInv /\ UpdatesKnown
    BY InitIInv, InitKnown
  <1>2. IInv /\ UpdatesKnown /\ [FleetNext]_fleet => (IInv /\ UpdatesKnown)'
    BY NextIInv, NextKnown
  <1>3. QED
    BY <1>1, <1>2, PTL DEF FleetSpec

\* The safety net of a self-update: for any policy, any interleaving of staging,
\* verdicts, heals, migrations and failures, a tracked agent's baseline stays
\* committed and a rollback restores a version that was made and not rejected.
THEOREM RollbackStaysSafe == FleetSpec => []RollbackIsSafe
  <1>1. IInv /\ UpdatesKnown => RollbackIsSafe
    <2> SUFFICES ASSUME IInv, UpdatesKnown, NEW a \in Agents, Tracked(a)
                 PROVE  /\ histories[a].gens[1].number = 0
                        /\ histories[a].gens[1].status = "Committed"
                        /\ LastGood(histories[a]).version
                             \in (0 .. latest[a]) \ rejected[a]
      BY DEF RollbackIsSafe
    <2> DEFINE h == histories[a]
    <2>1. Sound(h, latest[a], rejected[a])
      BY DEF UpdatesKnown, Known
    <2>2. h \in Histories(Checkpoints) /\ HasLast(h) /\ latest[a] \in Nat
      BY KnownTypes
    <2>3. LastCommitted(h) \in 1 .. Len(h.gens)
      BY <2>2, RollbackFacts
    <2>4. LastGood(h).version \in Nat
      BY <2>2, <2>3, HistoryTyped, VersionTypes DEF LastGood
    <2>5. LastGood(h).version <= latest[a]
      BY <2>1, <2>3 DEF Sound, LastGood
    <2>6. QED
      BY <2>1, <2>2, <2>4, <2>5 DEF Sound
  <1>2. QED
    BY <1>1, KnownInductive, PTL

\* Only self_heal brings a rolled back update back, from the checkpoint that the
\* supervisor had kept: a property of every step of every policy.
THEOREM HealsAloneRevive == FleetSpec => OnlyHealsRevive
  <1>1. IInv /\ UpdatesKnown /\ [FleetNext]_fleet =>
          [\A a \in Agents : ~RunsRejected(a) /\ RunsRejected(a)' =>
             /\ histories'[a] = histories[a]
             /\ reg[a] # NotRegistered /\ reg[a].lastGood.version \in rejected[a]]_fleet
    BY NextKnown DEF Revival
  <1>2. QED
    BY <1>1, KnownInductive, PTL DEF FleetSpec, OnlyHealsRevive

----------------------------------------------------------------------------
\* The governor.

\* Every step of the governor is a step of the fleet, or leaves it alone.
LEMMA GovernorStep == [Next]_vars => [FleetNext]_fleet
  BY DEF Next, vars, SetMode, Lapse, Deliberate, Abandon, Apply, EndTick,
         Elsewhere, FleetNext

\* The head of control.rs: the plane invents no new way to touch an agent.
THEOREM GovernorUsesMechanisms == Spec => FleetSpec
  <1>1. Init => FleetInit
    BY DEF Init
  <1>2. QED
    BY <1>1, GovernorStep, PTL DEF Spec, FleetSpec

\* So, however the governor decides, each agent is hosted exactly once.
THEOREM GovernorKeepsOneInstance == Spec => []SingleInstance
  BY GovernorUsesMechanisms, OneInstance, PTL

\* And its verdicts, heals and migrations never cost an agent its safety net,
\* nor bring a rolled back update back other than by a heal.
THEOREM GovernorKeepsUpdatesSafe == Spec => []RollbackIsSafe /\ OnlyHealsRevive
  BY GovernorUsesMechanisms, RollbackStaysSafe, HealsAloneRevive, PTL

----------------------------------------------------------------------------
\* A decision changes nothing of the agents it does not name.
LEMMA ActuateIsLocal ==
  ASSUME FleetTypeOK, NEW d \in Decisions, Actuate(d),
         NEW a \in Agents, a # d.agent
  PROVE  Slice(a)' = Slice(a)
  <1>1. /\ placement \in [Node -> [Agents -> Instances \cup {Absent}]]
        /\ reg \in [Agents -> RegRecords \cup {NotRegistered}]
        /\ histories \in [Agents -> Histories(Checkpoints) \cup {NotTracked}]
    BY DEF FleetTypeOK, RegRecords
  <1>2. d.agent \in Agents
    BY DEF Decisions
  <1>3. \A n \in Node : placement'[n][a] = placement[n][a]
    <2>1. CASE d.kind = "Heal"
      <3> DEFINE i == Restored(reg[d.agent].lastGood, TRUE)
      <3>1. placement' = [m \in Node |-> [placement[m] EXCEPT ![d.agent] =
                            IF m = d.onto THEN i ELSE Absent]]
        BY <2>1 DEF Actuate, Heal
      <3> HIDE DEF i
      <3>2. QED
        BY <1>1, <1>2, <3>1
    <2>2. CASE d.kind = "Migrate"
      BY <1>1, <1>2, <2>2 DEF Actuate, Migrate
    <2>3. CASE d.kind = "Refill"
      BY <1>1, <1>2, <2>3 DEF Actuate, Refill
    <2>4. CASE d.kind = "Promote"
      BY <2>4 DEF Actuate, PromoteUpdate
    <2>5. CASE d.kind = "Rollback"
      BY <1>1, <1>2, <2>5, SMTT(30) DEF Actuate, RollbackUpdate
    <2>6. QED
      BY <2>1, <2>2, <2>3, <2>4, <2>5 DEF Actuate
  <1>4. reg'[a] = reg[a]
    BY <1>1, <1>2, ZenonT(40) DEF Actuate, Heal, Migrate, Refill, PromoteUpdate,
                      RollbackUpdate
  <1>5. histories'[a] = histories[a]
    BY <1>1, <1>2, ZenonT(40) DEF Actuate, Heal, Migrate, Refill, PromoteUpdate,
                      RollbackUpdate
  <1>6. [n \in Node |-> placement'[n][a]] = [n \in Node |-> placement[n][a]]
    BY <1>3
  <1>7. QED
    BY <1>4, <1>5, <1>6 DEF Slice

\* INV-2: a tick changes only agents the governor holds a capability over when
\* it changes them.
THEOREM GovernorNeedsCapability == Spec => OnlyGoverned
  <1> DEFINE A == tick.active =>
                  \A a \in Agents : Slice(a)' # Slice(a) => a \in governed
  <1>1. FleetTypeOK /\ [Next]_vars => [A]_vars
    <2> SUFFICES ASSUME FleetTypeOK, [Next]_vars, tick.active,
                        NEW a \in Agents, Slice(a)' # Slice(a)
                 PROVE  a \in governed
      BY DEF vars
    <2>1. ~UNCHANGED fleet
      BY DEF fleet, Slice
    <2>2. PICK d \in Decisions : Apply(d)
      BY <2>1 DEF Next, vars, SetMode, Lapse, Deliberate, Abandon, EndTick,
                  Elsewhere, Between
    <2>3. d.agent \in governed /\ Actuate(d)
      BY <2>2 DEF Apply
    <2>4. a = d.agent
      BY <2>3, ActuateIsLocal
    <2>5. QED
      BY <2>3, <2>4
  <1>2. Spec => []FleetTypeOK
    BY GovernorUsesMechanisms, FleetTypes, PTL
  <1>3. QED
    BY <1>1, <1>2, PTL DEF Spec, OnlyGoverned

----------------------------------------------------------------------------
\* What the next decision changes is one agent at most.
LEMMA ActuateTouchesOne ==
  ASSUME FleetTypeOK, NEW d \in Decisions, Actuate(d)
  PROVE  {a \in Agents : Slice(a)' # Slice(a)} \subseteq {d.agent}
  BY ActuateIsLocal

\* Between ticks nothing is touched; in a tick no more agents than decisions
\* were applied, and no more of those than the mode permits.
Bounded ==
    /\ mode \in Modes
    /\ tick \in [active : BOOLEAN, applied : Nat]
    /\ ~tick.active => tick.applied = 0
    /\ IsFiniteSet(touched)
    /\ Cardinality(touched) <= tick.applied
    /\ mode.kind = "Shadow" => tick.applied = 0
    /\ mode.kind = "Canary" => tick.applied <= mode.limit

\* What a mode lets through in a tick has a bound.
LEMMA ModesAreBounded ==
  ASSUME NEW m \in Modes
  PROVE  m.kind \in {"Shadow", "Act", "Canary"} /\ m.limit \in Nat
  BY GovernorAssumption DEF Modes

\* A decision applied stays within the bound of the mode.
LEMMA ApplyStaysBounded ==
  ASSUME FleetTypeOK, Bounded, NEW d \in Decisions, Apply(d)
  PROVE  Bounded'
  <1> DEFINE changed == {a \in Agents : Slice(a)' # Slice(a)}
  <1>1. /\ touched' = touched \cup changed
        /\ tick' = [tick EXCEPT !.applied = @ + 1]
        /\ tick.active /\ mode' = mode /\ Permits(mode, tick.applied)
    BY DEF Apply
  <1>2. changed \subseteq {d.agent}
    BY ActuateTouchesOne DEF Apply
  <1> HIDE DEF changed
  <1>3. touched' = touched \/ touched' = touched \cup {d.agent}
    BY <1>1, <1>2
  <1>4. /\ IsFiniteSet(touched')
        /\ Cardinality(touched) \in Nat
        /\ Cardinality(touched') <= Cardinality(touched) + 1
    <2>1. IsFiniteSet(touched)
      BY DEF Bounded
    <2>2. Cardinality(touched) \in Nat
      BY <2>1, FS_CardinalityType
    <2>3. CASE touched' = touched
      BY <2>1, <2>2, <2>3
    <2>4. CASE touched' = touched \cup {d.agent}
      <3>1. /\ IsFiniteSet(touched \cup {d.agent})
            /\ \/ Cardinality(touched \cup {d.agent}) = Cardinality(touched)
               \/ Cardinality(touched \cup {d.agent}) = Cardinality(touched) + 1
        BY <2>1, FS_AddElement
      <3>2. QED
        BY <2>2, <2>4, <3>1
    <2>5. QED
      BY <1>3, <2>3, <2>4
  <1>5. tick.applied + 1 = tick'.applied /\ tick'.active
    BY <1>1 DEF Bounded
  <1>6. tick' \in [active : BOOLEAN, applied : Nat]
    BY <1>1 DEF Bounded
  <1>7. mode.kind # "Shadow" /\ (mode.kind = "Canary" => tick'.applied <= mode.limit)
    BY <1>1, <1>5, ModesAreBounded DEF Permits, Bounded
  <1>8. Cardinality(touched') <= tick'.applied
    <2>1. Cardinality(touched') \in Nat
      BY <1>4, FS_CardinalityType
    <2>2. QED
      BY <2>1, <1>4, <1>5 DEF Bounded
  <1>9. QED
    BY <1>1, <1>4, <1>5, <1>6, <1>7, <1>8 DEF Bounded

\* INV-5, the canary: in a tick no more agents change than the mode's limit,
\* in shadow none, whatever list of decisions the policy returns.
THEOREM GovernorBlastRadius == Spec => []BlastRadius
  <1>0. IsFiniteSet({}) /\ Cardinality({}) = 0
    BY FS_EmptySet
  <1>1. Init => Bounded
    BY <1>0, ModesAreBounded DEF Init, NoTick, Bounded
  <1>2. FleetTypeOK /\ Bounded /\ [Next]_vars => Bounded'
    <2> SUFFICES ASSUME FleetTypeOK, Bounded, [Next]_vars PROVE Bounded'
      OBVIOUS
    <2>1. CASE UNCHANGED vars
      BY <2>1 DEF vars, governor, Bounded
    <2>2. ASSUME NEW m \in Modes, SetMode(m) PROVE Bounded'
      <3>1. ~tick.active /\ tick.applied = 0
        BY <2>2 DEF SetMode, Between, Bounded
      <3>2. QED
        BY <2>2, <3>1, ModesAreBounded DEF SetMode, Bounded
    <2>3. ASSUME NEW a \in Agents, Lapse(a) PROVE Bounded'
      BY <2>3 DEF Lapse, Bounded
    <2>4. ASSUME NEW actual \in MinActual .. MaxActual, Deliberate(actual)
          PROVE  Bounded'
      BY <2>4, <1>0, ModesAreBounded DEF Deliberate, Bounded
    <2>5. CASE Abandon
      BY <2>5 DEF Abandon, Bounded
    <2>6. ASSUME NEW d \in Decisions, Apply(d) PROVE Bounded'
      BY <2>6, ApplyStaysBounded
    <2>7. CASE EndTick
      BY <2>7, <1>0, ModesAreBounded DEF EndTick, NoTick, Bounded
    <2>8. CASE Elsewhere
      BY <2>8 DEF Elsewhere, governor, Bounded
    <2>9. QED
      BY <2>1, <2>2, <2>3, <2>4, <2>5, <2>6, <2>7, <2>8 DEF Next
  <1>3. Bounded => BlastRadius
    <2> SUFFICES ASSUME Bounded PROVE BlastRadius
      OBVIOUS
    <2>1. Cardinality(touched) \in Nat
      BY FS_CardinalityType DEF Bounded
    <2>2. mode.kind = "Shadow" => touched = {}
      BY <2>1, FS_EmptySet DEF Bounded
    <2>3. mode.kind = "Canary" => Cardinality(touched) <= mode.limit
      BY <2>1, ModesAreBounded DEF Bounded
    <2>4. QED
      BY <2>2, <2>3 DEF BlastRadius
  <1>4. Spec => []FleetTypeOK
    BY GovernorUsesMechanisms, FleetTypes, PTL
  <1>5. QED
    BY <1>1, <1>2, <1>3, <1>4, PTL DEF Spec

----------------------------------------------------------------------------
\* A think that can be afforded and costs a token or more moves the spend on.
LEMMA ThinkSpends ==
  ASSUME NEW b \in AttentionBudgets, CanCharge(b, ThinkCost), ThinkCost > 0,
         NEW actual \in Nat, actual > 0
  PROVE  LET settled == Settle(Charge(b, ThinkCost), ThinkCost, actual)
         IN  /\ settled \in AttentionBudgets
             /\ settled.total = b.total
             /\ settled.spent > b.spent
             /\ b.spent < b.total
  <1>1. /\ b.spent \in 0 .. MaxTokens /\ b.total \in 0 .. MaxTokens
        /\ MaxTokens \in Nat /\ ThinkCost \in Nat
    BY MaxTokensAssumption, GovernorAssumption DEF AttentionBudgets, Tokens
  <1>2. b.spent < b.total
    BY <1>1 DEF CanCharge, Remaining, Saturate
  <1>3. Charge(b, ThinkCost) = [total |-> b.total, spent |-> b.spent + ThinkCost]
    BY DEF Charge, AttentionBudgets
  <1>4. Settle(Charge(b, ThinkCost), ThinkCost, actual)
          = [total |-> b.total, spent |-> Saturate(b.spent + actual)]
    <2>1. /\ Charge(b, ThinkCost).spent = b.spent + ThinkCost
          /\ [Charge(b, ThinkCost) EXCEPT !.spent = Saturate(b.spent + actual)]
               = [total |-> b.total, spent |-> Saturate(b.spent + actual)]
      BY <1>3
    <2>2. b.spent + ThinkCost + actual - ThinkCost = b.spent + actual
      BY <1>1
    <2>3. QED
      BY <2>1, <2>2 DEF Settle
  <1>5. Saturate(b.spent + actual) \in 0 .. MaxTokens
        /\ Saturate(b.spent + actual) > b.spent
    BY <1>1, <1>2 DEF Saturate
  <1>6. QED
    BY <1>2, <1>4, <1>5, <1>1 DEF AttentionBudgets, Tokens

\* The spend counts every deliberation.
Paid ==
    /\ budget \in AttentionBudgets
    /\ budget.total = GovernorTotal
    /\ deliberations \in Nat
    /\ deliberations <= budget.spent
    /\ deliberations <= GovernorTotal

\* INV-1: with a think that reserves and costs at least a token, a governor
\* governs in at most as many ticks as it has tokens.
THEOREM GovernorPaysForTicks == Spec => []DeliberationIsMetered
  <1> DEFINE Priced == ThinkCost > 0 /\ MinActual > 0
             Metered   == Priced => Paid
  <1>1. Init => Metered
    BY MaxTokensAssumption, GovernorAssumption
    DEF Init, Paid, NewBudget, AttentionBudgets, Tokens
  <1>2. Metered /\ [Next]_vars => Metered'
    <2> SUFFICES ASSUME Paid, ThinkCost > 0, MinActual > 0, [Next]_vars
                 PROVE  Paid'
      OBVIOUS
    <2>1. ASSUME NEW actual \in MinActual .. MaxActual, Deliberate(actual)
          PROVE  Paid'
      <3>1. actual \in Nat /\ actual > 0
        BY GovernorAssumption
      <3>2. CanCharge(budget, ThinkCost)
        BY <2>1 DEF Deliberate
      <3>3. /\ budget' \in AttentionBudgets
            /\ budget'.total = budget.total
            /\ budget'.spent > budget.spent
            /\ budget.spent < budget.total
        BY <2>1, <3>1, <3>2, ThinkSpends DEF Deliberate, Paid
      <3>4. deliberations' = deliberations + 1
        BY <2>1 DEF Deliberate
      <3>5. QED
        BY <3>3, <3>4, GovernorAssumption DEF Paid, AttentionBudgets, Tokens
    <2>2. CASE Abandon
      BY <2>2, MaxTokensAssumption, GovernorAssumption
      DEF Abandon, Paid, CanCharge, Remaining, Saturate, Charge,
          AttentionBudgets, Tokens
    <2>3. CASE UNCHANGED <<budget, deliberations>>
      BY <2>3 DEF Paid
    <2>4. QED
      BY <2>1, <2>2, <2>3
      DEF Next, vars, governor, SetMode, Lapse, Apply, EndTick, Elsewhere
  <1>3. Metered => DeliberationIsMetered
    BY DEF Paid, DeliberationIsMetered
  <1>4. QED
    BY <1>1, <1>2, <1>3, PTL DEF Spec

----------------------------------------------------------------------------
\* Charges and settlements keep the budget in a u64.
LEMMA BudgetStaysTyped ==
  ASSUME NEW b \in AttentionBudgets, CanCharge(b, ThinkCost)
  PROVE  /\ Charge(b, ThinkCost) \in AttentionBudgets
         /\ \A actual \in Nat :
              Settle(Charge(b, ThinkCost), ThinkCost, actual) \in AttentionBudgets
  <1>1. Charge(b, ThinkCost) \in AttentionBudgets
    BY MaxTokensAssumption, GovernorAssumption
    DEF AttentionBudgets, Tokens, CanCharge, Remaining, Charge, Saturate
  <1>2. ASSUME NEW c \in AttentionBudgets, NEW actual \in Nat
        PROVE  Settle(c, ThinkCost, actual) \in AttentionBudgets
    BY MaxTokensAssumption, GovernorAssumption
    DEF AttentionBudgets, Tokens, Settle, Saturate
  <1>3. QED
    BY <1>1, <1>2

\* Every variable of the governed system keeps its type.
THEOREM GovernorTypes == Spec => []TypeOK
  <1>1. Init /\ FleetTypeOK => TypeOK
    BY MaxTokensAssumption, GovernorAssumption
    DEF Init, NoTick, NewBudget, TypeOK, AttentionBudgets, Tokens
  <1>2. FleetTypeOK' /\ TypeOK /\ [Next]_vars => TypeOK'
    <2> SUFFICES ASSUME FleetTypeOK', TypeOK, [Next]_vars PROVE TypeOK'
      OBVIOUS
    <2>1. CASE UNCHANGED governor
      BY <2>1 DEF governor, TypeOK
    <2>2. ASSUME NEW m \in Modes, SetMode(m) PROVE TypeOK'
      BY <2>2 DEF SetMode, TypeOK
    <2>3. ASSUME NEW a \in Agents, Lapse(a) PROVE TypeOK'
      BY <2>3 DEF Lapse, TypeOK
    <2>4. ASSUME NEW actual \in MinActual .. MaxActual, Deliberate(actual)
          PROVE  TypeOK'
      <3>1. actual \in Nat
        BY GovernorAssumption
      <3>2. QED
        BY <2>4, <3>1, BudgetStaysTyped, GovernorAssumption DEF Deliberate, TypeOK
    <2>5. CASE Abandon
      BY <2>5, BudgetStaysTyped DEF Abandon, TypeOK
    <2>6. ASSUME NEW d \in Decisions, Apply(d) PROVE TypeOK'
      <3>1. tick' \in [active : BOOLEAN, applied : 0 .. MaxApplied]
        BY <2>6, GovernorAssumption DEF Apply, TypeOK
      <3>2. QED
        BY <2>6, <3>1 DEF Apply, TypeOK
    <2>7. CASE EndTick
      BY <2>7, GovernorAssumption DEF EndTick, NoTick, TypeOK
    <2>8. QED
      BY <2>1, <2>2, <2>3, <2>4, <2>5, <2>6, <2>7 DEF Next, vars, Elsewhere
  <1>3. Spec => []FleetTypeOK
    BY GovernorUsesMechanisms, FleetTypes, PTL
  <1>4. QED
    BY <1>1, <1>2, <1>3, PTL DEF Spec

----------------------------------------------------------------------------
\* The heuristic.

\* A set of naturals has a least element: the form in which induction is used.
LEMMA LeastElement ==
  ASSUME NEW T \in SUBSET Nat, T # {}
  PROVE  \E x \in T : \A y \in T : ~ (y < x)
  <1> DEFINE R == {p \in Nat \X Nat : p[1] < p[2]}
  <1>1. IsWellFoundedOn(R, Nat)
    BY NatLessThanWellFounded DEF OpToRel
  <1> HIDE DEF R
  <1>2. PICK x \in T : \A y \in T : ~(<<y, x>> \in R)
    BY <1>1, WFMin, Zenon
  <1> USE DEF R
  <1>3. \A y \in T : y < x => <<y, x>> \in R
    OBVIOUS
  <1>4. QED
    BY <1>2, <1>3

\* kept is the course of Among over the first n observations.
Keeps(kept, obs, S, n) ==
    kept = [i \in 0 .. n |->
              IF i = 0 THEN << >>
              ELSE IF obs[i] \in S THEN Append(kept[i - 1], obs[i])
              ELSE kept[i - 1]]

\* There is such a course, however many observations there are.
LEMMA CourseOf ==
  ASSUME NEW obs, NEW S, NEW n \in Nat
  PROVE  \E kept : Keeps(kept, obs, S, n)
  <1> DEFINE T == {k \in Nat : ~\E kept : Keeps(kept, obs, S, k)}
             Step(q, o) == IF o \in S THEN Append(q, o) ELSE q
  <1>1. SUFFICES ASSUME T # {} PROVE FALSE
    OBVIOUS
  <1>2. T \in SUBSET Nat
    OBVIOUS
  <1>3. PICK k \in T : \A j \in T : ~(j < k)
    BY <1>1, <1>2, LeastElement
  <1>4. CASE k = 0
    <2> DEFINE none == [i \in 0 .. 0 |-> << >>]
    <2>1. \A i \in 0 .. 0 : i = 0
      OBVIOUS
    <2>2. Keeps(none, obs, S, 0)
      BY <2>1, Zenon DEF Keeps
    <2>3. QED
      BY <1>4, <2>2
  <1>5. CASE k # 0
    <2>1. k \in Nat /\ k - 1 \in Nat /\ k - 1 < k
      BY <1>5
    <2>2. k - 1 \notin T
      BY <1>3, <2>1
    <2>3. PICK less : Keeps(less, obs, S, k - 1)
      BY <2>1, <2>2
    <2> DEFINE last == Step(less[k - 1], obs[k])
               more == [i \in 0 .. k |-> IF i = k THEN last ELSE less[i]]
    <2>4. \A i \in 0 .. k - 1 :
             less[i] = IF i = 0 THEN << >> ELSE Step(less[i - 1], obs[i])
      BY <2>3, Zenon DEF Keeps
    <2> HIDE DEF Step
    <2>5. ASSUME NEW i \in 0 .. k
          PROVE  more[i] = IF i = 0 THEN << >> ELSE Step(more[i - 1], obs[i])
      <3> HIDE DEF last
      <3>1. CASE i = k
        <4>1. more[i] = last /\ more[i - 1] = less[k - 1] /\ i # 0
          BY <1>5, <2>1, <3>1
        <4>2. QED
          BY <3>1, <4>1 DEF last
      <3>2. CASE i # k
        <4>1. i \in 0 .. k - 1 /\ more[i] = less[i]
          BY <2>1, <3>2
        <4>2. i # 0 => more[i - 1] = less[i - 1]
          BY <2>1, <3>2
        <4>3. QED
          BY <2>4, <4>1, <4>2
      <3>3. QED
        BY <3>1, <3>2
    <2>6. Keeps(more, obs, S, k)
      BY <2>5, Zenon DEF Keeps, Step
    <2>7. QED
      BY <1>3, <2>6
  <1>6. QED
    BY <1>4, <1>5

\* What is kept of a sequence of observations is a sequence of those in S.
LEMMA AmongIsIn ==
  ASSUME NEW obs, Len(obs) \in Nat, NEW S
  PROVE  Among(obs, S) \in Seq(S)
  <1> DEFINE n == Len(obs)
             kept == CHOOSE f : Keeps(f, obs, S, n)
  <1>1. \E f : Keeps(f, obs, S, n)
    BY CourseOf
  <1>2. Keeps(kept, obs, S, n)
    BY <1>1, Zenon
  <1>3. Among(obs, S) = kept[n]
    BY Zenon DEF Among, Keeps
  <1> HIDE DEF kept
  <1> DEFINE T == {i \in 0 .. n : kept[i] \notin Seq(S)}
  <1> DEFINE none == << >>
             Step(q, o) == IF o \in S THEN Append(q, o) ELSE q
  <1>4. \A i \in 0 .. n : kept[i] = IF i = 0 THEN none ELSE Step(kept[i - 1], obs[i])
    BY <1>2, Zenon DEF Keeps
  <1>5. none \in Seq(S) /\ \A q \in Seq(S) : \A o : Step(q, o) \in Seq(S)
    OBVIOUS
  <1> HIDE DEF none, Step
  <1>6. T = {}
    <2>1. SUFFICES ASSUME T # {} PROVE FALSE
      OBVIOUS
    <2>2. PICK i \in T : \A j \in T : ~(j < i)
      <3>1. T \in SUBSET Nat
        OBVIOUS
      <3>2. QED
        BY <2>1, <3>1, LeastElement
    <2>3. i \in 0 .. n /\ kept[i] \notin Seq(S)
      OBVIOUS
    <2>4. i # 0
      BY <1>4, <1>5, <2>3
    <2>5. i - 1 \in 0 .. n /\ i - 1 < i
      BY <2>3, <2>4
    <2>6. kept[i - 1] \in Seq(S)
      BY <2>2, <2>5
    <2>7. kept[i] = Step(kept[i - 1], obs[i])
      BY <1>4, <2>3, <2>4
    <2>8. QED
      BY <1>5, <2>3, <2>6, <2>7
  <1>7. n \in 0 .. n
    OBVIOUS
  <1>8. QED
    BY <1>3, <1>6, <1>7

\* There are finitely many instances to observe.
LEMMA ObservationLength ==
  ASSUME NEW obs \in Observations
  PROVE  Len(obs) \in Nat
  <1>1. IsFiniteSet(Node \X Agents)
    BY HeuristicAssumption, FS_Product
  <1> DEFINE slot == [p \in Node \X Agents |-> [node |-> p[1], agent |-> p[2]]]
             Slots == [node : Node, agent : Agents]
  <1>2. slot \in Surjection(Node \X Agents, Slots)
    <2>1. slot \in [Node \X Agents -> Slots]
      OBVIOUS
    <2>2. \A o \in Slots : \E p \in Node \X Agents : slot[p] = o
      <3>1. SUFFICES ASSUME NEW o \in Slots
                     PROVE  \E p \in Node \X Agents : slot[p] = o
        OBVIOUS
      <3>2. <<o.node, o.agent>> \in Node \X Agents
            /\ slot[<<o.node, o.agent>>] = o
        OBVIOUS
      <3>3. QED
        BY <3>2
    <2>3. QED
      BY <2>1, <2>2 DEF Surjection
  <1>3. IsFiniteSet(Slots)
    BY <1>1, <1>2, FS_Surjection
  <1>4. IsFiniteSet(Observable)
    BY <1>3, FS_Subset DEF Observable
  <1>5. Cardinality(Observable) \in Nat
    BY <1>4, FS_CardinalityType
  <1>6. obs \in [1 .. Cardinality(Observable) -> Observable]
    BY DEF Observations, SetToSeqs
  <1>7. obs \in Seq(Observable)
    BY <1>5, <1>6
  <1>8. QED
    BY <1>7

\* Loads are numbers.
LEMMA LoadNat ==
  ASSUME NEW n
  PROVE  Load(n) \in Nat
  <1> DEFINE S == {a \in Agents : Hosts(n, a)}
  <1>1. S \in SUBSET Agents
    OBVIOUS
  <1>2. IsFiniteSet(S)
    BY <1>1, HeuristicAssumption, FS_Subset
  <1>3. QED
    BY <1>2, FS_CardinalityType DEF Load

\* Among some nodes there is a lightest.
LEMMA LightestIn ==
  ASSUME NEW S \in SUBSET Node, S # {}
  PROVE  Lightest(S) \in S
  <1> DEFINE Loads == {l \in Nat : \E n \in S : l = Load(n)}
  <1>1. \A n \in S : Load(n) \in Nat /\ Rank[n] \in Nat
    BY LoadNat, FleetAssumption
  <1>2. Loads \in SUBSET Nat /\ Loads # {}
    BY <1>1
  <1>3. PICK l \in Loads : \A k \in Loads : ~(k < l)
    BY <1>2, LeastElement
  <1> DEFINE Ranks == {r \in Nat : \E n \in S : Load(n) = l /\ r = Rank[n]}
  <1>4. Ranks \in SUBSET Nat /\ Ranks # {}
    BY <1>1, <1>3
  <1>5. PICK r \in Ranks : \A k \in Ranks : ~(k < r)
    BY <1>4, LeastElement
  <1>6. PICK n \in S : Load(n) = l /\ r = Rank[n]
    BY <1>5
  <1>7. ASSUME NEW m \in S
        PROVE  Load(n) < Load(m) \/ (Load(n) = Load(m) /\ Rank[n] <= Rank[m])
    <2>1. ~(Load(m) < l)
      BY <1>1, <1>3
    <2>2. Load(m) = l => ~(Rank[m] < r)
      BY <1>1, <1>5
    <2>3. QED
      BY <1>1, <1>6, <2>1, <2>2
  <1>8. QED
    BY <1>6, <1>7 DEF Lightest

\* What each rule may decide.
Heals   == {d \in Decisions : d.kind = "Heal" /\ Unhealthy(d.agent)}
Refills == {d \in Decisions : d.kind = "Refill"}
Moves   == {d \in Decisions : /\ d.kind = "Migrate" /\ ~Unhealthy(d.agent)
                              /\ Hosts(d.from, d.agent)}

\* Rule 1 heals suspected agents.
LEMMA HealPlanHeals ==
  ASSUME NEW obs \in Observations
  PROVE  HealPlan(obs) \in Seq(Heals)
  <1> DEFINE sick == Among(obs, Sick)
             others(i) == Node \ {sick[i].node}
             onto(i) == Lightest(IF others(i) = {} THEN Node ELSE others(i))
             heal(i) == [kind |-> "Heal", agent |-> sick[i].agent, onto |-> onto(i)]
  <1>1. sick \in Seq(Sick)
    BY ObservationLength, AmongIsIn
  <1> HIDE DEF sick
  <1>2. Len(sick) \in Nat /\ \A i \in 1 .. Len(sick) : sick[i] \in Sick
    BY <1>1
  <1>3. ASSUME NEW i \in 1 .. Len(sick)
        PROVE  heal(i) \in Heals
    <2>1. sick[i].node \in Node /\ sick[i].agent \in Agents /\ Unhealthy(sick[i].agent)
      BY <1>2 DEF Sick, Observable
    <2>2. CASE others(i) = {}
      <3>1. Lightest(Node) \in Node
        BY <2>1, LightestIn
      <3>2. QED
        BY <2>1, <2>2, <3>1 DEF Heals, Decisions
    <2>3. CASE others(i) # {}
      <3>1. others(i) \in SUBSET Node
        OBVIOUS
      <3>2. Lightest(others(i)) \in others(i)
        BY <2>3, <3>1, LightestIn
      <3>3. onto(i) \in Node
        BY <2>3, <3>1, <3>2
      <3> HIDE DEF onto
      <3>4. QED
        BY <2>1, <3>3 DEF Heals, Decisions
    <2>4. QED
      BY <2>2, <2>3
  <1>4. HealPlan(obs) = [i \in 1 .. Len(sick) |-> heal(i)]
    BY DEF HealPlan, sick
  <1> HIDE DEF heal
  <1>5. QED
    BY <1>2, <1>3, <1>4

\* Rule 2 refills.
LEMMA RefillPlanRefills ==
  ASSUME NEW obs \in Observations, NEW enough \in [Agents -> BOOLEAN]
  PROVE  RefillPlan(obs, enough) \in Seq(Refills)
  <1> DEFINE poor == Among(obs, Poor)
             refill(i) == [kind |-> "Refill", agent |-> poor[i].agent,
                           enough |-> enough[poor[i].agent]]
  <1>1. poor \in Seq(Poor)
    BY ObservationLength, AmongIsIn
  <1> HIDE DEF poor
  <1>2. Len(poor) \in Nat /\ \A i \in 1 .. Len(poor) : poor[i] \in Poor
    BY <1>1
  <1>3. ASSUME NEW i \in 1 .. Len(poor)
        PROVE  refill(i) \in Refills
    <2>1. poor[i].agent \in Agents
      BY <1>2 DEF Poor, Observable
    <2>2. enough[poor[i].agent] \in BOOLEAN
      BY <2>1
    <2>3. QED
      BY <2>1, <2>2 DEF Refills, Decisions
  <1>4. RefillPlan(obs, enough) = [i \in 1 .. Len(poor) |-> refill(i)]
    BY DEF RefillPlan, poor
  <1> HIDE DEF refill
  <1>5. QED
    BY <1>2, <1>3, <1>4

\* Rule 3 moves one healthy agent off a node that hosts it, if any.
LEMMA MigratePlanMoves ==
  ASSUME NEW obs \in Observations
  PROVE  MigratePlan(obs) \in Seq(Moves) /\ Len(MigratePlan(obs)) <= 1
  <1> DEFINE hi == Busiest(Node)
             lo == Lightest(Node)
             movable == Among(obs, Movable(hi))
             move == [kind |-> "Migrate", agent |-> movable[1].agent,
                      from |-> hi, to |-> lo]
             none == << >>
             one == <<move>>
  <1>1. movable \in Seq(Movable(hi))
    BY ObservationLength, AmongIsIn
  <1>2. MigratePlan(obs) = IF hi # lo /\ Load(hi) - Load(lo) >= Imbalance /\ movable # << >>
                           THEN one ELSE none
    BY DEF MigratePlan
  <1> HIDE DEF movable, hi, lo
  <1>3. CASE movable # << >>
    <2>1. movable[1] \in Movable(hi)
      BY <1>1, <1>3
    <2>2. /\ hi \in Node /\ movable[1].agent \in Agents
          /\ Hosts(hi, movable[1].agent) /\ ~Unhealthy(movable[1].agent)
      BY <2>1 DEF Movable, Observable
    <2>3. lo \in Node
      BY <2>2, LightestIn DEF lo
    <2>4. move \in Moves
      BY <2>2, <2>3 DEF Moves, Decisions
    <2> HIDE DEF move
    <2>5. /\ one \in Seq(Moves) /\ Len(one) <= 1
          /\ none \in Seq(Moves) /\ Len(none) <= 1
      BY <2>4
    <2> HIDE DEF one, none
    <2>6. QED
      BY <1>2, <2>5
  <1>4. CASE movable = << >>
    <2>1. none \in Seq(Moves) /\ Len(none) <= 1
      OBVIOUS
    <2> HIDE DEF none
    <2>2. QED
      BY <1>2, <1>4, <2>1
  <1>5. QED
    BY <1>3, <1>4

\* A plan is the three rules' decisions, one rule after the other.
LEMMA ThreeRules ==
  ASSUME NEW H, NEW R, NEW M, NEW h \in Seq(H), NEW r \in Seq(R), NEW m \in Seq(M),
         Len(m) <= 1, NEW p, p = h \o r \o m
  PROVE  /\ p \in Seq(H \cup R \cup M)
         /\ \A i \in 1 .. Len(p) : i < Len(p) => p[i] \in H \cup R
  <1>1. Len(h) \in Nat /\ Len(r) \in Nat /\ Len(m) \in Nat
    OBVIOUS
  <1>2. h \o r \in Seq(H \cup R) /\ Len(h \o r) = Len(h) + Len(r)
    OBVIOUS
  <1> DEFINE q == h \o r
  <1>3. q \in Seq(H \cup R) /\ Len(q) \in Nat /\ p = q \o m
    BY <1>1, <1>2
  <1> HIDE DEF q
  <1>4. p \in Seq(H \cup R \cup M) /\ Len(p) = Len(q) + Len(m)
    BY <1>3
  <1>5. \A i \in 1 .. Len(q) : p[i] = q[i] /\ q[i] \in H \cup R
    BY <1>3
  <1>6. \A i \in 1 .. Len(p) : i < Len(p) => i \in 1 .. Len(q)
    BY <1>1, <1>3, <1>4
  <1>7. QED
    BY <1>4, <1>5, <1>6

\* What a decision of the plan builds on.
Founded(d) ==
    /\ d \in Decisions /\ d.kind \in {"Heal", "Refill", "Migrate"}
    /\ d.kind = "Heal" => reg[d.agent] # NotRegistered
    /\ d.kind = "Migrate" => Hosts(d.from, d.agent)

\* Neither of two decisions takes away what the other builds on.
Compatible(d, e) ==
    d.kind = "Migrate" => /\ e.kind # "Migrate"
                          /\ e.kind = "Heal" => e.agent # d.agent

PlanInv ==
    /\ IInv
    /\ plan \in Seq(Decisions)
    /\ \A i \in 1 .. Len(plan) : Founded(plan[i])
    /\ \A i, j \in 1 .. Len(plan) : i # j => Compatible(plan[i], plan[j])

\* So is every plan when it is made.
LEMMA PlanIsFounded ==
  ASSUME NEW obs \in Observations, NEW enough \in [Agents -> BOOLEAN],
         NEW p, p = HealPlan(obs) \o RefillPlan(obs, enough) \o MigratePlan(obs)
  PROVE  /\ p \in Seq(Decisions)
         /\ \A i \in 1 .. Len(p) : Founded(p[i])
         /\ \A i, j \in 1 .. Len(p) : i # j => Compatible(p[i], p[j])
  <1>1. /\ p \in Seq(Heals \cup Refills \cup Moves)
        /\ \A i \in 1 .. Len(p) : i < Len(p) => p[i] \in Heals \cup Refills
    <2> DEFINE h == HealPlan(obs)
               r == RefillPlan(obs, enough)
               m == MigratePlan(obs)
    <2>1. h \in Seq(Heals)
      BY HealPlanHeals
    <2>2. r \in Seq(Refills)
      BY RefillPlanRefills, Zenon
    <2>3. m \in Seq(Moves) /\ Len(m) <= 1
      BY MigratePlanMoves
    <2>4. p = h \o r \o m
      OBVIOUS
    <2> HIDE DEF h, r, m
    <2>5. QED
      BY <2>1, <2>2, <2>3, <2>4, ThreeRules, Zenon
  <1>2. Len(p) \in Nat /\ \A i \in 1 .. Len(p) : p[i] \in Heals \cup Refills \cup Moves
    BY <1>1
  <1>3. \A d \in Heals \cup Refills \cup Moves : Founded(d)
    BY DEF Heals, Refills, Moves, Founded, Unhealthy
  <1>4. p \in Seq(Decisions)
    BY <1>2, <1>1 DEF Heals, Refills, Moves
  <1>5. ASSUME NEW i \in 1 .. Len(p), NEW j \in 1 .. Len(p), i # j
        PROVE  Compatible(p[i], p[j])
    <2>1. CASE p[i].kind # "Migrate"
      BY <2>1 DEF Compatible
    <2>2. CASE p[i].kind = "Migrate"
      <3>1. p[i] \in Moves /\ p[i] \notin Heals \cup Refills
        BY <1>2, <2>2 DEF Heals, Refills, Moves
      <3>2. ~(i < Len(p))
        BY <1>1, <3>1
      <3>3. j < Len(p)
        BY <1>2, <1>5, <3>2
      <3>4. p[j] \in Heals \cup Refills
        BY <1>1, <3>3
      <3>5. QED
        BY <3>1, <3>4 DEF Compatible, Heals, Refills, Moves
    <2>3. QED
      BY <2>1, <2>2
  <1>6. QED
    BY <1>2, <1>3, <1>4, <1>5

\* Actuating one decision leaves what a compatible one builds on.
LEMMA ActuateKeepsFounded ==
  ASSUME IInv, NEW d, Founded(d), Actuate(d), NEW e, Founded(e),
         Compatible(d, e), Compatible(e, d)
  PROVE  Founded(e)'
  <1>1. /\ d \in Decisions /\ d.kind \in {"Heal", "Refill", "Migrate"}
        /\ e \in Decisions /\ e.kind \in {"Heal", "Refill", "Migrate"}
        /\ e.agent \in Agents /\ d.agent \in Agents
    BY DEF Founded, Decisions
  <1>2. e.kind = "Heal" => reg'[e.agent] # NotRegistered
    <2>1. SUFFICES ASSUME e.kind = "Heal" PROVE reg'[e.agent] # NotRegistered
      OBVIOUS
    <2>2. reg[e.agent] # NotRegistered /\ reg \in [Agents -> RegRecords \cup {NotRegistered}]
      BY <2>1 DEF Founded, IInv, FleetTypeOK, RegRecords
    <2>3. CASE d.kind = "Heal"
      <3>1. d.onto \in Node /\ reg' = [reg EXCEPT ![d.agent] = Healed(@, d.onto)]
        BY <1>1, <2>3 DEF Actuate, Heal, Decisions
      <3>2. CASE d.agent = e.agent
        <4>1. reg[e.agent] \in RegRecords
          BY <1>1, <2>2
        <4>2. Healed(reg[e.agent], d.onto) \in RegRecords
          BY <3>1, <4>1 DEF Healed, Entry, RegRecords
        <4>3. reg'[e.agent] = Healed(reg[e.agent], d.onto)
          BY <1>1, <2>2, <3>1, <3>2
        <4>4. QED
          BY <4>2, <4>3, FleetAssumption DEF RegRecords
      <3>3. CASE d.agent # e.agent
        BY <1>1, <2>2, <3>1, <3>3
      <3>4. QED
        BY <3>2, <3>3
    <2>4. CASE d.kind = "Refill"
      BY <2>2, <2>4 DEF Actuate, Refill
    <2>5. CASE d.kind = "Migrate"
      BY <2>2, <2>5 DEF Actuate, Migrate
    <2>6. QED
      BY <1>1, <2>3, <2>4, <2>5
  <1>3. e.kind = "Migrate" => Hosts(e.from, e.agent)'
    <2>1. SUFFICES ASSUME e.kind = "Migrate" PROVE placement'[e.from][e.agent] # Absent
      BY DEF Hosts
    <2>2. e.from \in Node /\ placement[e.from][e.agent] # Absent
      BY <1>1, <2>1 DEF Founded, Hosts, Decisions
    <2>3. CASE d.agent # e.agent
      <3>1. FleetTypeOK
        BY DEF IInv
      <3>2. Slice(e.agent)' = Slice(e.agent)
        BY <1>1, <2>3, <3>1, ActuateIsLocal
      <3>3. [n \in Node |-> placement'[n][e.agent]] = [n \in Node |-> placement[n][e.agent]]
        BY <3>2 DEF Slice
      <3>4. placement'[e.from][e.agent] = placement[e.from][e.agent]
        BY <2>2, <3>3
      <3>5. QED
        BY <2>2, <3>4
    <2>4. CASE d.agent = e.agent
      <3>1. d.kind = "Refill"
        BY <1>1, <2>1, <2>4 DEF Compatible
      <3> DEFINE n == HostOf(e.agent)
                 i == Instance(placement[n][e.agent].version,
                               placement[n][e.agent].low /\ ~d.enough,
                               placement[n][e.agent].equipped)
      <3>2. n \in Node /\ placement[n][e.agent] \in Instances
        BY <1>1, HostOfHosts
      <3>3. (placement[n][e.agent].low /\ ~d.enough) \in BOOLEAN
        OBVIOUS
      <3>4. i \in Instances
        BY <3>2, <3>3, Portable
      <3>5. placement' = [placement EXCEPT ![n][e.agent] = i]
        BY <2>4, <3>1 DEF Actuate, Refill
      <3>6. placement \in [Node -> [Agents -> Instances \cup {Absent}]]
        BY DEF IInv, FleetTypeOK
      <3> HIDE DEF n, i
      <3>7. placement'[e.from][e.agent] \in {i, placement[e.from][e.agent]}
        BY <1>1, <2>2, <3>2, <3>5, <3>6
      <3>8. QED
        BY <2>2, <3>4, <3>7, FleetAssumption
    <2>5. QED
      BY <2>3, <2>4
  <1>4. QED
    BY <1>1, <1>2, <1>3 DEF Founded

\* Every step of the heuristic is a step of the fleet, or leaves it alone.
LEMMA HeuristicStep == PlanInv /\ [HeuristicNext]_heuristicVars => [FleetNext]_fleet
  <1> SUFFICES ASSUME PlanInv, [HeuristicNext]_heuristicVars PROVE [FleetNext]_fleet
    OBVIOUS
  <1>1. CASE ActuateNext
    <2>1. plan[1] \in Decisions
      BY <1>1 DEF PlanInv, ActuateNext
    <2>2. QED
      BY <1>1, <2>1 DEF ActuateNext, FleetNext
  <1>2. CASE ~ActuateNext
    BY <1>2 DEF HeuristicNext, heuristicVars, ControlTick, Reporting, SupervisorCycle,
                Events, FleetNext, Surroundings
  <1>3. QED
    BY <1>1, <1>2

\* And keeps the invariant.
LEMMA HeuristicKeepsPlan == PlanInv /\ [HeuristicNext]_heuristicVars => PlanInv'
  <1> SUFFICES ASSUME PlanInv, [HeuristicNext]_heuristicVars PROVE PlanInv'
    OBVIOUS
  <1>1. IInv /\ IInv'
    BY HeuristicStep, NextIInv DEF PlanInv
  <1>2. CASE ControlTick
    <2>1. PICK obs \in Observations, enough \in [Agents -> BOOLEAN] :
            plan' = HealPlan(obs) \o RefillPlan(obs, enough) \o MigratePlan(obs)
      BY <1>2 DEF ControlTick
    <2>2. PICK p : p = HealPlan(obs) \o RefillPlan(obs, enough) \o MigratePlan(obs)
      OBVIOUS
    <2>3. /\ p \in Seq(Decisions)
          /\ \A i \in 1 .. Len(p) : Founded(p[i])
          /\ \A i, j \in 1 .. Len(p) : i # j => Compatible(p[i], p[j])
      BY <2>2, PlanIsFounded, ZenonT(30)
    <2>4. UNCHANGED fleet
      BY <1>2 DEF ControlTick
    <2>5. \A i \in 1 .. Len(p) : Founded(p[i])'
      BY <2>3, <2>4 DEF Founded, fleet, Hosts
    <2>6. QED
      <3>1. plan' = p
        BY <2>1, <2>2
      <3>2. QED
        BY <1>1, <2>3, <2>5, <3>1 DEF PlanInv, Founded, Hosts, Compatible
  <1>3. CASE ActuateNext
    <2>1. /\ plan \in Seq(Decisions) /\ Len(plan) \in Nat /\ plan # << >>
          /\ plan' = Tail(plan)
      BY <1>3 DEF PlanInv, ActuateNext
    <2>2. /\ plan' \in Seq(Decisions) /\ Len(plan') = Len(plan) - 1
          /\ 1 \in 1 .. Len(plan)
          /\ \A i \in 1 .. Len(plan') : i + 1 \in 1 .. Len(plan) /\ plan'[i] = plan[i + 1]
      BY <2>1
    <2>3. PICK d : d = plan[1]
      OBVIOUS
    <2>4. ASSUME NEW i \in 1 .. Len(plan'), NEW e, e = plan'[i]
          PROVE  Founded(e)'
      <3>1. e = plan[i + 1] /\ i + 1 \in 1 .. Len(plan) /\ i + 1 # 1
        BY <2>2, <2>4
      <3>2. Founded(d) /\ Founded(e) /\ Compatible(d, e) /\ Compatible(e, d)
        BY <2>2, <2>3, <3>1 DEF PlanInv
      <3>3. CASE Actuate(d)
        BY <1>1, <3>2, <3>3, ActuateKeepsFounded
      <3>4. CASE UNCHANGED fleet
        BY <3>2, <3>4 DEF Founded, fleet, Hosts
      <3>5. QED
        BY <1>3, <2>3, <3>3, <3>4 DEF ActuateNext
    <2>5. \A i \in 1 .. Len(plan') : (\A e : e = plan'[i] => Founded(e)')
      BY <2>4
    <2>6. (\A i \in 1 .. Len(plan) : Founded(plan[i]))'
      BY <2>5 DEF Founded, Hosts
    <2>7. (\A i, j \in 1 .. Len(plan) : i # j => Compatible(plan[i], plan[j]))'
      <3>1. SUFFICES ASSUME NEW i \in 1 .. Len(plan'), NEW j \in 1 .. Len(plan'), i # j
                     PROVE  Compatible(plan[i + 1], plan[j + 1])
        BY <2>2 DEF Compatible
      <3>2. i + 1 # j + 1
        BY <3>1
      <3>3. QED
        BY <2>2, <3>1, <3>2 DEF PlanInv
    <2>8. QED
      BY <1>1, <2>2, <2>6, <2>7 DEF PlanInv
  <1>4. CASE plan' = plan /\ (plan = << >> \/ UNCHANGED fleet)
    <2>1. CASE plan = << >>
      BY <1>1, <1>4, <2>1 DEF PlanInv
    <2>2. CASE UNCHANGED fleet
      BY <1>1, <1>4, <2>2 DEF PlanInv, Founded, fleet, Hosts
    <2>3. QED
      BY <1>4, <2>1, <2>2
  <1>5. QED
    BY <1>2, <1>3, <1>4 DEF HeuristicNext, heuristicVars, Reporting, SupervisorCycle,
                            Events, AtRest

\* It holds at first.
LEMMA HeuristicInductive == HeuristicSpec => []PlanInv
  <1>1. HeuristicInit => PlanInv
    BY InitIInv DEF HeuristicInit, PlanInv
  <1>2. QED
    BY <1>1, HeuristicKeepsPlan, PTL DEF HeuristicSpec

\* ControlPlane::tick under the baseline policy touches agents only as the
\* mechanisms do, whatever it has observed.
THEOREM HeuristicUsesMechanisms == HeuristicSpec => FleetSpec
  <1>1. HeuristicInit => FleetInit
    BY DEF HeuristicInit
  <1>2. QED
    BY <1>1, HeuristicInductive, HeuristicStep, PTL DEF HeuristicSpec, FleetSpec

\* So, whatever fails and however long it goes on healing and balancing, each
\* agent is hosted exactly once.
THEOREM HeuristicKeepsOneInstance == HeuristicSpec => []SingleInstance
  BY HeuristicUsesMechanisms, OneInstance, PTL

\* No decision of a plan takes away what a later one builds on, for any number
\* of nodes and agents: the plan of one observation is actuated to its end.
THEOREM PlansStayApplicable == HeuristicSpec => []PlanStaysApplicable
  <1>1. PlanInv => PlanStaysApplicable
    <2>1. SUFFICES ASSUME PlanInv, plan # << >> PROVE Applicable(plan[1])
      BY DEF PlanStaysApplicable
    <2>2. Founded(plan[1])
      BY <2>1 DEF PlanInv
    <2>3. plan[1].agent \in Agents
      BY <2>2 DEF Founded, Decisions
    <2>4. Hosted(plan[1].agent)
      BY <2>1, <2>3 DEF PlanInv, IInv, SingleInstance, Hosted
    <2>5. QED
      BY <2>2, <2>4 DEF Founded, Applicable
  <1>2. QED
    BY <1>1, HeuristicInductive, PTL

=============================================================================
