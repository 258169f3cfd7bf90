--------------------------- MODULE RecoveryProofs ---------------------------
(***************************************************************************)
(* Proofs about the two mechanisms that bring an agent back: self-update   *)
(* with rollback (update.rs) and supervision (supervisor.rs).              *)
(*                                                                         *)
(* Self-update, for every set of states and every number of generations:   *)
(* the history's invariants, and that it implements the promise of         *)
(* KnownGood.  Supervision, for any nodes, any threshold and any number of *)
(* acts, ticks, crashes and heals: types and spend whatever the heartbeats *)
(* do; and, from each heal until a heartbeat of an instance left behind is *)
(* processed, the fence and that the authority knows what a heal restores. *)
(***************************************************************************)
EXTENDS SelfUpdate, Supervision, FiniteSetTheorems, TLAPS

----------------------------------------------------------------------------
\* What the actions do to the history.

\* A newest committed generation exists.  (That a finite set of indices has a
\* largest one needs induction; here it is carried by the invariant.)
HasLast(h) == \E i \in Committed(h) : \A j \in Committed(h) : j <= i

\* LastCommitted is the newest committed generation.
LEMMA LastIs ==
  ASSUME NEW h, NEW i \in Committed(h), \A j \in Committed(h) : j <= i
  PROVE  HasLast(h) /\ LastCommitted(h) = i
  <1>1. HasLast(h)
    BY DEF HasLast
  <1>2. /\ LastCommitted(h) \in Committed(h)
        /\ LastCommitted(h) <= i /\ i <= LastCommitted(h)
    BY DEF LastCommitted
  <1>3. LastCommitted(h) \in Int /\ i \in Int
    BY <1>2 DEF Committed
  <1>4. QED
    BY <1>1, <1>2, <1>3

\* What the type of the history says of its parts.
LEMMA HistoryTyped ==
  ASSUME UpdateTypeOK, HasLast(history)
  PROVE  /\ history \in Histories(State)
         /\ history.gens \in Seq(Generations(State))
         /\ Len(history.gens) \in Nat /\ history.next \in Nat
         /\ \A i \in 1 .. Len(history.gens) :
              /\ history.gens[i] \in Generations(State)
              /\ history.gens[i].number \in Nat
              /\ history.gens[i].checkpoint \in State
         /\ LastCommitted(history) \in 1 .. Len(history.gens)
         /\ history.gens[LastCommitted(history)].status = "Committed"
         /\ \A j \in Committed(history) : j <= LastCommitted(history)
  <1>1. /\ history \in Histories(State)
        /\ history.gens \in Seq(Generations(State)) /\ history.next \in Nat
    BY DEF UpdateTypeOK, Histories
  <1>2. Len(history.gens) \in Nat
        /\ \A i \in 1 .. Len(history.gens) : history.gens[i] \in Generations(State)
    BY <1>1
  <1>3. \A g \in Generations(State) : g.number \in Nat /\ g.checkpoint \in State
    BY DEF Generations
  <1>4. /\ LastCommitted(history) \in Committed(history)
        /\ \A j \in Committed(history) : j <= LastCommitted(history)
    BY DEF HasLast, LastCommitted
  <1>5. QED
    BY <1>1, <1>2, <1>3, <1>4 DEF Committed

\* At first the baseline, committed, is the only generation.
LEMMA Baseline ==
  ASSUME UpdateInit
  PROVE  /\ history \in Histories(State)
         /\ Len(history.gens) = 1 /\ history.next = 1
         /\ history.gens[1] = Generation(0, "Committed", running)
         /\ HasLast(history) /\ LastCommitted(history) = 1
  <1> DEFINE g == Generation(0, "Committed", running)
  <1>1. history = [gens |-> <<g>>, next |-> 1] /\ g \in Generations(State)
    BY DEF UpdateInit, InitHistory, Generation, Generations
  <1>2. history.gens \in Seq(Generations(State)) /\ Len(history.gens) = 1
        /\ history.gens[1] = g
    BY <1>1
  <1>3. 1 \in Committed(history) /\ \A j \in Committed(history) : j <= 1
    BY <1>2 DEF Committed, Generation
  <1>4. history \in Histories(State)
    BY <1>1, <1>2 DEF Histories
  <1>5. QED
    BY <1>1, <1>2, <1>3, <1>4, LastIs

\* Staging appends a candidate and leaves the committed generations alone.
LEMMA Staged ==
  ASSUME UpdateTypeOK, HasLast(history), StageUpdate
  PROVE  LET n == Len(history.gens)
         IN  /\ history' \in Histories(State)
             /\ Len(history'.gens) = n + 1
             /\ \A i \in 1 .. n : history'.gens[i] = history.gens[i]
             /\ history'.gens[n + 1] = Generation(history.next, "Candidate", running)
             /\ history'.next = history.next + 1
             /\ HasLast(history')
             /\ LastCommitted(history') = LastCommitted(history)
  <1> DEFINE n == Len(history.gens)
             g == Generation(history.next, "Candidate", running)
  <1>1. g \in Generations(State) /\ g.status = "Candidate"
    BY HistoryTyped DEF Generation, Generations, UpdateTypeOK
  <1>2. history' = [gens |-> Append(history.gens, g), next |-> history.next + 1]
    BY DEF StageUpdate, Stage
  <1> HIDE DEF g
  <1>3. /\ history'.gens \in Seq(Generations(State)) /\ Len(history'.gens) = n + 1
        /\ \A i \in 1 .. n : history'.gens[i] = history.gens[i]
        /\ history'.gens[n + 1] = g
        /\ history'.next = history.next + 1
    BY <1>1, <1>2, HistoryTyped
  <1>4. history' \in Histories(State)
    BY <1>2, <1>3, HistoryTyped DEF Histories
  <1>5. Committed(history') = Committed(history)
    BY <1>1, <1>3, HistoryTyped DEF Committed
  <1>6. HasLast(history') /\ LastCommitted(history') = LastCommitted(history)
    BY <1>5 DEF HasLast, LastCommitted
  <1>7. QED
    BY <1>3, <1>4, <1>6 DEF g

\* A good verdict commits the newest generation and changes no other.
LEMMA Accepted ==
  ASSUME UpdateTypeOK, HasLast(history), ConcludeHealthy
  PROVE  LET n == Len(history.gens)
         IN  /\ history' \in Histories(State)
             /\ Len(history'.gens) = n
             /\ \A i \in 1 .. n :
                  /\ history'.gens[i].number = history.gens[i].number
                  /\ history'.gens[i].checkpoint = history.gens[i].checkpoint
                  /\ history'.gens[i].status =
                       IF i = n THEN "Committed" ELSE history.gens[i].status
             /\ history'.next = history.next
             /\ HasLast(history')
             /\ LastCommitted(history') = n
  <1> DEFINE n == Len(history.gens)
  <1>1. /\ history' = [gens |-> [history.gens EXCEPT ![n].status = "Committed"],
                       next |-> history.next]
    BY DEF ConcludeHealthy, Promote
  <1>2. n \in 1 .. n /\ n \in Nat
    BY HistoryTyped
  <1>3. [history.gens[n] EXCEPT !.status = "Committed"] \in Generations(State)
    BY <1>2, HistoryTyped DEF Generations
  <1>4. /\ history'.gens \in Seq(Generations(State)) /\ Len(history'.gens) = n
        /\ history'.next = history.next
    BY <1>1, <1>3, HistoryTyped
  <1>5. \A i \in 1 .. n :
          /\ history'.gens[i].number = history.gens[i].number
          /\ history'.gens[i].checkpoint = history.gens[i].checkpoint
          /\ history'.gens[i].status =
               IF i = n THEN "Committed" ELSE history.gens[i].status
    BY <1>1, HistoryTyped DEF Generations
  <1>6. history' \in Histories(State)
    BY <1>1, <1>4, HistoryTyped DEF Histories
  <1>7. n \in Committed(history') /\ \A j \in Committed(history') : j <= n
    BY <1>2, <1>4, <1>5 DEF Committed
  <1>8. QED
    BY <1>4, <1>5, <1>6, <1>7, LastIs

\* A bad verdict keeps the generations up to the last committed one.
LEMMA Rejected ==
  ASSUME UpdateTypeOK, HasLast(history), ConcludeUnhealthy
  PROVE  LET k == LastCommitted(history)
         IN  /\ history' \in Histories(State)
             /\ Len(history'.gens) = k
             /\ \A i \in 1 .. k : history'.gens[i] = history.gens[i]
             /\ history'.next = history.next
             /\ HasLast(history')
             /\ LastCommitted(history') = k
  <1> DEFINE k == LastCommitted(history)
  <1>1. history' = [gens |-> SubSeq(history.gens, 1, k), next |-> history.next]
    BY DEF ConcludeUnhealthy, Rollback
  <1>2. /\ history'.gens \in Seq(Generations(State)) /\ Len(history'.gens) = k
        /\ \A i \in 1 .. k : history'.gens[i] = history.gens[i]
        /\ history'.next = history.next
    BY <1>1, HistoryTyped
  <1>3. history' \in Histories(State)
    BY <1>1, <1>2, HistoryTyped DEF Histories
  <1>4. k \in Committed(history') /\ \A j \in Committed(history') : j <= k
    BY <1>2, HistoryTyped DEF Committed
  <1>5. QED
    BY <1>2, <1>3, <1>4, LastIs

----------------------------------------------------------------------------
\* The invariant.

UpdateInv ==
    /\ UpdateTypeOK
    /\ HasLast(history)
    /\ BaselineRetained
    /\ NumbersNameOneGeneration
    /\ VerdictNamesLastGood

\* The initial states satisfy the invariant.
LEMMA InitUpdateInv == UpdateInit => UpdateInv
  <1> SUFFICES ASSUME UpdateInit PROVE UpdateInv
    OBVIOUS
  <1> DEFINE g == Generation(0, "Committed", running)
  <1>1. /\ history \in Histories(State) /\ HasLast(history)
        /\ Len(history.gens) = 1 /\ history.gens[1] = g /\ history.next = 1
    BY Baseline
  <1>2. g.number = 0 /\ g.status = "Committed"
    BY DEF Generation
  <1>3. UpdateTypeOK
    BY <1>1 DEF UpdateInit, UpdateTypeOK, Outcome
  <1>4. BaselineRetained
    BY <1>1, <1>2 DEF BaselineRetained
  <1>5. NumbersNameOneGeneration
    BY <1>1, <1>2 DEF UpdateInit, NumbersNameOneGeneration
  <1>6. VerdictNamesLastGood
    BY DEF UpdateInit, VerdictNamesLastGood, Outcome
  <1>7. QED
    BY <1>1, <1>3, <1>4, <1>5, <1>6 DEF UpdateInv

\* Staging keeps the invariant.
LEMMA StageStep == UpdateInv /\ StageUpdate => UpdateInv'
  <1> SUFFICES ASSUME UpdateInv, StageUpdate PROVE UpdateInv'
    OBVIOUS
  <1> DEFINE n == Len(history.gens)
  <1>1. UpdateTypeOK /\ HasLast(history)
    BY DEF UpdateInv
  <1>2. n \in Nat /\ history.next \in Nat
    BY <1>1, HistoryTyped
  <1>3. UNCHANGED <<running, attached, outcome, rejected>>
    BY DEF StageUpdate
  <1>4. /\ history' \in Histories(State)
        /\ Len(history'.gens) = n + 1
        /\ \A i \in 1 .. n : history'.gens[i] = history.gens[i]
        /\ history'.gens[n + 1] = Generation(history.next, "Candidate", running)
        /\ history'.next = history.next + 1
        /\ HasLast(history')
        /\ LastCommitted(history') = LastCommitted(history)
    BY <1>1, Staged
  <1>5. UpdateTypeOK'
    BY <1>3, <1>4 DEF UpdateInv, UpdateTypeOK
  <1>6. BaselineRetained'
    BY <1>2, <1>4 DEF UpdateInv, BaselineRetained
  <1>7. NumbersNameOneGeneration'
    <2> DEFINE num(i) == history'.gens[i].number
    <2>1. \A i \in 1 .. n : num(i) \in Nat /\ num(i) < history.next
      BY <1>1, <1>4, HistoryTyped DEF UpdateInv, NumbersNameOneGeneration
    <2>2. num(n + 1) = history.next
      BY <1>4 DEF Generation
    <2>3. \A i \in 1 .. (n + 1) : i \in 1 .. n \/ i = n + 1
      BY <1>2
    <2>4. \A m \in rejected : m \in Nat /\ m < history.next
      BY DEF UpdateInv, UpdateTypeOK, NumbersNameOneGeneration
    <2>5. \A i, j \in 1 .. n : i < j => num(i) < num(j)
      BY <1>4 DEF UpdateInv, NumbersNameOneGeneration
    <2>6. \A i \in 1 .. n : num(i) \notin rejected
      BY <1>4 DEF UpdateInv, NumbersNameOneGeneration
    <2> HIDE DEF num
    <2>7. \A i, j \in 1 .. (n + 1) : i < j => num(i) < num(j)
      BY <1>2, <2>1, <2>2, <2>3, <2>5
    <2>8. \A i \in 1 .. (n + 1) : num(i) < history'.next /\ num(i) \notin rejected
      BY <1>2, <1>4, <2>1, <2>2, <2>3, <2>4, <2>6
    <2>9. \A m \in rejected : m < history'.next
      BY <1>2, <1>4, <2>4
    <2>10. QED
      BY <1>3, <1>4, <2>7, <2>8, <2>9 DEF num, NumbersNameOneGeneration
  <1>8. VerdictNamesLastGood'
    <2>1. LastCommitted(history) \in 1 .. n
      BY <1>1, HistoryTyped
    <2>2. QED
      BY <1>3, <1>4, <2>1 DEF UpdateInv, VerdictNamesLastGood
  <1>9. QED
    BY <1>4, <1>5, <1>6, <1>7, <1>8 DEF UpdateInv

\* A good verdict keeps the invariant.
LEMMA HealthyStep == UpdateInv /\ ConcludeHealthy => UpdateInv'
  <1> SUFFICES ASSUME UpdateInv, ConcludeHealthy PROVE UpdateInv'
    OBVIOUS
  <1> DEFINE n == Len(history.gens)
  <1>1. UpdateTypeOK /\ HasLast(history) /\ n > 0
    BY DEF UpdateInv, BaselineRetained
  <1>2. n \in Nat
    BY <1>1, HistoryTyped
  <1>3. /\ outcome' = Outcome("Committed", CurrentGen(history))
        /\ UNCHANGED <<running, attached, rejected>>
    BY DEF ConcludeHealthy
  <1>4. /\ history' \in Histories(State)
        /\ Len(history'.gens) = n
        /\ \A i \in 1 .. n : history'.gens[i].number = history.gens[i].number
        /\ \A i \in 1 .. n : history'.gens[i].status =
             IF i = n THEN "Committed" ELSE history.gens[i].status
        /\ history'.next = history.next
        /\ HasLast(history')
        /\ LastCommitted(history') = n
    BY <1>1, Accepted
  <1>5. outcome' = [kind |-> "Committed", gen |-> history.gens[n].number]
    BY <1>3 DEF Outcome, CurrentGen, Newest
  <1>6. UpdateTypeOK'
    <2>1. history.gens[n].number \in Nat
      BY <1>1, <1>2, HistoryTyped
    <2>2. QED
      BY <1>3, <1>4, <1>5, <2>1 DEF UpdateInv, UpdateTypeOK
  <1>7. BaselineRetained'
    BY <1>1, <1>2, <1>4 DEF UpdateInv, BaselineRetained
  <1>8. NumbersNameOneGeneration'
    BY <1>3, <1>4 DEF UpdateInv, NumbersNameOneGeneration
  <1>9. VerdictNamesLastGood'
    BY <1>1, <1>2, <1>4, <1>5 DEF VerdictNamesLastGood
  <1>10. QED
    BY <1>4, <1>6, <1>7, <1>8, <1>9 DEF UpdateInv

\* A bad verdict keeps the invariant.
LEMMA UnhealthyStep == UpdateInv /\ ConcludeUnhealthy => UpdateInv'
  <1> SUFFICES ASSUME UpdateInv, ConcludeUnhealthy PROVE UpdateInv'
    OBVIOUS
  <1> DEFINE n == Len(history.gens)
             k == LastCommitted(history)
             popped == {history.gens[i].number : i \in (k + 1) .. n}
  <1>1. UpdateTypeOK /\ HasLast(history)
    BY DEF UpdateInv
  <1>2. n \in Nat /\ history.next \in Nat
    BY <1>1, HistoryTyped
  <1>3. /\ outcome' = Outcome("RolledBack", CurrentGen(history'))
        /\ running' = LastGood(history')
        /\ attached' = FALSE
    BY DEF ConcludeUnhealthy
  <1>4. /\ history' \in Histories(State)
        /\ k \in 1 .. n
        /\ Len(history'.gens) = k
        /\ \A i \in 1 .. k : history'.gens[i] = history.gens[i]
        /\ history'.next = history.next
        /\ HasLast(history')
        /\ LastCommitted(history') = k
    BY <1>1, HistoryTyped, Rejected
  <1>5. rejected' = rejected \cup popped
    BY <1>4 DEF ConcludeUnhealthy
  <1>6. outcome' = [kind |-> "RolledBack", gen |-> history.gens[k].number]
    BY <1>2, <1>3, <1>4 DEF Outcome, CurrentGen, Newest
  <1>7. \A i \in 1 .. n : history.gens[i].number \in Nat
                          /\ history.gens[i].checkpoint \in State
    BY <1>1, HistoryTyped
  <1>8. UpdateTypeOK'
    <2>1. running' \in State
      BY <1>2, <1>3, <1>4, <1>7 DEF LastGood
    <2>2. popped \subseteq Nat
      BY <1>2, <1>4, <1>7
    <2>3. rejected' \subseteq Nat
      BY <1>5, <2>2 DEF UpdateInv, UpdateTypeOK
    <2>4. outcome' \in [kind : {"None", "Committed", "RolledBack"}, gen : Nat]
      BY <1>4, <1>6, <1>7
    <2>5. QED
      BY <1>3, <1>4, <2>1, <2>3, <2>4 DEF UpdateTypeOK
  <1>9. BaselineRetained'
    BY <1>2, <1>4 DEF UpdateInv, BaselineRetained
  <1>10. NumbersNameOneGeneration'
    <2>1. \A i, j \in 1 .. n :
            i < j => history.gens[i].number < history.gens[j].number
      BY DEF UpdateInv, NumbersNameOneGeneration
    <2>2. \A i \in 1 .. k : history.gens[i].number \notin popped
      <3>1. SUFFICES ASSUME NEW i \in 1 .. k, NEW j \in (k + 1) .. n,
                            history.gens[i].number = history.gens[j].number
                     PROVE  FALSE
        OBVIOUS
      <3>2. i \in 1 .. n /\ j \in 1 .. n /\ i < j
        BY <1>2, <1>4
      <3>3. QED
        BY <1>7, <2>1, <3>1, <3>2
    <2>3. \A m \in popped : m < history.next
      <3>1. \A i \in (k + 1) .. n : i \in 1 .. n
        BY <1>2, <1>4
      <3>2. QED
        BY <3>1 DEF UpdateInv, NumbersNameOneGeneration
    <2>4. \A i \in 1 .. k : i \in 1 .. n
      BY <1>2, <1>4
    <2>5. \A i \in 1 .. k : history'.gens[i].number \notin rejected'
      BY <1>4, <1>5, <2>2, <2>4 DEF UpdateInv, NumbersNameOneGeneration
    <2>6. \A m \in rejected' : m < history'.next
      BY <1>4, <1>5, <2>3 DEF UpdateInv, NumbersNameOneGeneration
    <2>7. \A i \in 1 .. k : history'.gens[i].number < history'.next
      BY <1>4, <2>4 DEF UpdateInv, NumbersNameOneGeneration
    <2>8. \A i, j \in 1 .. k :
            i < j => history'.gens[i].number < history'.gens[j].number
      BY <1>4, <2>1, <2>4
    <2>9. QED
      BY <1>4, <2>5, <2>6, <2>7, <2>8 DEF NumbersNameOneGeneration
  <1>11. VerdictNamesLastGood'
    BY <1>4, <1>6 DEF VerdictNamesLastGood
  <1>12. QED
    BY <1>4, <1>8, <1>9, <1>10, <1>11 DEF UpdateInv

\* Every step keeps the invariant.
LEMMA NextUpdateInv == UpdateInv /\ [UpdateNext]_updateVars => UpdateInv'
  <1> SUFFICES ASSUME UpdateInv, [UpdateNext]_updateVars PROVE UpdateInv'
    OBVIOUS
  <1>1. CASE UNCHANGED updateVars
    BY <1>1 DEF UpdateInv, updateVars, UpdateTypeOK, HasLast, Committed, LastCommitted,
                BaselineRetained, NumbersNameOneGeneration, VerdictNamesLastGood
  <1>2. CASE Mutate \/ Reattach
    <2>1. running' \in State /\ attached' \in BOOLEAN
          /\ UNCHANGED <<history, outcome, rejected>>
      BY <1>2 DEF Mutate, Reattach, UpdateInv, UpdateTypeOK
    <2>2. QED
      BY <2>1 DEF UpdateInv, UpdateTypeOK, HasLast, Committed, LastCommitted,
                  BaselineRetained, NumbersNameOneGeneration,
                  VerdictNamesLastGood
  <1>3. QED
    BY <1>1, <1>2, StageStep, HealthyStep, UnhealthyStep DEF UpdateNext

\* The invariant holds throughout.
LEMMA Inductive == UpdateSpec => []UpdateInv
  BY InitUpdateInv, NextUpdateInv, PTL DEF UpdateSpec

\* Types: every reachable state is well typed.
THEOREM SelfUpdateTypes == UpdateSpec => []UpdateTypeOK
  BY Inductive, PTL DEF UpdateInv

\* The head of update.rs: whatever is staged and concluded, the initial
\* baseline and with it a committed generation survive.
THEOREM BaselineSurvives == UpdateSpec => []BaselineRetained
  BY Inductive, PTL DEF UpdateInv

\* A generation number is never used twice, not even after a rollback.
THEOREM NumbersAreUnique == UpdateSpec => []NumbersNameOneGeneration
  BY Inductive, PTL DEF UpdateInv

\* The generation of the last verdict is the one a rollback restores.
THEOREM VerdictsAreTruthful == UpdateSpec => []VerdictNamesLastGood
  BY Inductive, PTL DEF UpdateInv

----------------------------------------------------------------------------
\* Self-update implements KnownGood.

\* At first the baseline is the known-good state and nothing is on trial.
LEMMA InitPromise == UpdateInit => Promise!Init
  <1> SUFFICES ASSUME UpdateInit PROVE Promise!Init
    OBVIOUS
  <1>1. /\ Len(history.gens) = 1
        /\ history.gens[1] = Generation(0, "Committed", running)
        /\ LastCommitted(history) = 1
    BY Baseline
  <1>2. LastGood(history) = running
    BY <1>1 DEF LastGood, Generation
  <1>3. OnTrial = <<>>
    BY <1>1 DEF OnTrial
  <1>4. QED
    BY <1>2, <1>3 DEF UpdateInit, Promise!Init

\* Staging tries the running state.
LEMMA StageTries == UpdateInv /\ StageUpdate => Promise!Try
  <1> SUFFICES ASSUME UpdateInv, StageUpdate PROVE Promise!Try
    OBVIOUS
  <1> DEFINE n == Len(history.gens)
             k == LastCommitted(history)
  <1>1. UpdateTypeOK /\ HasLast(history) /\ running \in State
    BY DEF UpdateInv, UpdateTypeOK
  <1>2. n \in Nat
    BY <1>1, HistoryTyped
  <1>3. k \in 1 .. n
    BY <1>1, HistoryTyped
  <1>4. running' = running
    BY DEF StageUpdate
  <1>5. /\ Len(history'.gens) = n + 1
        /\ \A i \in 1 .. n : history'.gens[i] = history.gens[i]
        /\ history'.gens[n + 1] = Generation(history.next, "Candidate", running)
        /\ LastCommitted(history') = k
    BY <1>1, Staged
  <1>9. history'.gens[n + 1].checkpoint = running
    BY <1>5 DEF Generation
  <1>6. LastGood(history)' = LastGood(history)
    BY <1>3, <1>5 DEF LastGood
  <1>7. OnTrial' = Append(OnTrial, running)
    <2> DEFINE T == [j \in 1 .. (n - k) |-> history.gens[k + j].checkpoint]
               U == [j \in 1 .. (n - k + 1) |-> history'.gens[k + j].checkpoint]
    <2>1. OnTrial = T
      BY DEF OnTrial
    <2>2. n - k \in Nat /\ (n + 1) - k = n - k + 1
      BY <1>2, <1>3
    <2>3. OnTrial' = U
      BY <1>5, <2>2, Zenon DEF OnTrial
    <2>4. \A j \in 1 .. (n - k) : k + j \in 1 .. n
      BY <1>2, <1>3
    <2>5. \A i \in 1 .. n : history.gens[i].checkpoint \in State
      BY <1>1, HistoryTyped
    <2>6. T \in Seq(State) /\ Len(T) = n - k
      <3>1. T \in [1 .. (n - k) -> State]
        BY <2>4, <2>5
      <3>2. \A m \in Nat : \A f \in [1 .. m -> State] :
              f \in Seq(State) /\ Len(f) = m
        OBVIOUS
      <3>3. QED
        BY <2>2, <3>1, <3>2
    <2>7. \A j \in 1 .. (n - k) : U[j] = T[j]
      <3>1. \A j \in 1 .. (n - k) : j \in 1 .. (n - k + 1)
        BY <2>2
      <3>2. \A j \in 1 .. (n - k) : history'.gens[k + j] = history.gens[k + j]
        BY <1>5, <2>4
      <3>3. QED
        BY <3>1, <3>2, Zenon
    <2>8. U[n - k + 1] = running
      <3>1. k + (n - k + 1) = n + 1 /\ n - k + 1 \in 1 .. (n - k + 1)
        BY <1>2, <1>3
      <3>2. QED
        BY <1>9, <3>1
    <2>9. U \in Seq(State) /\ Len(U) = n - k + 1
      <3>1. \A j \in 1 .. (n - k + 1) : U[j] \in State
        <4>1. \A j \in 1 .. (n - k) : T[j] \in State
          BY <2>4, <2>5
        <4>2. \A j \in 1 .. (n - k + 1) : j \in 1 .. (n - k) \/ j = n - k + 1
          BY <2>2
        <4>3. QED
          BY <1>1, <2>7, <2>8, <4>1, <4>2
      <3>2. U \in [1 .. (n - k + 1) -> State]
        BY <3>1
      <3>3. n - k + 1 \in Nat
        BY <2>2
      <3>4. QED
        BY <3>2, <3>3
    <2>10. U = Append(T, running)
      <3> HIDE DEF T, U
      <3>1. Append(T, running) \in Seq(State)
            /\ Len(Append(T, running)) = n - k + 1
        BY <1>1, <2>6
      <3>2. \A j \in 1 .. (n - k + 1) : U[j] = Append(T, running)[j]
        BY <1>1, <2>2, <2>6, <2>7, <2>8
      <3>3. QED
        BY <2>9, <3>1, <3>2
    <2>11. QED
      BY <2>1, <2>3, <2>10
  <1>10. QED
    BY <1>4, <1>6, <1>7 DEF Promise!Try

\* A good verdict accepts the newest state on trial.
LEMMA HealthyAccepts == UpdateInv /\ ConcludeHealthy => Promise!Accept
  <1> SUFFICES ASSUME UpdateInv, ConcludeHealthy PROVE Promise!Accept
    OBVIOUS
  <1> DEFINE n == Len(history.gens)
             k == LastCommitted(history)
  <1>1. UpdateTypeOK /\ HasLast(history)
    BY DEF UpdateInv
  <1>2. n \in Nat
    BY <1>1, HistoryTyped
  <1>3. k \in 1 .. n /\ history.gens[k].status = "Committed"
    BY <1>1, HistoryTyped
  <1>4. k < n
    BY <1>2, <1>3 DEF ConcludeHealthy, HasCandidate, Newest
  <1>5. running' = running
    BY DEF ConcludeHealthy
  <1>6. /\ Len(history'.gens) = n
        /\ history'.gens[n].checkpoint = history.gens[n].checkpoint
        /\ LastCommitted(history') = n
    BY <1>1, <1>2, <1>3, Accepted
  <1>7. OnTrial = [j \in 1 .. (n - k) |-> history.gens[k + j].checkpoint]
    BY DEF OnTrial
  <1>8. /\ n - k \in Nat /\ n - k > 0 /\ k + (n - k) = n
        /\ \A j \in 1 .. (n - k) : k + j \in 1 .. n
    <2>1. \A a, b \in Nat : a < b =>
            /\ b - a \in Nat /\ b - a > 0 /\ a + (b - a) = b
            /\ \A j \in 1 .. (b - a) : a >= 1 => a + j \in 1 .. b
      OBVIOUS
    <2>2. k \in Nat /\ n \in Nat /\ k >= 1
      BY <1>2, <1>3
    <2>3. QED
      BY <1>4, <2>1, <2>2
  <1>9. OnTrial[n - k] = history.gens[n].checkpoint
    BY <1>7, <1>8
  <1>10. \A j \in 1 .. (n - k) : history.gens[k + j].checkpoint \in State
    BY <1>1, <1>8, HistoryTyped
  <1>11. OnTrial \in Seq(State) /\ Len(OnTrial) = n - k
    BY <1>7, <1>8, <1>10
  <1>12. LastGood(history)' = OnTrial[Len(OnTrial)]
    BY <1>6, <1>9, <1>11 DEF LastGood
  <1>13. OnTrial' = <<>>
    BY <1>2, <1>6 DEF OnTrial
  <1>14. QED
    BY <1>5, <1>8, <1>11, <1>12, <1>13 DEF Promise!Accept

\* A bad verdict rejects what is on trial.
LEMMA UnhealthyRejects == UpdateInv /\ ConcludeUnhealthy => Promise!Reject
  <1> SUFFICES ASSUME UpdateInv, ConcludeUnhealthy PROVE Promise!Reject
    OBVIOUS
  <1> DEFINE k == LastCommitted(history)
  <1>1. UpdateTypeOK /\ HasLast(history)
    BY DEF UpdateInv
  <1>2. running' = LastGood(history')
    BY DEF ConcludeUnhealthy
  <1>3. /\ k \in 1 .. Len(history.gens)
        /\ Len(history'.gens) = k
        /\ \A i \in 1 .. k : history'.gens[i] = history.gens[i]
        /\ LastCommitted(history') = k
    BY <1>1, HistoryTyped, Rejected
  <1>4. LastGood(history') = LastGood(history)
    BY <1>3 DEF LastGood
  <1>5. OnTrial' = <<>>
    BY <1>3 DEF OnTrial
  <1>6. QED
    BY <1>2, <1>4, <1>5 DEF Promise!Reject

\* Every step of self-update is a step of KnownGood or a stutter.
LEMMA NextPromise == UpdateInv /\ [UpdateNext]_updateVars => [Promise!Next]_(Promise!vars)
  <1> SUFFICES ASSUME UpdateInv, [UpdateNext]_updateVars
               PROVE  [Promise!Next]_(Promise!vars)
    OBVIOUS
  <1>1. CASE UNCHANGED <<running, history>>
    BY <1>1 DEF Promise!vars, OnTrial, LastGood, LastCommitted, Committed
  <1>2. CASE Mutate
    <2>1. running' \in State /\ history' = history
      BY <1>2 DEF Mutate
    <2>2. OnTrial' = OnTrial /\ LastGood(history)' = LastGood(history)
      BY <2>1 DEF OnTrial
    <2>3. QED
      BY <2>1, <2>2 DEF Promise!Next, Promise!Change
  <1>3. QED
    BY <1>1, <1>2, StageTries, HealthyAccepts, UnhealthyRejects
       DEF UpdateNext, Reattach, updateVars, Promise!Next

\* Self-update keeps the promise of KnownGood: a rollback brings back exactly
\* the state last known to be good, and only a good verdict changes that state.
THEOREM SelfUpdateKeepsPromise == UpdateSpec => KeepsPromise
  <1>1. UpdateInit => Promise!Init
    BY InitPromise
  <1>2. UpdateInv /\ [UpdateNext]_updateVars => [Promise!Next]_(Promise!vars)
    BY NextPromise
  <1>3. QED
    BY <1>1, <1>2, Inductive, PTL DEF UpdateSpec, KeepsPromise, Promise!Spec

----------------------------------------------------------------------------
\* Checkpoints and registry records.

\* The checkpoints of an agent that has made k records.
Trails(k) == [audit : SUBSET (1 .. k), spent : 0 .. k]

\* A checkpoint's spend is covered by its trail.
Frugal(c) == c.spent <= Cardinality(c.audit)

Entries(k) == [node : Node, lastGood : Trails(k), misses : Nat]

\* A checkpoint stays within the work done when more is done.
LEMMA TrailsGrow ==
  ASSUME NEW k \in Nat
  PROVE  Trails(k) \subseteq Trails(k + 1)
  BY DEF Trails

\* A trail is a finite set.
LEMMA TrailsFinite ==
  ASSUME NEW k \in Nat, NEW c \in Trails(k)
  PROVE  /\ IsFiniteSet(c.audit) /\ Cardinality(c.audit) \in Nat
         /\ c.spent \in Nat /\ c.audit \subseteq 1 .. k
  <1>1. c.audit \subseteq 1 .. k /\ c.spent \in 0 .. k
    BY DEF Trails
  <1>2. IsFiniteSet(1 .. k)
    BY FS_Interval
  <1>3. IsFiniteSet(c.audit)
    BY <1>1, <1>2, FS_Subset
  <1>4. QED
    BY <1>1, <1>3, FS_CardinalityType

\* Acting adds a record and a token.
LEMMA WorkedTrail ==
  ASSUME NEW k \in Nat, NEW c \in Trails(k)
  PROVE  LET w == [audit |-> c.audit \cup {k + 1}, spent |-> c.spent + 1]
         IN  w \in Trails(k + 1) /\ (Frugal(c) => Frugal(w))
  <1> DEFINE w == [audit |-> c.audit \cup {k + 1}, spent |-> c.spent + 1]
  <1>1. w \in Trails(k + 1)
    BY DEF Trails
  <1>2. k + 1 \notin c.audit
    BY TrailsFinite
  <1>3. Cardinality(w.audit) = Cardinality(c.audit) + 1
    BY <1>2, TrailsFinite, FS_AddElement
  <1>4. Frugal(c) => Frugal(w)
    BY <1>3, TrailsFinite DEF Frugal
  <1>5. QED
    BY <1>1, <1>4

\* Merging two checkpoints invents neither records nor spend.
LEMMA MergedTrail ==
  ASSUME NEW k \in Nat, NEW c \in Trails(k), NEW d \in Trails(k)
  PROVE  /\ Merge(c, d) \in Trails(k)
         /\ Merge(c, d).audit = c.audit \cup d.audit
         /\ Frugal(c) /\ Frugal(d) => Frugal(Merge(c, d))
  <1> DEFINE m == Merge(c, d)
  <1>1. m \in Trails(k)
    BY DEF Merge, Trails
  <1>2. m.audit = c.audit \cup d.audit /\ m.spent \in {c.spent, d.spent}
    BY DEF Merge
  <1>3. /\ IsFiniteSet(m.audit)
        /\ Cardinality(c.audit) <= Cardinality(m.audit)
        /\ Cardinality(d.audit) <= Cardinality(m.audit)
    <2>1. IsFiniteSet(m.audit)
      BY <1>1, TrailsFinite
    <2>2. c.audit \subseteq m.audit /\ d.audit \subseteq m.audit
      BY <1>2
    <2>3. QED
      BY <2>1, <2>2, FS_Subset
  <1>4. /\ Cardinality(c.audit) \in Nat /\ Cardinality(d.audit) \in Nat
        /\ Cardinality(m.audit) \in Nat /\ c.spent \in Nat /\ d.spent \in Nat
    BY <1>1, TrailsFinite
  <1>5. Frugal(c) /\ Frugal(d) => Frugal(m)
    BY <1>2, <1>3, <1>4 DEF Frugal
  <1>6. QED
    BY <1>1, <1>2, <1>5

\* A registry record is what it was made of.
LEMMA EntryFields ==
  ASSUME NEW n, NEW c, NEW misses
  PROVE  /\ Entry(n, c, misses).node = n
         /\ Entry(n, c, misses).lastGood = c
         /\ Entry(n, c, misses).misses = misses
  BY DEF Entry

\* A record made of typed parts is typed.
LEMMA EntryTyped ==
  ASSUME NEW k \in Nat, NEW n \in Node, NEW c \in Trails(k), NEW misses \in Nat
  PROVE  Entry(n, c, misses) \in Entries(k)
  BY DEF Entry, Entries

----------------------------------------------------------------------------
\* Types, and spend.

Slots(k) == [Node -> Trails(k) \cup {None}]

Shape ==
    /\ done \in 0 .. MaxWork
    /\ faults \in 0 .. MaxFaults
    /\ inst \in Slots(done)
    /\ beat \in Slots(done)
    /\ reg \in Entries(done)
    /\ superseded \subseteq Node
    /\ reconciled \subseteq 1 .. done
    /\ outdated \subseteq Node
    /\ late \in BOOLEAN

AllFrugal ==
    /\ \A n \in Node : inst[n] # None => Frugal(inst[n])
    /\ \A n \in Node : beat[n] # None => Frugal(beat[n])
    /\ Frugal(reg.lastGood)

\* The parts of the registry record are typed.
LEMMA RegTyped ==
  ASSUME Shape
  PROVE  /\ done \in Nat
         /\ reg.node \in Node /\ reg.lastGood \in Trails(done) /\ reg.misses \in Nat
  BY SupervisionAssumption DEF Shape, Entries

\* Shape and spend hold at first.
LEMMA InitShape == Init => Shape /\ AllFrugal
  <1> SUFFICES ASSUME Init PROVE Shape /\ AllFrugal
    OBVIOUS
  <1>1. PICK n \in Node :
          /\ inst = [m \in Node |-> IF m = n THEN Fresh ELSE None]
          /\ beat = [m \in Node |-> None]
          /\ reg = Register(n, Fresh)
          /\ done = 0 /\ faults = 0 /\ superseded = {} /\ reconciled = {}
          /\ outdated = {} /\ late = FALSE
    BY DEF Init
  <1>2. Fresh \in Trails(0) /\ Frugal(Fresh)
    BY FS_EmptySet DEF Fresh, Trails, Frugal
  <1>3. reg \in Entries(0) /\ reg.lastGood = Fresh
    BY <1>1, <1>2, EntryTyped, EntryFields DEF Register
  <1>4. inst \in Slots(0) /\ beat \in Slots(0)
    BY <1>1, <1>2 DEF Slots
  <1>5. AllFrugal
    BY <1>1, <1>2, <1>3 DEF AllFrugal
  <1>6. late \in BOOLEAN
    BY <1>1, Zenon
  <1>7. /\ done \in 0 .. MaxWork /\ faults \in 0 .. MaxFaults
        /\ superseded \subseteq Node /\ outdated \subseteq Node
        /\ reconciled \subseteq 1 .. done
    <2>1. done = 0 /\ faults = 0 /\ superseded = {} /\ outdated = {} /\ reconciled = {}
      BY <1>1, Zenon
    <2>2. QED
      BY <2>1, SupervisionAssumption
  <1>8. Shape
    <2>1. inst \in Slots(done) /\ beat \in Slots(done) /\ reg \in Entries(done)
      BY <1>1, <1>3, <1>4, Zenon
    <2>2. QED
      BY <1>6, <1>7, <2>1 DEF Shape
  <1>9. QED
    BY <1>5, <1>8

\* Acting keeps the shape: its record is one that was never made.
LEMMA WorkShape ==
  ASSUME Shape, AllFrugal, NEW n \in Node, Work(n)
  PROVE  Shape' /\ AllFrugal'
  <1> DEFINE w == [audit |-> inst[n].audit \cup {done + 1},
                   spent |-> inst[n].spent + 1]
  <1>1. done \in Nat /\ done' = done + 1 /\ done' \in 0 .. MaxWork
    BY SupervisionAssumption DEF Work, Shape
  <1>2. inst[n] # None /\ inst[n] \in Trails(done)
    BY DEF Work, Hosts, Shape, Slots
  <1>3. w \in Trails(done + 1) /\ Frugal(w)
    BY <1>1, <1>2, WorkedTrail DEF AllFrugal
  <1>4. Trails(done) \subseteq Trails(done + 1)
    BY <1>1, TrailsGrow
  <1>5. inst' = [inst EXCEPT ![n] = w]
        /\ UNCHANGED <<beat, reg, faults, superseded, reconciled, outdated, late>>
    BY DEF Work, ghosts
  <1>6. inst' \in Slots(done + 1) /\ beat' \in Slots(done + 1)
    BY <1>3, <1>4, <1>5 DEF Shape, Slots
  <1>7. reg' \in Entries(done + 1) /\ reconciled' \subseteq 1 .. (done + 1)
    BY <1>1, <1>4, <1>5 DEF Shape, Entries
  <1>8. Shape'
    BY <1>1, <1>5, <1>6, <1>7 DEF Shape
  <1>9. AllFrugal'
    BY <1>3, <1>5 DEF AllFrugal, Shape, Slots
  <1>10. QED
    BY <1>8, <1>9

\* The steps that make no record.
LEMMA OtherShape ==
  ASSUME Shape, AllFrugal,
         \/ \E n \in Node : \/ SendHeartbeat(n) \/ Deliver(n) \/ Lose(n)
                            \/ SelfHeal(n) \/ Reconcile(n) \/ Crash(n)
         \/ Pull \/ Tick \/ UNCHANGED vars
  PROVE  Shape' /\ AllFrugal'
  <1> DEFINE K == done
  <1>1. K \in Nat /\ done' = K
    BY RegTyped DEF SendHeartbeat, Deliver, Lose, SelfHeal, Reconcile, Crash,
                    Pull, Tick, vars, ghosts
  <1>2. faults' \in 0 .. MaxFaults
    BY SupervisionAssumption
       DEF SendHeartbeat, Deliver, Lose, SelfHeal, Reconcile, Crash, Pull, Tick,
           vars, ghosts, Shape
  <1>3. superseded' \subseteq Node /\ outdated' \subseteq Node /\ late' \in BOOLEAN
    BY DEF SendHeartbeat, Deliver, Lose, SelfHeal, Reconcile, Crash, Pull, Tick,
           vars, ghosts, Shape
  <1>4. /\ inst' \in Slots(K)
        /\ \A n \in Node : inst'[n] # None => Frugal(inst'[n])
    <2>1. ASSUME NEW n \in Node, SelfHeal(n)
          PROVE  /\ inst' \in Slots(K)
                 /\ \A m \in Node : inst'[m] # None => Frugal(inst'[m])
      BY <2>1, RegTyped DEF SelfHeal, Shape, Slots, AllFrugal
    <2>2. ASSUME NEW n \in Node, Reconcile(n) \/ Crash(n)
          PROVE  /\ inst' \in Slots(K)
                 /\ \A m \in Node : inst'[m] # None => Frugal(inst'[m])
      BY <2>2 DEF Reconcile, Crash, Shape, Slots, AllFrugal
    <2>3. CASE UNCHANGED inst
      BY <2>3 DEF Shape, AllFrugal
    <2>4. QED
      BY <2>1, <2>2, <2>3 DEF SendHeartbeat, Deliver, Lose, Pull, Tick, vars, ghosts
  <1>5. /\ beat' \in Slots(K)
        /\ \A n \in Node : beat'[n] # None => Frugal(beat'[n])
    <2>1. ASSUME NEW n \in Node, SendHeartbeat(n)
          PROVE  /\ beat' \in Slots(K)
                 /\ \A m \in Node : beat'[m] # None => Frugal(beat'[m])
      <3>1. inst[n] \in Trails(K) /\ Frugal(inst[n])
        BY <2>1 DEF SendHeartbeat, Hosts, Shape, Slots, AllFrugal
      <3>2. QED
        BY <2>1, <3>1 DEF SendHeartbeat, Shape, Slots, AllFrugal
    <2>2. ASSUME NEW n \in Node, Deliver(n) \/ Lose(n)
          PROVE  /\ beat' \in Slots(K)
                 /\ \A m \in Node : beat'[m] # None => Frugal(beat'[m])
      BY <2>2 DEF Deliver, Lose, Shape, Slots, AllFrugal
    <2>3. CASE UNCHANGED beat
      BY <2>3 DEF Shape, AllFrugal
    <2>4. QED
      BY <2>1, <2>2, <2>3 DEF SelfHeal, Reconcile, Crash, Pull, Tick, vars, ghosts
  <1>6. /\ reg' \in Entries(K)
        /\ Frugal(reg'.lastGood)
        /\ reconciled' \subseteq 1 .. K
    <2>1. ASSUME NEW n \in Node, Deliver(n)
          PROVE  reg' \in Entries(K) /\ Frugal(reg'.lastGood)
      <3>1. beat[n] \in Trails(K) /\ Frugal(beat[n])
        BY <2>1 DEF Deliver, Shape, Slots, AllFrugal
      <3>2. reg' = Entry(n, beat[n], 0)
        BY <2>1, EntryFields DEF Deliver, Heartbeat, Observe
      <3>3. QED
        BY <1>1, <3>1, <3>2, EntryTyped, EntryFields
    <2>2. CASE Pull
      <3>1. inst[reg.node] \in Trails(K) /\ Frugal(inst[reg.node])
        BY <2>2, RegTyped DEF Pull, Hosts, Shape, Slots, AllFrugal
      <3>2. reg' = Entry(reg.node, inst[reg.node], reg.misses)
        BY <2>2 DEF Pull, Observe
      <3>3. reg' \in Entries(K) /\ Frugal(reg'.lastGood)
        BY <1>1, <3>1, <3>2, RegTyped, EntryTyped, EntryFields
      <3>4. QED
        BY <2>2, <3>3 DEF Pull, ghosts, Shape
    <2>3. ASSUME Tick \/ \E n \in Node : SelfHeal(n)
          PROVE  reg' \in Entries(K) /\ Frugal(reg'.lastGood)
      <3>1. PICK n \in Node, misses \in Nat :
              reg' = Entry(n, reg.lastGood, misses)
        BY <2>3, RegTyped DEF Tick, Missed, SelfHeal, Healed
      <3>2. QED
        BY <1>1, <3>1, RegTyped, EntryTyped, EntryFields DEF AllFrugal
    <2>4. ASSUME NEW n \in Node, Reconcile(n)
          PROVE  /\ reg' \in Entries(K) /\ Frugal(reg'.lastGood)
                 /\ reconciled' \subseteq 1 .. K
      <3>1. inst[n] \in Trails(K) /\ Frugal(inst[n])
        BY <2>4 DEF Reconcile, Hosts, Shape, Slots, AllFrugal
      <3>2. reg' = Entry(reg.node, Merge(reg.lastGood, inst[n]), reg.misses)
        BY <2>4 DEF Reconcile, Reconciled
      <3>3. /\ Merge(reg.lastGood, inst[n]) \in Trails(K)
            /\ Frugal(Merge(reg.lastGood, inst[n]))
        BY <1>1, <3>1, RegTyped, MergedTrail DEF AllFrugal
      <3>4. reg' \in Entries(K) /\ Frugal(reg'.lastGood)
        BY <1>1, <3>2, <3>3, RegTyped, EntryTyped, EntryFields
      <3>5. reconciled' \subseteq 1 .. K
        BY <1>1, <2>4, <3>1, TrailsFinite DEF Reconcile, Shape
      <3>6. QED
        BY <3>4, <3>5
    <2>5. CASE UNCHANGED <<reg, reconciled>>
      BY <2>5 DEF Shape, AllFrugal
    <2>6. (\E n \in Node : Deliver(n) \/ SelfHeal(n)) \/ Tick => reconciled' \subseteq 1 .. K
      BY DEF Deliver, SelfHeal, Tick, ghosts, Shape
    <2>7. QED
      BY <2>1, <2>2, <2>3, <2>4, <2>5, <2>6
         DEF SendHeartbeat, Lose, Crash, vars, ghosts
  <1>7. QED
    BY <1>1, <1>2, <1>3, <1>4, <1>5, <1>6 DEF Shape, AllFrugal

\* Types and spend hold throughout.
LEMMA ShapeInvariant == Spec => [](Shape /\ AllFrugal)
  <1>1. Shape /\ AllFrugal /\ [Next]_vars => Shape' /\ AllFrugal'
    BY WorkShape, OtherShape DEF Next
  <1>2. QED
    BY <1>1, InitShape, PTL DEF Spec

\* Types: in particular no checkpoint holds a record that was never made.
THEOREM SupervisionTypes == Spec => []TypeOK
  <1>1. Shape => TypeOK
    <2> SUFFICES ASSUME Shape PROVE TypeOK
      OBVIOUS
    <2>1. done \in Nat /\ done <= MaxWork /\ MaxWork \in Nat
      BY SupervisionAssumption DEF Shape
    <2>2. Trails(done) \subseteq Checkpoints
      BY <2>1 DEF Trails, Checkpoints, Records
    <2>3. reconciled \subseteq Records
      BY <2>1 DEF Shape, Records
    <2>4. reg \in [node : Node, lastGood : Checkpoints, misses : Nat]
      BY <2>2 DEF Shape, Entries
    <2>5. QED
      BY <2>2, <2>3, <2>4 DEF Shape, Slots, TypeOK
  <1>2. QED
    BY <1>1, ShapeInvariant, PTL

\* The merge charges no expense twice, whatever is split, healed, reconciled
\* and delivered late: no checkpoint has spent more than its trail shows.
THEOREM SpendIsCovered == Spec => []SpendNeverInvented
  <1>1. AllFrugal => SpendNeverInvented
    BY DEF AllFrugal, SpendNeverInvented, Held, Frugal
  <1>2. QED
    BY <1>1, ShapeInvariant, PTL

----------------------------------------------------------------------------
\* The fence, between a heal and the next heartbeat of an instance left behind.

\* A heartbeat on its way that is not of an instance left behind comes from the
\* authority, which knows all it tells.
BeatIsCurrent ==
    \A n \in Node : beat[n] # None /\ n \notin outdated =>
        /\ reg.node = n
        /\ Hosts(n) => beat[n].audit \subseteq inst[n].audit

\* Only a heartbeat on its way is outdated.
OutdatedIsSent == \A n \in outdated : beat[n] # None

Guarded == ~late => BeatIsCurrent /\ OutdatedIsSent /\ RegistryIsFence /\ AuthorityKnowsLastGood

\* The guarded invariant holds at first.
LEMMA InitGuarded == Init => Guarded
  BY EntryFields
     DEF Init, Guarded, BeatIsCurrent, OutdatedIsSent, RegistryIsFence,
         AuthorityKnowsLastGood, Hosts, Register, Fresh

\* Every step keeps it; after an outdated heartbeat there is nothing to keep until
\* the next heal, which establishes it whatever came before.
LEMMA GuardedStep ==
  ASSUME Shape, Guarded, [Next]_vars
  PROVE  Guarded'
  <1> SUFFICES ASSUME ~late' PROVE Guarded'
    BY DEF Guarded
  <1>1. /\ inst \in Slots(done) /\ beat \in Slots(done)
        /\ reg.node \in Node /\ reg.lastGood \in Trails(done)
        /\ outdated \subseteq Node
    BY RegTyped DEF Shape
  <1> DEFINE Kept == /\ BeatIsCurrent' /\ OutdatedIsSent' /\ RegistryIsFence'
                     /\ AuthorityKnowsLastGood'
  <1> SUFFICES Kept
    BY DEF Guarded
  <1> USE DEF RegistryIsFence, AuthorityKnowsLastGood, Hosts
  <1>2. ASSUME NEW n \in Node, SelfHeal(n) PROVE Kept
    <2>1. /\ outdated' = {m \in Node : beat[m] # None} /\ beat' = beat
          /\ n \notin superseded'
      BY <1>2 DEF SelfHeal
    <2>2. reg'.node = n /\ reg'.lastGood = reg.lastGood
      BY <1>2, EntryFields DEF SelfHeal, Healed
    <2>3. inst'[n] = reg.lastGood
      BY <1>1, <1>2 DEF SelfHeal, Slots
    <2>4. QED
      BY <2>1, <2>2, <2>3 DEF BeatIsCurrent, OutdatedIsSent
  <1> SUFFICES ASSUME \A n \in Node : ~SelfHeal(n) PROVE Kept
    BY <1>2
  <1>3. ~late
    BY DEF Next, Work, SendHeartbeat, Deliver, Lose, Reconcile, Crash,
           Pull, Tick, vars, ghosts
  <1>4. BeatIsCurrent /\ OutdatedIsSent /\ RegistryIsFence
        /\ (Hosts(reg.node) =>
              reg.lastGood.audit \subseteq inst[reg.node].audit \cup reconciled)
    BY <1>3 DEF Guarded
  <1>5. ASSUME NEW n \in Node, Work(n) PROVE Kept
    <2>1. /\ inst[n].audit \subseteq inst'[n].audit
          /\ \A m \in Node \ {n} : inst'[m] = inst[m]
          /\ inst[n] # None
          /\ UNCHANGED <<beat, reg, superseded, reconciled, outdated>>
      BY <1>1, <1>5 DEF Work, Slots, ghosts
    <2>2. BeatIsCurrent'
      BY <1>1, <1>4, <2>1 DEF BeatIsCurrent
    <2>3. AuthorityKnowsLastGood'
      BY <1>1, <1>4, <2>1
    <2>4. QED
      BY <1>4, <2>1, <2>2, <2>3 DEF OutdatedIsSent
  <1>6. ASSUME NEW n \in Node, SendHeartbeat(n) PROVE Kept
    <2>1. /\ beat' = [beat EXCEPT ![n] = inst[n]] /\ inst[n] # None
          /\ UNCHANGED <<inst, reg, superseded, reconciled>>
          /\ outdated' = IF reg.node = n THEN outdated ELSE outdated \cup {n}
      BY <1>6 DEF SendHeartbeat
    <2>2. BeatIsCurrent' /\ OutdatedIsSent'
      BY <1>1, <1>4, <2>1 DEF BeatIsCurrent, OutdatedIsSent, Slots
    <2>3. QED
      BY <1>4, <2>1, <2>2
  <1>7. ASSUME NEW n \in Node, Deliver(n) PROVE Kept
    <2>1. beat[n] # None /\ n \notin outdated /\ outdated' = outdated
      BY <1>7 DEF Deliver
    <2>2. reg.node = n /\ (inst[n] # None => beat[n].audit \subseteq inst[n].audit)
      BY <1>4, <2>1 DEF BeatIsCurrent
    <2>3. reg' = Entry(n, beat[n], 0)
      BY <1>7, EntryFields DEF Deliver, Heartbeat, Observe
    <2>4. reg'.node = n /\ reg'.lastGood = beat[n]
      BY <2>3, EntryFields
    <2>5. /\ \A m \in Node : beat'[m] # None => beat'[m] = beat[m]
          /\ \A m \in Node \ {n} : beat'[m] = beat[m]
          /\ UNCHANGED <<inst, superseded, reconciled>>
      BY <1>1, <1>7 DEF Deliver, Slots
    <2>6. BeatIsCurrent' /\ OutdatedIsSent'
      BY <1>1, <1>4, <2>1, <2>2, <2>4, <2>5 DEF BeatIsCurrent, OutdatedIsSent
    <2>7. QED
      BY <1>4, <2>2, <2>4, <2>5, <2>6
  <1>8. ASSUME NEW n \in Node, Lose(n) PROVE Kept
    <2>1. /\ beat' = [beat EXCEPT ![n] = None] /\ outdated' = outdated \ {n}
          /\ UNCHANGED <<inst, reg, superseded, reconciled>>
      BY <1>8 DEF Lose
    <2>2. BeatIsCurrent' /\ OutdatedIsSent'
      BY <1>1, <1>4, <2>1 DEF BeatIsCurrent, OutdatedIsSent, Slots
    <2>3. QED
      BY <1>4, <2>1, <2>2
  <1>9. ASSUME NEW n \in Node, Reconcile(n) PROVE Kept
    <2>1. reg'.node = reg.node
          /\ reg'.lastGood.audit = reg.lastGood.audit \cup inst[n].audit
      BY <1>9, EntryFields DEF Reconcile, Reconciled, Merge
    <2>2. /\ reg.node # n
          /\ reconciled' = reconciled \cup inst[n].audit
          /\ superseded' \subseteq superseded
          /\ UNCHANGED <<beat, outdated>>
      BY <1>9 DEF Reconcile
    <2>3. inst'[reg.node] = inst[reg.node]
      BY <1>1, <1>9 DEF Reconcile, Slots
    <2>4. BeatIsCurrent'
      BY <1>4, <2>1, <2>2, <2>3 DEF BeatIsCurrent
    <2>5. AuthorityKnowsLastGood'
      BY <1>4, <2>1, <2>2, <2>3
    <2>6. QED
      BY <1>4, <2>1, <2>2, <2>4, <2>5 DEF OutdatedIsSent
  <1>10. ASSUME NEW n \in Node, Crash(n) PROVE Kept
    <2>1. /\ \A m \in Node : inst'[m] # None => inst'[m] = inst[m]
          /\ superseded' \subseteq superseded
          /\ UNCHANGED <<beat, reg, reconciled, outdated>>
      BY <1>1, <1>10 DEF Crash, Slots
    <2>2. BeatIsCurrent' /\ OutdatedIsSent'
      BY <1>4, <2>1 DEF BeatIsCurrent, OutdatedIsSent
    <2>3. QED
      BY <1>1, <1>4, <2>1, <2>2
  <1>11. CASE Pull
    <2>1. reg'.node = reg.node /\ reg'.lastGood = inst[reg.node]
      BY <1>11, EntryFields DEF Pull, Observe
    <2>2. UNCHANGED <<inst, beat, superseded, reconciled, outdated>>
      BY <1>11 DEF Pull, ghosts
    <2>3. QED
      BY <1>4, <2>1, <2>2 DEF BeatIsCurrent, OutdatedIsSent
  <1>12. CASE Tick
    <2>1. reg'.node = reg.node /\ reg'.lastGood = reg.lastGood
      BY <1>12, EntryFields DEF Tick, Missed
    <2>2. UNCHANGED <<inst, beat, superseded, reconciled, outdated>>
      BY <1>12 DEF Tick, ghosts
    <2>3. QED
      BY <1>4, <2>1, <2>2 DEF BeatIsCurrent, OutdatedIsSent
  <1>13. CASE UNCHANGED vars
    BY <1>4, <1>13 DEF vars, ghosts, BeatIsCurrent, OutdatedIsSent
  <1>14. QED
    BY <1>5, <1>6, <1>7, <1>8, <1>9, <1>10, <1>11, <1>12, <1>13 DEF Next

\* The guarded invariant holds throughout.
LEMMA GuardedInvariant == Spec => []Guarded
  <1>1. Shape /\ Guarded /\ [Next]_vars => Guarded'
    BY GuardedStep
  <1>2. QED
    BY <1>1, InitGuarded, ShapeInvariant, PTL DEF Spec

\* self_heal's fence, under the condition it needs: until a heartbeat of an instance
\* left behind is processed, sent before the heal or after it, no such instance
\* becomes the authority again; and from the next heal on this holds anew.
THEOREM FenceHolds == Spec => []Fence
  <1>1. Guarded => Fence
    BY DEF Guarded, Fence
  <1>2. QED
    BY <1>1, GuardedInvariant, PTL

\* Under that condition a heal gives the agent nothing its authority did not know,
\* but for what was reconciled.
THEOREM HealsOnlyRewind == Spec => []AuthorityKnowsLastGood
  <1>1. Guarded => AuthorityKnowsLastGood
    BY DEF Guarded, AuthorityKnowsLastGood
  <1>2. QED
    BY <1>1, GuardedInvariant, PTL

=============================================================================
