---------------------------- MODULE AgentProofs ----------------------------
(***************************************************************************)
(* Proofs about one agent, for every size of budget, every set of tools,   *)
(* tokens and costs, and every bound of the model: the types, the accounts *)
(* and what bounds an overdraft, what a restore brings back, and that the  *)
(* trail adds up to the bill.  And about the merge of its checkpoints, for *)
(* any two or three of its states: which laws of a join it has always, and *)
(* exactly when it has the others.                                         *)
(***************************************************************************)
EXTENDS Agent, CheckpointMerge, WellFoundedInduction, TLAPS

----------------------------------------------------------------------------
\* What the budget operations return.

\* Saturating arithmetic stays within a u64.
LEMMA SaturateToken == \A n \in Int : Saturate(n) \in Tokens
  BY MaxTokensAssumption DEF Saturate, Tokens

\* A charge that is affordable adds the cost and stays within the grant.
LEMMA ChargeBudget ==
  ASSUME NEW b \in AttentionBudgets, NEW cost \in Tokens, CanCharge(b, cost)
  PROVE  /\ Charge(b, cost) \in AttentionBudgets
         /\ Charge(b, cost).spent = b.spent + cost
         /\ Charge(b, cost).total = b.total
         /\ cost > 0 => Charge(b, cost).spent <= b.total
  BY MaxTokensAssumption
  DEF AttentionBudgets, Tokens, CanCharge, Charge, Remaining, Saturate

\* A refill only ever raises the grant.
LEMMA GrantBudgetGrows ==
  ASSUME NEW b \in AttentionBudgets, NEW n \in Tokens
  PROVE  /\ Grant(b, n) \in AttentionBudgets
         /\ Grant(b, n).spent = b.spent
         /\ b.total <= Grant(b, n).total
  BY MaxTokensAssumption DEF AttentionBudgets, Tokens, Grant, Saturate

\* Settlement leaves the grant alone and, unless it saturates, replaces the
\* reservation by the actual cost exactly; saturated or not, it never bills
\* more than that.
LEMMA SettleBudget ==
  ASSUME NEW b \in AttentionBudgets,
         NEW reserved \in Tokens, NEW actual \in Tokens
  PROVE  /\ Settle(b, reserved, actual) \in AttentionBudgets
         /\ Settle(b, reserved, actual).total = b.total
         /\ b.spent + actual - reserved \in Tokens
              => Settle(b, reserved, actual).spent = b.spent + actual - reserved
         /\ \/ Settle(b, reserved, actual).spent = 0
            \/ Settle(b, reserved, actual).spent <= b.spent + actual - reserved
  BY MaxTokensAssumption DEF AttentionBudgets, Tokens, Settle, Saturate

----------------------------------------------------------------------------
\* The inductive invariant.

\* A suspended call inside a run is the loop's own think step or one of the
\* tool calls still pending.
FrameInLoop ==
    /\ frame.kind = "loop" => loop.active
    /\ frame.kind = "act" /\ loop.active => loop.pending > 0

\* The checkpoint's accounts balance, as the agent's do.
SavedAccounted ==
    ~saved.clipped => saved.budget.spent = saved.billed + saved.leaked

Positive == 0 \notin Costs \cup {ThinkReserve, ToolCost}

Overdraw(b) == b.spent <= b.total \/ b.spent < b.total + MaxActual

\* While a call is suspended its reservation is within the budget: the balance
\* is not overdrawn before the settlement.
ReservationWithinBudget ==
    Positive => /\ frame.kind # "none" => /\ budget.spent <= budget.total
                                          /\ frame.reserved > 0
                /\ Overdraw(saved.budget)

IInv == /\ TypeOK
        /\ FrameInLoop
        /\ SpendAccounted
        /\ SavedAccounted
        /\ OverdrawBounded
        /\ ReservationWithinBudget
        /\ CheckpointIsPast

\* The invariant holds of a newly spawned agent.
LEMMA InitIInv == Init => IInv
  <1> SUFFICES ASSUME Init PROVE IInv
    OBVIOUS
  <1>1. budget \in AttentionBudgets /\ budget.spent = 0 /\ budget.total \in Tokens
    BY AgentAssumption, MaxTokensAssumption
    DEF Init, NewBudget, AttentionBudgets, Tokens
  <1>2. ThinkCall \in Calls /\ 0 \in Tokens
    BY MaxTokensAssumption DEF ThinkCall, Calls, Tokens
  <1>3. saved = [phase |-> "Born", budget |-> budget, caps |-> {}, audit |-> <<>>,
                 billed |-> 0, leaked |-> 0, clipped |-> FALSE]
    BY DEF Init, Checkpoint
  <1>4. TypeOK
    <2>1. frame = NoFrame /\ frame \in [kind : {"none", "act", "loop"},
                                       call : Calls, reserved : Tokens]
      BY <1>2 DEF Init, NoFrame
    <2>2. loop \in [active : BOOLEAN, iters : Nat, pending : Nat]
      BY DEF Init, NoLoop
    <2>3. audit \in Seq(AuditRecords)
      BY DEF Init
    <2>4. saved \in [phase : {"Born", "Live"}, budget : AttentionBudgets,
                     caps : SUBSET Cap, audit : Seq(AuditRecords),
                     billed : Nat, leaked : Nat, clipped : BOOLEAN]
      BY <1>1, <1>3
    <2>5. QED
      BY <1>1, <2>1, <2>2, <2>3, <2>4 DEF Init, TypeOK
  <1>5. QED
    BY <1>1, <1>3, <1>4, AgentAssumption
    DEF Init, IInv, FrameInLoop, SpendAccounted, SavedAccounted,
        OverdrawBounded, ReservationWithinBudget, CheckpointIsPast, NoFrame,
        NoLoop, Overdraw, Tokens

----------------------------------------------------------------------------
\* Steps that move neither budget nor trail nor checkpoint nor their history.

\* Such a step keeps the invariant.
LEMMA QuietStep ==
  ASSUME IInv,
         UNCHANGED <<budget, audit, saved, billed, leaked, clipped>>,
         phase' \in {"Born", "Live"}, caps' \in SUBSET Cap,
         tools' \in SUBSET Tool, verifier' \in BOOLEAN,
         authentic' \in SUBSET Cap,
         frame' = frame,
         loop' \in [active : BOOLEAN, iters : Nat, pending : Nat],
         FrameInLoop'
  PROVE  IInv'
  <1>1. TypeOK'
    BY DEF IInv, TypeOK, NoFrame
  <1>2. SpendAccounted' /\ SavedAccounted' /\ CheckpointIsPast'
    BY DEF IInv, SpendAccounted, SavedAccounted, CheckpointIsPast
  <1>3. OverdrawBounded' /\ ReservationWithinBudget'
    BY DEF IInv, OverdrawBounded, ReservationWithinBudget, Overdraw, Positive
  <1>4. QED
    BY <1>1, <1>2, <1>3 DEF IInv

----------------------------------------------------------------------------
\* Steps that append a record to the trail.

\* The trail grows at its end, so the checkpoint stays a prefix of it.
LEMMA RecordingStep ==
  ASSUME IInv, NEW op \in Ops, NEW cost \in Tokens, NEW ok \in BOOLEAN,
         Recording(op, cost, ok), saved' = saved, budget' \in AttentionBudgets,
         budget'.total = budget.total
  PROVE  /\ audit' \in Seq(AuditRecords)
         /\ billed' = billed + cost
         /\ leaked' = leaked
         /\ CheckpointIsPast'
  <1>1. Record(op, cost, ok) \in AuditRecords
    BY DEF Record, AuditRecords
  <1>2. /\ audit \in Seq(AuditRecords) /\ saved.audit \in Seq(AuditRecords)
        /\ CheckpointIsPast
    BY DEF IInv, TypeOK
  <1>3. /\ audit' = Append(audit, Record(op, cost, ok))
        /\ billed' = billed + cost /\ leaked' = leaked
    BY DEF Recording
  <1>4. audit' \in Seq(AuditRecords) /\ Len(audit') = Len(audit) + 1
        /\ \A i \in 1 .. Len(audit) : audit'[i] = audit[i]
    BY <1>1, <1>2, <1>3
  <1>5. CheckpointIsPast'
    BY <1>2, <1>4 DEF CheckpointIsPast
  <1>6. QED
    BY <1>3, <1>4, <1>5

\* A call that was charged settles: b is the budget with the reservation in it.
LEMMA SettlingStep ==
  ASSUME IInv, NEW b \in AttentionBudgets, NEW reserved \in Tokens,
         NEW actual \in Tokens, NEW op \in Ops, NEW ok \in BOOLEAN,
         b.total = budget.total,
         ~clipped => b.spent - reserved = billed + leaked,
         Positive => b.spent <= b.total /\ reserved > 0,
         actual <= MaxActual \/ actual <= reserved,
         Settling(b, reserved, actual), Recording(op, actual, ok),
         frame' = NoFrame,
         loop' \in [active : BOOLEAN, iters : Nat, pending : Nat],
         UNCHANGED <<phase, caps, tools, verifier, authentic, saved>>
  PROVE  IInv'
  <1>1. /\ budget' \in AttentionBudgets /\ budget'.total = budget.total
        /\ b.spent + actual - reserved \in Tokens
             => budget'.spent = b.spent + actual - reserved
        /\ budget'.spent = 0 \/ budget'.spent <= b.spent + actual - reserved
        /\ clipped' = (clipped \/ b.spent + actual - reserved \notin Tokens)
    BY SettleBudget DEF Settling
  <1>2. /\ audit' \in Seq(AuditRecords) /\ billed' = billed + actual
        /\ leaked' = leaked /\ CheckpointIsPast'
    BY <1>1, RecordingStep
  <1>3. /\ b.spent \in Int /\ b.total \in Nat /\ reserved \in Int /\ actual \in Nat
        /\ budget.spent \in Int /\ budget.total \in Int /\ budget'.spent \in Nat
        /\ MaxActual \in Nat /\ billed \in Nat /\ leaked \in Nat
    BY <1>1, AgentAssumption DEF AttentionBudgets, Tokens, IInv, TypeOK
  <1>4. NoFrame \in [kind : {"none", "act", "loop"}, call : Calls,
                     reserved : Tokens]
        /\ NoFrame.kind = "none" /\ NoFrame.reserved = 0
    BY MaxTokensAssumption DEF NoFrame, ThinkCall, Calls, Tokens
  <1>5. clipped' \in BOOLEAN
    BY <1>1 DEF IInv, TypeOK
  <1>6. TypeOK'
    <2>1. /\ frame' \in [kind : {"none", "act", "loop"}, call : Calls,
                         reserved : Tokens]
          /\ frame' = NoFrame
      BY <1>4
    <2>2. phase' \in {"Born", "Live"} /\ caps' \subseteq Cap
          /\ tools' \subseteq Tool /\ verifier' \in BOOLEAN
          /\ authentic' \subseteq Cap
          /\ leaked' \in Nat
      BY <1>2 DEF IInv, TypeOK
    <2>3. saved' \in [phase : {"Born", "Live"}, budget : AttentionBudgets,
                      caps : SUBSET Cap, audit : Seq(AuditRecords),
                      billed : Nat, leaked : Nat, clipped : BOOLEAN]
      BY DEF IInv, TypeOK
    <2>4. billed' \in Nat
      BY <1>2, <1>3
    <2>5. QED
      BY <1>1, <1>2, <1>5, <2>1, <2>2, <2>3, <2>4 DEF TypeOK
  <1>7. SpendAccounted'
    <2> SUFFICES ASSUME ~clipped'
                 PROVE  budget'.spent = billed' + leaked' + frame'.reserved
      BY Zenon DEF SpendAccounted
    <2>1. ~clipped /\ b.spent + actual - reserved \in Tokens
      <3>1. clipped' = (clipped \/ b.spent + actual - reserved \notin Tokens)
        BY <1>1
      <3>2. QED
        BY <3>1, Zenon
    <2>2. b.spent - reserved = billed + leaked
      BY <2>1
    <2>3. budget'.spent = b.spent + actual - reserved
      BY <1>1, <2>1
    <2>4. frame'.reserved = 0
      BY <1>4
    <2>5. billed' = billed + actual /\ leaked' = leaked
      BY <1>2
    <2>6. b.spent = billed + leaked + reserved
      BY <1>3, <2>2
    <2>7. QED
      BY <1>3, <2>3, <2>4, <2>5, <2>6
  <1>8. SavedAccounted' /\ FrameInLoop'
    BY <1>4 DEF IInv, SavedAccounted, FrameInLoop
  <1>9. OverdrawBounded'
    <2> SUFFICES ASSUME Positive PROVE Overdraw(budget')
      BY DEF OverdrawBounded, Positive, Overdraw
    <2> QED
      BY <1>1, <1>3 DEF Overdraw
  <1>10. ReservationWithinBudget'
    BY <1>4 DEF IInv, ReservationWithinBudget, Positive, Overdraw
  <1>11. QED
    BY <1>2, <1>6, <1>7, <1>8, <1>9, <1>10 DEF IInv

\* A call is admitted and suspends with its reservation charged.
LEMMA ChargingStep ==
  ASSUME IInv, frame = NoFrame, NEW cost \in Tokens, CanCharge(budget, cost),
         cost \in Costs \cup {ThinkReserve, ToolCost},
         NEW kind \in {"act", "loop"}, NEW call \in Calls,
         budget' = Charge(budget, cost),
         frame' = [kind |-> kind, call |-> call, reserved |-> cost],
         loop' \in [active : BOOLEAN, iters : Nat, pending : Nat],
         FrameInLoop',
         UNCHANGED <<phase, caps, audit, tools, verifier, authentic, saved,
                     billed, leaked, clipped>>
  PROVE  IInv'
  <1>1. /\ budget' \in AttentionBudgets /\ budget'.total = budget.total
        /\ budget'.spent = budget.spent + cost
        /\ cost > 0 => budget'.spent <= budget'.total
    BY ChargeBudget DEF IInv, TypeOK
  <1>2. /\ frame' \in [kind : {"none", "act", "loop"}, call : Calls,
                       reserved : Tokens]
        /\ frame'.reserved = cost /\ frame'.kind # "none"
    OBVIOUS
  <1>3. TypeOK'
    BY <1>1, <1>2 DEF IInv, TypeOK
  <1>4. frame.reserved = 0
    BY DEF NoFrame
  <1>5. SpendAccounted'
    <2> SUFFICES ASSUME ~clipped'
                 PROVE  budget'.spent = billed' + leaked' + frame'.reserved
      BY Zenon DEF SpendAccounted
    <2>1. budget.spent = billed + leaked + 0
      BY <1>4 DEF IInv, SpendAccounted
    <2>2. billed \in Nat /\ leaked \in Nat /\ cost \in Nat
      BY DEF IInv, TypeOK, Tokens
    <2>3. QED
      BY <1>1, <1>2, <2>1, <2>2
  <1>6. SavedAccounted' /\ CheckpointIsPast'
    BY <1>1 DEF IInv, SavedAccounted, CheckpointIsPast
  <1>7. Positive => cost > 0
    BY DEF Positive, Tokens
  <1>8. OverdrawBounded'
    BY <1>1, <1>7 DEF OverdrawBounded, Positive
  <1>9. ReservationWithinBudget'
    BY <1>1, <1>2, <1>7
    DEF IInv, ReservationWithinBudget, Positive, Overdraw
  <1>10. QED
    BY <1>3, <1>5, <1>6, <1>8, <1>9 DEF IInv

\* Every call has an operation an audit record can name.
LEMMA CallsTyped == \A c \in Calls : c.op \in Ops
  BY DEF Calls, Ops

\* A refused call is recorded at no cost and the budget is untouched.
LEMMA RefusedStep ==
  ASSUME IInv, NEW call \in Calls, NEW cost, ActRefused(call, cost)
  PROVE  IInv'
  <1>0. call.op \in Ops /\ 0 \in Tokens /\ saved' = saved /\ budget' = budget
    BY MaxTokensAssumption, CallsTyped DEF ActRefused, Tokens
  <1>r. Recording(call.op, 0, FALSE)
    BY Zenon DEF ActRefused
  <1>1. /\ call.op \in Ops /\ 0 \in Tokens
        /\ Recording(call.op, 0, FALSE) /\ saved' = saved /\ budget' = budget
    BY <1>0, <1>r, Zenon
  <1>2. /\ audit' \in Seq(AuditRecords) /\ billed' = billed + 0
        /\ leaked' = leaked /\ CheckpointIsPast'
    BY <1>1, RecordingStep DEF IInv, TypeOK
  <1>3. billed' = billed
    BY <1>2 DEF IInv, TypeOK
  <1>4. frame = NoFrame /\ frame' = frame
    BY DEF ActRefused, Issued, Idle
  <1>5. loop' \in [active : BOOLEAN, iters : Nat, pending : Nat]
    BY DEF ActRefused, Issued, Returning, IInv, TypeOK
  <1>6. /\ phase' = phase /\ caps' = caps /\ tools' = tools
        /\ verifier' = verifier /\ authentic' = authentic /\ clipped' = clipped
    BY DEF ActRefused
  <1>7. TypeOK'
    BY <1>1, <1>2, <1>3, <1>4, <1>5, <1>6 DEF IInv, TypeOK, NoFrame
  <1>8. SpendAccounted' /\ SavedAccounted'
    BY <1>1, <1>2, <1>3, <1>4, <1>6 DEF IInv, SpendAccounted, SavedAccounted
  <1>9. OverdrawBounded' /\ ReservationWithinBudget'
    BY <1>1, <1>4 DEF IInv, OverdrawBounded, ReservationWithinBudget, Overdraw,
                      Positive
  <1>10. FrameInLoop'
    BY <1>4 DEF FrameInLoop, NoFrame
  <1>11. QED
    BY <1>2, <1>7, <1>8, <1>9, <1>10 DEF IInv

\* The loop's bookkeeping keeps its type when a call returns.
LEMMA ReturningTyped ==
  ASSUME TypeOK, Returning, loop.active => loop.pending > 0
  PROVE  loop' \in [active : BOOLEAN, iters : Nat, pending : Nat]
  BY DEF TypeOK, Returning

\* While a call is suspended, its budget and reservation satisfy what
\* SettlingStep asks of b and reserved.
LEMMA SuspendedReady ==
  ASSUME IInv, frame.kind # "none"
  PROVE  /\ budget \in AttentionBudgets /\ frame.reserved \in Tokens
         /\ ~clipped => budget.spent - frame.reserved = billed + leaked
         /\ Positive => budget.spent <= budget.total /\ frame.reserved > 0
  <1>1. /\ budget \in AttentionBudgets /\ frame.reserved \in Tokens
        /\ budget.spent \in Nat /\ frame.reserved \in Nat
        /\ billed \in Nat /\ leaked \in Nat
    BY DEF IInv, TypeOK, AttentionBudgets, Tokens
  <1>2. ~clipped => budget.spent - frame.reserved = billed + leaked
    BY <1>1 DEF IInv, SpendAccounted
  <1>3. QED
    BY <1>1, <1>2 DEF IInv, ReservationWithinBudget

\* A call that does not suspend is charged and settled in one step.
LEMMA ActAtOnceStep ==
  ASSUME IInv, NEW call \in Calls, NEW cost \in Costs \cup {ToolCost},
         ActAtOnce(call, cost)
  PROVE  IInv'
  <1>1. PICK ok \in BOOLEAN :
          /\ Settling(Charge(budget, cost), cost, IF ok THEN cost ELSE 0)
          /\ Recording(call.op, IF ok THEN cost ELSE 0, ok)
    BY Zenon DEF ActAtOnce
  <1> DEFINE b == Charge(budget, cost)
             actual == IF ok THEN cost ELSE 0
  <1>2. cost \in Tokens /\ call.op \in Ops /\ CanCharge(budget, cost)
    BY CallsTyped, AgentAssumption DEF ActAtOnce, Admitted
  <1>3. frame = NoFrame /\ loop.active => loop.pending > 0
    BY DEF ActAtOnce, Admitted, Issued
  <1>4. /\ b \in AttentionBudgets /\ b.total = budget.total
        /\ b.spent = budget.spent + cost
        /\ cost > 0 => b.spent <= b.total
    BY <1>2, ChargeBudget DEF IInv, TypeOK
  <1>5. actual \in Tokens /\ actual <= cost
    BY <1>2, MaxTokensAssumption DEF Tokens
  <1>6. ~clipped => b.spent - cost = billed + leaked
    <2>1. ~clipped => budget.spent = billed + leaked + 0
      BY DEF IInv, SpendAccounted, ActAtOnce, Admitted, Issued, Idle, NoFrame
    <2>2. /\ budget.spent \in Nat /\ cost \in Nat
          /\ billed \in Nat /\ leaked \in Nat
      BY <1>2 DEF IInv, TypeOK, AttentionBudgets, Tokens
    <2>3. QED
      BY <1>4, <2>1, <2>2
  <1>7. Positive => b.spent <= b.total /\ cost > 0
    BY <1>2, <1>4 DEF Positive, Tokens
  <1>8. frame' = NoFrame
        /\ UNCHANGED <<phase, caps, tools, verifier, authentic, saved>>
    BY DEF ActAtOnce, Admitted, Issued, Idle
  <1>9. loop' \in [active : BOOLEAN, iters : Nat, pending : Nat]
    <2>1. TypeOK /\ Returning /\ (loop.active => loop.pending > 0)
      BY DEF IInv, ActAtOnce, Admitted, Issued
    <2>2. QED
      BY <2>1, ReturningTyped
  <1>10. Settling(b, cost, actual) /\ Recording(call.op, actual, ok)
    BY <1>1
  <1> HIDE DEF b, actual
  <1>11. QED
    BY <1>2, <1>4, <1>5, <1>6, <1>7, <1>8, <1>9, <1>10, SettlingStep

\* The answer to a suspended call settles it.
LEMMA ActResumeStep ==
  ASSUME IInv, NEW actual \in 0 .. MaxActual, NEW ok \in BOOLEAN,
         ActResume(actual, ok)
  PROVE  IInv'
  <1>1. frame.kind # "none" /\ actual \in Tokens /\ actual <= MaxActual
    BY AgentAssumption, MaxTokensAssumption DEF ActResume, Tokens
  <1>2. frame.call.op \in Ops
    BY CallsTyped DEF IInv, TypeOK
  <1>3. TypeOK /\ Returning /\ (loop.active => loop.pending > 0)
    BY DEF IInv, FrameInLoop, ActResume
  <1>4. loop' \in [active : BOOLEAN, iters : Nat, pending : Nat]
    BY <1>3, ReturningTyped
  <1>5. Settling(budget, frame.reserved, actual)
        /\ Recording(frame.call.op, actual, ok)
    BY Zenon DEF ActResume
  <1>6. frame' = NoFrame
        /\ UNCHANGED <<phase, caps, tools, verifier, authentic, saved>>
    BY DEF ActResume
  <1>7. QED
    BY <1>1, <1>2, <1>4, <1>5, <1>6, SuspendedReady, SettlingStep

\* The answer to a think of the loop, good or bad, settles it.
LEMMA RunAnswerStep ==
  ASSUME IInv, NEW tokens \in 0 .. MaxActual, NEW ok \in BOOLEAN,
         frame.kind = "loop",
         Settling(budget, frame.reserved, tokens),
         Recording("Think", tokens, ok),
         frame' = NoFrame,
         loop' \in [active : BOOLEAN, iters : Nat, pending : Nat],
         UNCHANGED <<phase, caps, tools, verifier, authentic, saved>>
  PROVE  IInv'
  <1>1. frame.kind # "none" /\ tokens \in Tokens /\ tokens <= MaxActual
        /\ "Think" \in Ops
    BY AgentAssumption, MaxTokensAssumption DEF Tokens, Ops
  <1>2. QED
    BY <1>1, SuspendedReady, SettlingStep

----------------------------------------------------------------------------
\* The remaining steps: refill, cancellation, checkpoint, restore.

\* A refill raises the grant and leaves the spend.
LEMMA GrantStep ==
  ASSUME IInv, NEW n \in GrantSizes, GrantBudget(n)
  PROVE  IInv'
  <1>1. n \in Tokens /\ budget \in AttentionBudgets
    BY AgentAssumption DEF IInv, TypeOK
  <1>2. /\ budget' \in AttentionBudgets /\ budget'.spent = budget.spent
        /\ budget.total <= budget'.total
    BY <1>1, GrantBudgetGrows DEF GrantBudget
  <1>3. /\ budget.total \in Nat /\ budget.spent \in Nat /\ budget'.total \in Nat
        /\ saved.budget.total \in Nat /\ MaxActual \in Nat
    BY <1>1, <1>2, AgentAssumption DEF AttentionBudgets, Tokens, IInv, TypeOK
  <1>4. /\ frame = NoFrame /\ frame' = frame /\ phase' = phase /\ caps' = caps
        /\ audit' = audit /\ tools' = tools /\ verifier' = verifier
        /\ authentic' = authentic /\ loop' = loop /\ saved' = saved
        /\ billed' = billed /\ leaked' = leaked /\ clipped' = clipped
    BY DEF GrantBudget, Unoccupied, Idle, ghosts
  <1>5. TypeOK'
    BY <1>2, <1>4 DEF IInv, TypeOK, NoFrame
  <1>6. FrameInLoop' /\ SpendAccounted' /\ SavedAccounted'
    BY <1>2, <1>4 DEF IInv, FrameInLoop, SpendAccounted, SavedAccounted
  <1>7. OverdrawBounded'
    BY <1>2, <1>3 DEF IInv, OverdrawBounded
  <1>8. ReservationWithinBudget'
    BY <1>2, <1>4 DEF IInv, ReservationWithinBudget, NoFrame, Positive, Overdraw
  <1>9. CheckpointIsPast'
    BY <1>2, <1>3, <1>4 DEF IInv, CheckpointIsPast
  <1>10. QED
    BY <1>5, <1>6, <1>7, <1>8, <1>9 DEF IInv

\* The reservation of the dropped call moves from the frame to leaked.
LEMMA CancelStep ==
  ASSUME IInv, Cancel
  PROVE  IInv'
  <1>1. /\ frame' = NoFrame /\ loop' = NoLoop /\ leaked' = leaked + frame.reserved
        /\ phase' = phase /\ budget' = budget /\ caps' = caps /\ audit' = audit
        /\ tools' = tools /\ verifier' = verifier /\ authentic' = authentic
        /\ saved' = saved /\ billed' = billed /\ clipped' = clipped
    BY DEF Cancel, portable
  <1>2. /\ NoFrame \in [kind : {"none", "act", "loop"}, call : Calls,
                        reserved : Tokens]
        /\ NoFrame.kind = "none" /\ NoFrame.reserved = 0
        /\ NoLoop \in [active : BOOLEAN, iters : Nat, pending : Nat]
    BY MaxTokensAssumption DEF NoFrame, NoLoop, ThinkCall, Calls, Tokens
  <1>3. frame.reserved \in Nat /\ leaked \in Nat /\ billed \in Nat
    BY DEF IInv, TypeOK, Tokens
  <1>4. TypeOK'
    BY <1>1, <1>2, <1>3 DEF IInv, TypeOK
  <1>5. SpendAccounted'
    BY <1>1, <1>2, <1>3 DEF IInv, SpendAccounted
  <1>6. FrameInLoop' /\ SavedAccounted' /\ CheckpointIsPast'
    BY <1>1, <1>2 DEF IInv, FrameInLoop, SavedAccounted, CheckpointIsPast
  <1>7. OverdrawBounded' /\ ReservationWithinBudget'
    BY <1>1, <1>2
    DEF IInv, OverdrawBounded, ReservationWithinBudget, Overdraw, Positive
  <1>8. QED
    BY <1>4, <1>5, <1>6, <1>7 DEF IInv

\* A checkpoint saves accounts that balance.
LEMMA CheckpointStep ==
  ASSUME IInv, TakeCheckpoint
  PROVE  IInv'
  <1>1. /\ saved' = Checkpoint /\ frame = NoFrame /\ frame' = frame
        /\ loop' = loop /\ phase' = phase /\ budget' = budget /\ caps' = caps
        /\ audit' = audit /\ tools' = tools /\ verifier' = verifier
        /\ authentic' = authentic /\ billed' = billed /\ leaked' = leaked
        /\ clipped' = clipped
    BY DEF TakeCheckpoint, Unoccupied, Idle, portable, ghosts
  <1>2. /\ saved' = [phase |-> phase, budget |-> budget, caps |-> caps,
                     audit |-> audit, billed |-> billed, leaked |-> leaked,
                     clipped |-> clipped]
        /\ frame.reserved = 0 /\ frame.kind = "none"
    BY <1>1 DEF Checkpoint, NoFrame
  <1>3. saved' \in [phase : {"Born", "Live"}, budget : AttentionBudgets,
                    caps : SUBSET Cap, audit : Seq(AuditRecords),
                    billed : Nat, leaked : Nat, clipped : BOOLEAN]
    BY <1>2 DEF IInv, TypeOK
  <1>4. TypeOK'
    BY <1>1, <1>3 DEF IInv, TypeOK, NoFrame
  <1>5. FrameInLoop' /\ SpendAccounted'
    BY <1>1 DEF IInv, FrameInLoop, SpendAccounted
  <1>6. SavedAccounted'
    <2>1. billed \in Nat /\ leaked \in Nat
      BY DEF IInv, TypeOK
    <2>2. ~clipped => budget.spent = billed + leaked + 0
      BY <1>2 DEF IInv, SpendAccounted
    <2>3. QED
      BY <1>2, <2>1, <2>2 DEF SavedAccounted
  <1>7. CheckpointIsPast'
    BY <1>1, <1>2 DEF IInv, TypeOK, CheckpointIsPast, AttentionBudgets, Tokens
  <1>8. OverdrawBounded' /\ ReservationWithinBudget'
    BY <1>1, <1>2
    DEF IInv, OverdrawBounded, ReservationWithinBudget, Overdraw, Positive
  <1>9. QED
    BY <1>4, <1>5, <1>6, <1>7, <1>8 DEF IInv

\* A restore brings back accounts that balance.
LEMMA RestoreStep ==
  ASSUME IInv, CrashRestore
  PROVE  IInv'
  <1>1. /\ frame' = NoFrame /\ loop' = NoLoop /\ saved' = saved
        /\ phase' = saved.phase /\ budget' = saved.budget
        /\ caps' = saved.caps /\ audit' = saved.audit
        /\ tools' = {} /\ verifier' = FALSE /\ authentic' = authentic
        /\ billed' = saved.billed /\ leaked' = saved.leaked
        /\ clipped' = saved.clipped
    BY DEF CrashRestore
  <1>2. /\ NoFrame \in [kind : {"none", "act", "loop"}, call : Calls,
                        reserved : Tokens]
        /\ NoFrame.kind = "none" /\ NoFrame.reserved = 0
        /\ NoLoop \in [active : BOOLEAN, iters : Nat, pending : Nat]
    BY MaxTokensAssumption DEF NoFrame, NoLoop, ThinkCall, Calls, Tokens
  <1>3. TypeOK'
    BY <1>1, <1>2 DEF IInv, TypeOK
  <1>4. SpendAccounted' /\ SavedAccounted'
    <2>1. saved.billed \in Nat /\ saved.leaked \in Nat
      BY DEF IInv, TypeOK
    <2>2. QED
      BY <1>1, <1>2, <2>1 DEF IInv, SpendAccounted, SavedAccounted
  <1>5. FrameInLoop'
    BY <1>1, <1>2 DEF FrameInLoop
  <1>6. CheckpointIsPast'
    BY <1>1 DEF IInv, TypeOK, CheckpointIsPast, AttentionBudgets, Tokens
  <1>7. OverdrawBounded' /\ ReservationWithinBudget'
    BY <1>1, <1>2
    DEF IInv, OverdrawBounded, ReservationWithinBudget, Overdraw, Positive
  <1>8. QED
    BY <1>3, <1>4, <1>5, <1>6, <1>7 DEF IInv

----------------------------------------------------------------------------
\* One step per action.

\* Every step keeps the invariant.
LEMMA NextIInv == IInv /\ [Next]_vars => IInv'
  <1> SUFFICES ASSUME IInv, [Next]_vars PROVE IInv'
    OBVIOUS
  <1> USE DEF portable, ghosts, Unoccupied, Idle
  <1>0. TypeOK /\ FrameInLoop
    BY DEF IInv
  <1>1. ASSUME NEW c \in Cap, GrantCap(c) PROVE IInv'
    BY <1>0, <1>1, QuietStep DEF GrantCap, TypeOK, FrameInLoop
  <1>2. ASSUME NEW t \in Tool, WithTool(t) PROVE IInv'
    BY <1>0, <1>2, QuietStep DEF WithTool, TypeOK, FrameInLoop
  <1>3. ASSUME WithVerifier PROVE IInv'
    BY <1>0, <1>3, QuietStep DEF WithVerifier, TypeOK, FrameInLoop
  <1>4. ASSUME NEW n \in GrantSizes, GrantBudget(n) PROVE IInv'
    BY <1>4, GrantStep
  <1>5. ASSUME Start PROVE IInv'
    BY <1>0, <1>5, QuietStep DEF Start, TypeOK, FrameInLoop
  <1>6. ASSUME TakeCheckpoint PROVE IInv'
    BY <1>6, CheckpointStep
  <1>7. ASSUME NEW i \in 0 .. MaxIters, RunBegin(i) PROVE IInv'
    <2>1. loop' \in [active : BOOLEAN, iters : Nat, pending : Nat]
      BY <1>7, AgentAssumption DEF RunBegin
    <2>2. frame.kind = "none" /\ frame' = frame
      BY <1>7 DEF RunBegin, NoFrame
    <2>3. FrameInLoop'
      BY <2>2 DEF FrameInLoop
    <2>4. QED
      BY <1>0, <1>7, <2>1, <2>2, <2>3, QuietStep DEF RunBegin, TypeOK
  <1>8. ASSUME NEW call \in Calls, NEW cost \in Costs \cup {ToolCost},
               Act(call, cost)
        PROVE  IInv'
    <2>1. CASE ActRefused(call, cost)
      BY <2>1, RefusedStep
    <2>2. CASE ActAtOnce(call, cost)
      BY <2>2, ActAtOnceStep
    <2>3. CASE ActSuspend(call, cost)
      <3>1. cost \in Tokens
        BY AgentAssumption
      <3>2. /\ frame = NoFrame /\ CanCharge(budget, cost)
            /\ budget' = Charge(budget, cost)
            /\ frame' = [kind |-> "act", call |-> call, reserved |-> cost]
            /\ loop' = loop /\ loop.active => loop.pending > 0
        BY <2>3 DEF ActSuspend, Admitted, Issued
      <3>3. UNCHANGED <<phase, caps, audit, tools, verifier, authentic, saved,
                        billed, leaked, clipped>>
        BY <2>3 DEF ActSuspend
      <3>4. FrameInLoop'
        BY <3>2, <2>3 DEF FrameInLoop, ActSuspend, Admitted, Issued
      <3>5. loop' \in [active : BOOLEAN, iters : Nat, pending : Nat]
        BY <1>0, <2>3 DEF TypeOK, ActSuspend
      <3>6. QED
        BY <3>1, <3>2, <3>3, <3>4, <3>5, ChargingStep
    <2>4. QED
      BY <1>8, <2>1, <2>2, <2>3 DEF Act
  <1>9. ASSUME RunStarved PROVE IInv'
    <2>1. loop' \in [active : BOOLEAN, iters : Nat, pending : Nat]
      BY <1>9 DEF RunStarved, NoLoop
    <2>2. frame.kind = "none" /\ frame' = frame
      BY <1>9 DEF RunStarved, LoopThinks, NoFrame
    <2>3. FrameInLoop'
      BY <2>2 DEF FrameInLoop
    <2>4. QED
      BY <1>0, <1>9, <2>1, <2>2, <2>3, QuietStep DEF RunStarved, TypeOK
  <1>10. ASSUME RunSuspend PROVE IInv'
    <2>1. /\ ThinkReserve \in Tokens /\ ThinkCall \in Calls
          /\ ThinkReserve \in Costs \cup {ThinkReserve, ToolCost}
      BY AgentAssumption DEF ThinkCall, Calls
    <2>2. /\ frame = NoFrame /\ CanCharge(budget, ThinkReserve)
          /\ budget' = Charge(budget, ThinkReserve)
          /\ frame' = [kind |-> "loop", call |-> ThinkCall,
                       reserved |-> ThinkReserve]
      BY <1>10 DEF RunSuspend, LoopThinks
    <2>3. UNCHANGED <<phase, caps, audit, tools, verifier, authentic, saved,
                      billed, leaked, clipped>>
      BY <1>10 DEF RunSuspend
    <2>4. loop' \in [active : BOOLEAN, iters : Nat, pending : Nat]
          /\ loop'.active
      BY <1>0, <1>10, SMTT(30) DEF RunSuspend, LoopThinks, TypeOK
    <2>5. FrameInLoop'
      BY <2>2, <2>4 DEF FrameInLoop
    <2>6. QED
      BY <2>1, <2>2, <2>3, <2>4, <2>5, ChargingStep
  <1>11. ASSUME RunExhausted PROVE IInv'
    <2>1. loop' \in [active : BOOLEAN, iters : Nat, pending : Nat]
      BY <1>11 DEF RunExhausted, NoLoop
    <2>2. frame.kind = "none" /\ frame' = frame
      BY <1>11 DEF RunExhausted, NoFrame
    <2>3. FrameInLoop'
      BY <2>2 DEF FrameInLoop
    <2>4. QED
      BY <1>0, <1>11, <2>1, <2>2, <2>3, QuietStep DEF RunExhausted, TypeOK
  <1>12. ASSUME NEW actual \in 0 .. MaxActual, NEW ok \in BOOLEAN,
                ActResume(actual, ok)
         PROVE  IInv'
    BY <1>12, ActResumeStep
  <1>13. ASSUME NEW tokens \in 0 .. MaxActual, NEW n \in 0 .. MaxToolCalls,
                RunResume(tokens, n)
         PROVE  IInv'
    <2>1. loop' \in [active : BOOLEAN, iters : Nat, pending : Nat]
      BY <1>0, <1>13, AgentAssumption, SMTT(30) DEF RunResume, NoLoop, TypeOK
    <2>2. /\ frame.kind = "loop" /\ frame' = NoFrame
          /\ UNCHANGED <<phase, caps, tools, verifier, authentic, saved>>
      BY <1>13 DEF RunResume
    <2>3. Settling(budget, frame.reserved, tokens)
          /\ Recording("Think", tokens, TRUE)
      BY <1>13, Zenon DEF RunResume
    <2>4. QED
      BY <2>1, <2>2, <2>3, RunAnswerStep
  <1>14. ASSUME RunThinkFails PROVE IInv'
    <2>1. loop' \in [active : BOOLEAN, iters : Nat, pending : Nat]
      BY <1>14 DEF RunThinkFails, NoLoop
    <2>2. /\ frame.kind = "loop" /\ frame' = NoFrame /\ 0 \in 0 .. MaxActual
          /\ UNCHANGED <<phase, caps, tools, verifier, authentic, saved>>
      BY <1>14, AgentAssumption, MaxTokensAssumption DEF RunThinkFails, Tokens
    <2>3. Settling(budget, frame.reserved, 0) /\ Recording("Think", 0, FALSE)
      BY <1>14, Zenon DEF RunThinkFails
    <2>4. QED
      BY <2>1, <2>2, <2>3, RunAnswerStep
  <1>15. ASSUME NEW c \in Cap, Expire(c) PROVE IInv'
    BY <1>0, <1>15, QuietStep DEF Expire, TypeOK, FrameInLoop
  <1>16. ASSUME Cancel PROVE IInv'
    BY <1>16, CancelStep
  <1>17. ASSUME CrashRestore PROVE IInv'
    BY <1>17, RestoreStep
  <1>18. CASE UNCHANGED vars
    BY <1>0, <1>18, QuietStep DEF vars, TypeOK, FrameInLoop
  <1>19. QED
    BY <1>1, <1>2, <1>3, <1>4, <1>5, <1>6, <1>7, <1>8, <1>9, <1>10, <1>11,
       <1>12, <1>13, <1>14, <1>15, <1>16, <1>17, <1>18
    DEF Next, Owner, Calling, LoopStep, Answer, Environment

----------------------------------------------------------------------------
\* The invariant of every behaviour, from which the theorems follow.
LEMMA Inductive == Spec => []IInv
  BY InitIInv, NextIInv, PTL DEF Spec

\* Type correctness of the agent (runtime/src/agent.rs).
THEOREM AgentTypes == Spec => []TypeOK
  <1>1. IInv => TypeOK
    BY DEF IInv
  <1>2. QED
    BY <1>1, Inductive, PTL

\* INV-1, accounting: act, run, cancellation, refill, checkpoint and restore
\* keep the budget explained by the trail and the outstanding reservations.
THEOREM AccountsBalance == Spec => []SpendAccounted
  <1>1. IInv => SpendAccounted
    BY DEF IInv
  <1>2. QED
    BY <1>1, Inductive, PTL

\* INV-1, limit: with positive declared costs an agent overdraws by less than
\* one answer of a backend, for every budget and every backend.
THEOREM OverdrawIsBounded == Spec => []OverdrawBounded
  <1>1. IInv => OverdrawBounded
    BY DEF IInv
  <1>2. QED
    BY <1>1, Inductive, PTL

\* A restore only rewinds: the checkpoint's trail is a prefix of the trail.
THEOREM RestoreRewinds == Spec => []CheckpointIsPast
  <1>1. IInv => CheckpointIsPast
    BY DEF IInv
  <1>2. QED
    BY <1>1, Inductive, PTL

----------------------------------------------------------------------------
\* What a reader of the trail adds up.

\* A set of naturals has a least element: the form in which induction is used.
LEMMA LeastElement ==
  ASSUME NEW T \in SUBSET Nat, T # {}
  PROVE  \E x \in T : \A y \in T : ~ (y < x)
  <1> DEFINE R == {p \in Nat \X Nat : p[1] < p[2]}
  <1>1. IsWellFoundedOn(R, Nat)
    BY NatLessThanWellFounded DEF OpToRel
  <1> HIDE DEF R
  <1>2. PICK x \in T : \A y \in T : ~(<<y, x>> \in R)
    BY <1>1, WFMin, Zenon
  <1> USE DEF R
  <1>3. \A y \in T : y < x => <<y, x>> \in R
    OBVIOUS
  <1>4. QED
    BY <1>2, <1>3

\* sum[n] is what the first n records of a trail cost.
AddsUp(sum, trail) ==
    /\ sum \in [0 .. Len(trail) -> Nat]
    /\ \A n \in 0 .. Len(trail) :
         sum[n] = IF n = 0 THEN 0 ELSE sum[n - 1] + trail[n].cost

Explains(trail, bill) == \E sum : AddsUp(sum, trail) /\ sum[Len(trail)] = bill

\* There is one such sum, and it ends in the bill: two that differ would differ
\* for the first time at some record.
LEMMA BillIsTheSum ==
  ASSUME NEW trail \in Seq(AuditRecords), NEW bill, Explains(trail, bill)
  PROVE  bill = Bill(trail)
  <1> DEFINE L == Len(trail)
             Is(f) == f = [n \in 0 .. L |->
                             IF n = 0 THEN 0 ELSE f[n - 1] + trail[n].cost]
             g == CHOOSE f : Is(f)
  <1>0. L \in Nat
    OBVIOUS
  <1>1. PICK sum : AddsUp(sum, trail) /\ sum[L] = bill
    BY DEF Explains
  <1>2. Is(sum)
    BY <1>0, <1>1 DEF AddsUp
  <1>3. Is(g)
    BY <1>2, Zenon
  <1>4. Bill(trail) = g[L]
    BY DEF Bill
  <1> HIDE DEF g
  <1>5. ASSUME g[L] # sum[L] PROVE FALSE
    <2> DEFINE T == {n \in 0 .. L : g[n] # sum[n]}
    <2>1. T \in SUBSET Nat /\ T # {}
      BY <1>0, <1>5
    <2> HIDE DEF Is
    <2>2. PICK n \in T : \A m \in T : ~ (m < n)
      BY <2>1, LeastElement
    <2> USE DEF Is
    <2>3. n # 0
      BY <1>0, <1>2, <1>3
    <2>4. n - 1 \in 0 .. L /\ n - 1 < n /\ n \in 0 .. L
      BY <1>0, <2>3
    <2>5. g[n - 1] = sum[n - 1]
      BY <2>2, <2>4
    <2>6. g[n] = sum[n]
      BY <1>2, <1>3, <2>3, <2>4, <2>5
    <2>7. QED
      BY <2>6
  <1>6. QED
    BY <1>1, <1>4, <1>5

\* An empty trail explains nothing.
LEMMA NothingExplained == Explains(<<>>, 0)
  <1> DEFINE sum == [n \in 0 .. 0 |-> 0]
  <1>1. AddsUp(sum, <<>>) /\ sum[Len(<<>>)] = 0
    BY DEF AddsUp
  <1>2. QED
    BY <1>1 DEF Explains

\* One record more explains its cost more.
LEMMA OneMoreExplained ==
  ASSUME NEW trail \in Seq(AuditRecords), NEW bill, Explains(trail, bill),
         NEW r \in AuditRecords
  PROVE  Explains(Append(trail, r), bill + r.cost)
  <1> DEFINE L == Len(trail)
             more == Append(trail, r)
  <1>1. PICK sum : AddsUp(sum, trail) /\ sum[L] = bill
    BY DEF Explains
  <1>2. /\ L \in Nat /\ Len(more) = L + 1 /\ more[L + 1] = r
        /\ \A n \in 1 .. L : more[n] = trail[n]
    OBVIOUS
  <1>3. bill \in Nat /\ r.cost \in Nat
    BY <1>1, <1>2 DEF AddsUp, AuditRecords, Tokens
  <1> DEFINE longer == [n \in 0 .. L + 1 |-> IF n = L + 1 THEN bill + r.cost ELSE sum[n]]
  <1> HIDE DEF more
  <1>4. longer \in [0 .. L + 1 -> Nat]
    BY <1>1, <1>2, <1>3 DEF AddsUp
  <1>5. ASSUME NEW n \in 0 .. L + 1
        PROVE  longer[n] = IF n = 0 THEN 0 ELSE longer[n - 1] + more[n].cost
    <2>1. CASE n = L + 1
      BY <1>1, <1>2, <2>1
    <2>2. CASE n # L + 1
      BY <1>1, <1>2, <2>2, SMTT(30) DEF AddsUp
    <2>3. QED
      BY <2>1, <2>2
  <1>6. longer[L + 1] = bill + r.cost
    BY <1>2
  <1>7. AddsUp(longer, more)
    BY <1>2, <1>4, <1>5 DEF AddsUp
  <1>8. QED
    BY <1>2, <1>6, <1>7 DEF Explains, more

\* The trail and the checkpoint's explain what was billed.
BillsExplained == Explains(audit, billed) /\ Explains(saved.audit, saved.billed)

\* What a step does to trail, bill and checkpoint.
LEMMA TrailSteps ==
  ASSUME IInv, [Next]_vars
  PROVE  \/ UNCHANGED <<audit, billed, saved>>
         \/ UNCHANGED <<audit, billed>> /\ saved'.audit = audit
                                        /\ saved'.billed = billed
         \/ saved' = saved /\ audit' = saved.audit /\ billed' = saved.billed
         \/ /\ saved' = saved
            /\ \E op \in Ops, cost \in Tokens, ok \in BOOLEAN : Recording(op, cost, ok)
  <1> DEFINE Quiet == UNCHANGED <<audit, billed, saved>>
             Records == /\ saved' = saved
                        /\ \E op \in Ops, cost \in Tokens, ok \in BOOLEAN :
                             Recording(op, cost, ok)
  <1>0. 0 \in Tokens /\ "Think" \in Ops /\ 0 .. MaxActual \subseteq Tokens
    BY MaxTokensAssumption, AgentAssumption DEF Tokens, Ops
  <1>1. CASE Owner
    <2>1. CASE TakeCheckpoint
      BY <2>1 DEF TakeCheckpoint, Checkpoint, portable, ghosts
    <2>2. QED
      BY <1>1, <2>1 DEF Owner, GrantCap, WithTool, WithVerifier, GrantBudget, Start,
                        RunBegin, portable, ghosts
  <1>2. CASE Calling
    <2>1. PICK call \in Calls, cost \in Costs \cup {ToolCost} : Act(call, cost)
      BY <1>2 DEF Calling
    <2>2. call.op \in Ops /\ cost \in Tokens
      BY CallsTyped, AgentAssumption
    <2>3. CASE ActRefused(call, cost)
      <3>1. Recording(call.op, 0, FALSE) /\ saved' = saved
        BY <2>3, Zenon DEF ActRefused
      <3>2. QED
        BY <1>0, <2>2, <3>1, Zenon
    <2>4. CASE ActAtOnce(call, cost)
      <3>1. PICK ok \in BOOLEAN : Recording(call.op, IF ok THEN cost ELSE 0, ok)
        BY <2>4, Zenon DEF ActAtOnce
      <3>2. saved' = saved
        BY <2>4, Zenon DEF ActAtOnce
      <3>3. (IF ok THEN cost ELSE 0) \in Tokens
        BY <1>0, <2>2
      <3>4. QED
        BY <2>2, <3>1, <3>2, <3>3, Zenon
    <2>5. CASE ActSuspend(call, cost)
      BY <2>5 DEF ActSuspend, ghosts
    <2>6. QED
      BY <2>1, <2>3, <2>4, <2>5, Zenon DEF Act
  <1>3. CASE LoopStep
    BY <1>3 DEF LoopStep, RunStarved, RunSuspend, RunExhausted, portable, ghosts
  <1>4. CASE Answer
    <2>1. ASSUME NEW actual \in 0 .. MaxActual, NEW ok \in BOOLEAN,
                 ActResume(actual, ok)
          PROVE  Records
      <3>1. frame.call.op \in Ops
        BY CallsTyped DEF IInv, TypeOK
      <3>2. Recording(frame.call.op, actual, ok) /\ saved' = saved
        BY <2>1, Zenon DEF ActResume
      <3>3. actual \in Tokens
        BY <1>0
      <3>4. QED
        BY <3>1, <3>2, <3>3, Zenon
    <2>2. ASSUME NEW tokens \in 0 .. MaxActual, NEW n \in 0 .. MaxToolCalls,
                 RunResume(tokens, n)
          PROVE  Records
      <3>1. Recording("Think", tokens, TRUE) /\ saved' = saved
        BY <2>2, Zenon DEF RunResume
      <3>2. tokens \in Tokens /\ TRUE \in BOOLEAN
        BY <1>0
      <3>3. QED
        BY <1>0, <3>1, <3>2, Zenon
    <2>3. ASSUME RunThinkFails PROVE Records
      <3>1. Recording("Think", 0, FALSE) /\ saved' = saved
        BY <2>3, Zenon DEF RunThinkFails
      <3>2. QED
        BY <1>0, <3>1, Zenon
    <2>4. QED
      BY <1>4, <2>1, <2>2, <2>3, Zenon DEF Answer
  <1>5. CASE Environment
    BY <1>5 DEF Environment, Expire, Cancel, CrashRestore, portable, ghosts
  <1>6. CASE UNCHANGED vars
    BY <1>6 DEF vars, portable, ghosts
  <1>7. QED
    BY <1>1, <1>2, <1>3, <1>4, <1>5, <1>6 DEF Next

\* Every step keeps the bills explained.
LEMMA NextBills == IInv /\ BillsExplained /\ [Next]_vars => BillsExplained'
  <1> SUFFICES ASSUME IInv, BillsExplained, [Next]_vars PROVE BillsExplained'
    OBVIOUS
  <1>1. ASSUME NEW op \in Ops, NEW cost \in Tokens, NEW ok \in BOOLEAN,
               Recording(op, cost, ok), saved' = saved
        PROVE  BillsExplained'
    <2> DEFINE r == Record(op, cost, ok)
    <2>1. r \in AuditRecords /\ r.cost = cost
      BY DEF Record, AuditRecords
    <2>2. audit' = Append(audit, r) /\ billed' = billed + r.cost
      BY <1>1, <2>1 DEF Recording
    <2>3. audit \in Seq(AuditRecords) /\ Explains(audit, billed)
      BY DEF IInv, TypeOK, BillsExplained
    <2> HIDE DEF r
    <2>4. Explains(audit', billed')
      BY <2>1, <2>2, <2>3, OneMoreExplained
    <2>5. QED
      BY <1>1, <2>4 DEF BillsExplained
  <1>2. QED
    BY <1>1, TrailSteps DEF BillsExplained

\* INV-4: across refusals, answers, crashes and restores the records of the trail
\* add up to what was billed, for trails of any length.
THEOREM TrailAddsUp == Spec => []AuditExplainsBill
  <1>1. Init => BillsExplained
    <2> SUFFICES ASSUME Init PROVE BillsExplained
      OBVIOUS
    <2>1. audit = <<>> /\ billed = 0 /\ saved.audit = <<>> /\ saved.billed = 0
      BY DEF Init, Checkpoint
    <2>2. QED
      BY <2>1, NothingExplained DEF BillsExplained
  <1>2. IInv /\ BillsExplained => AuditExplainsBill
    BY BillIsTheSum DEF IInv, TypeOK, BillsExplained, AuditExplainsBill
  <1>3. QED
    BY <1>1, <1>2, NextBills, Inductive, PTL DEF Spec

\* INV-1 and INV-4 together: until a settlement saturates, what the agent has
\* spent is what a reader of its trail adds up, and what is or stayed reserved.
THEOREM TrailExplainsSpend ==
  Spec => [](~clipped => budget.spent = Bill(audit) + leaked + frame.reserved)
  <1>1. SpendAccounted /\ AuditExplainsBill
        => (~clipped => budget.spent = Bill(audit) + leaked + frame.reserved)
    BY DEF SpendAccounted, AuditExplainsBill
  <1>2. QED
    BY <1>1, AccountsBalance, TrailAddsUp, PTL

----------------------------------------------------------------------------
\* The merge of two checkpoints.

\* The parts of a state.
LEMMA StateFields ==
  ASSUME NEW a \in AgentStates
  PROVE  /\ a.budget \in AttentionBudgets /\ a.caps \in SUBSET Jtis
         /\ a.phase \in Phases /\ a.trail \in Trails
  BY DEF AgentStates

\* Each phase has a rank of its own.
LEMMA PhasesRanked ==
  /\ \A p \in Phases : PhaseRank[p] \in Nat
  /\ \A p, q \in Phases : PhaseRank[p] = PhaseRank[q] => p = q
  BY DEF Phases, PhaseRank

\* The larger of two spends, with the first one's total.
LEMMA JoinSpentLaws ==
  ASSUME NEW b \in AttentionBudgets, NEW c \in AttentionBudgets,
         NEW d \in AttentionBudgets
  PROVE  /\ JoinSpent(b, c) \in AttentionBudgets
         /\ JoinSpent(b, c).total = b.total
         /\ JoinSpent(b, b) = b
         /\ JoinSpent(JoinSpent(b, c), c) = JoinSpent(b, c)
         /\ JoinSpent(JoinSpent(b, c), d) = JoinSpent(b, JoinSpent(c, d))
         /\ JoinSpent(JoinSpent(b, c), d) = JoinSpent(JoinSpent(b, d), c)
         /\ JoinSpent(b, c) = JoinSpent(c, b) <=> b.total = c.total
         /\ JoinSpent(b, c).spent \in {b.spent, c.spent}
         /\ JoinSpent(b, c).spent >= b.spent /\ JoinSpent(b, c).spent >= c.spent
  BY MaxTokensAssumption DEF JoinSpent, AttentionBudgets, Tokens

\* The later of two phases.
LEMMA JoinPhaseLaws ==
  ASSUME NEW p \in Phases, NEW q \in Phases, NEW r \in Phases
  PROVE  /\ JoinPhase(p, q) \in Phases
         /\ JoinPhase(p, p) = p
         /\ JoinPhase(JoinPhase(p, q), q) = JoinPhase(p, q)
         /\ JoinPhase(JoinPhase(p, q), r) = JoinPhase(p, JoinPhase(q, r))
         /\ JoinPhase(p, q) = JoinPhase(q, p)
         /\ PhaseRank[JoinPhase(p, q)] >= PhaseRank[p]
         /\ PhaseRank[JoinPhase(p, q)] >= PhaseRank[q]
  <1> DEFINE x == PhaseRank[p]
             y == PhaseRank[q]
             z == PhaseRank[r]
  <1>1. x \in Nat /\ y \in Nat /\ z \in Nat
    BY PhasesRanked
  <1>2. (x = y => p = q) /\ (y = z => q = r) /\ (x = z => p = r)
    BY PhasesRanked
  <1>3. /\ JoinPhase(p, q) = IF x >= y THEN p ELSE q
        /\ JoinPhase(q, p) = IF y >= x THEN q ELSE p
        /\ JoinPhase(q, r) = IF y >= z THEN q ELSE r
        /\ JoinPhase(p, r) = IF x >= z THEN p ELSE r
        /\ JoinPhase(p, p) = p
        /\ JoinPhase(q, q) = q
    BY DEF JoinPhase
  <1> HIDE DEF x, y, z
  <1>4. JoinPhase(p, q) = JoinPhase(q, p)
    BY <1>1, <1>2, <1>3
  <1>5. CASE x >= y
    <2>1. JoinPhase(p, q) = p
      BY <1>3, <1>5
    <2>2. JoinPhase(JoinPhase(p, q), r) = JoinPhase(p, JoinPhase(q, r))
      BY <1>1, <1>2, <1>3, <1>5, <2>1
    <2>3. PhaseRank[p] >= PhaseRank[p] /\ PhaseRank[p] >= PhaseRank[q]
      BY <1>1, <1>5 DEF x, y
    <2>4. QED
      BY <1>3, <1>4, <2>1, <2>2, <2>3
  <1>6. CASE ~(x >= y)
    <2>1. JoinPhase(p, q) = q
      BY <1>3, <1>6
    <2>2. JoinPhase(JoinPhase(p, q), r) = JoinPhase(p, JoinPhase(q, r))
      BY <1>1, <1>2, <1>3, <1>6, <2>1
    <2>3. PhaseRank[q] >= PhaseRank[p] /\ PhaseRank[q] >= PhaseRank[q]
      BY <1>1, <1>6 DEF x, y
    <2>4. QED
      BY <1>3, <1>4, <2>1, <2>2, <2>3
  <1>7. QED
    BY <1>5, <1>6

\* Which keys a trail has records of, and when two trails agree.
LEMMA TrailKeys ==
  /\ \A t : \A k \in Keys : k \in Recorded(t) <=> t[k] # << >>
  /\ \A t, u : Agreeing(t, u) <=>
       \A k \in Keys : t[k] # << >> /\ u[k] # << >> => t[k] = u[k]
  <1>1. \A t : \A k \in Keys : k \in Recorded(t) <=> t[k] # << >>
    BY DEF Recorded
  <1>2. \A t : \A k \in Recorded(t) : k \in Keys
    BY DEF Recorded
  <1>3. QED
    BY <1>1, <1>2 DEF Agreeing

\* The records of both, the first one's where both have some.
LEMMA JoinTrailLaws ==
  ASSUME NEW t \in Trails, NEW u \in Trails, NEW v \in Trails
  PROVE  /\ JoinTrail(t, u) \in Trails
         /\ JoinTrail(t, t) = t
         /\ JoinTrail(JoinTrail(t, u), u) = JoinTrail(t, u)
         /\ JoinTrail(JoinTrail(t, u), v) = JoinTrail(t, JoinTrail(u, v))
         /\ JoinTrail(t, u) = JoinTrail(u, t) <=> Agreeing(t, u)
         /\ JoinTrail(JoinTrail(t, u), v) = JoinTrail(JoinTrail(t, v), u) <=> AgreeingBeside(u, v, t)
  <1> DEFINE none == << >>
             join(f, g) == [k \in Keys |-> IF f[k] # none THEN f[k] ELSE g[k]]
             open == \A k \in Keys :
                       t[k] = none /\ u[k] # none /\ v[k] # none => u[k] = v[k]
             agree == \A k \in Keys : t[k] # none /\ u[k] # none => t[k] = u[k]
  <1>1. \A f, g : JoinTrail(f, g) = join(f, g)
    BY DEF JoinTrail
  <1>2. Agreeing(t, u) <=> agree
    BY TrailKeys
  <1>3. AgreeingBeside(u, v, t) <=> open
    BY DEF AgreeingBeside, Recorded
  <1> HIDE DEF none
  <1>4. \A f, g \in Trails : join(f, g) \in Trails
    BY DEF Trails
  <1>5. t = [k \in Keys |-> t[k]]
    BY DEF Trails
  <1>6. join(t, t) = t
    BY <1>5
  <1>7. join(join(t, u), u) = join(t, u)
    OBVIOUS
  <1>8. join(join(t, u), v) = join(t, join(u, v))
    OBVIOUS
  <1>9. join(t, u) = join(u, t) <=> agree
    <2>1. ASSUME join(t, u) = join(u, t), NEW k \in Keys, t[k] # none, u[k] # none
          PROVE  t[k] = u[k]
      <3>1. join(t, u)[k] = t[k] /\ join(u, t)[k] = u[k]
        BY <2>1
      <3>2. QED
        BY <2>1, <3>1
    <2>2. agree => join(t, u) = join(u, t)
      OBVIOUS
    <2>3. QED
      BY <2>1, <2>2
  <1>10. join(join(t, u), v) = join(join(t, v), u) <=> open
    <2>1. ASSUME join(join(t, u), v) = join(join(t, v), u), NEW k \in Keys,
                 t[k] = none, u[k] # none, v[k] # none
          PROVE  u[k] = v[k]
      <3>1. join(join(t, u), v)[k] = u[k] /\ join(join(t, v), u)[k] = v[k]
        BY <2>1
      <3>2. QED
        BY <2>1, <3>1
    <2>2. open => join(join(t, u), v) = join(join(t, v), u)
      OBVIOUS
    <2>3. QED
      BY <2>1, <2>2
  <1> HIDE DEF join, open, agree
  <1>11. QED
    BY <1>1, <1>2, <1>3, <1>4, <1>6, <1>7, <1>8, <1>9, <1>10

\* A merge is a state, and joins the fields one by one.
LEMMA MergeFields ==
  ASSUME NEW a \in AgentStates, NEW b \in AgentStates
  PROVE  /\ Merge(a, b) \in AgentStates
         /\ Merge(a, b).budget = JoinSpent(a.budget, b.budget)
         /\ Merge(a, b).caps = a.caps \cup b.caps
         /\ Merge(a, b).phase = JoinPhase(a.phase, b.phase)
         /\ Merge(a, b).trail = JoinTrail(a.trail, b.trail)
  <1>1. /\ JoinSpent(a.budget, b.budget) \in AttentionBudgets
        /\ a.caps \cup b.caps \in SUBSET Jtis
        /\ JoinPhase(a.phase, b.phase) \in Phases
        /\ JoinTrail(a.trail, b.trail) \in Trails
    BY StateFields, JoinSpentLaws, JoinPhaseLaws, JoinTrailLaws
  <1>2. QED
    BY <1>1 DEF Merge, AgentStates

\* A state is its fields.
LEMMA StateRecord ==
  ASSUME NEW a \in AgentStates
  PROVE  a = [budget |-> a.budget, caps |-> a.caps, phase |-> a.phase, trail |-> a.trail]
  BY Zenon DEF AgentStates

\* Two states are one when their fields are.
LEMMA SameState ==
  ASSUME NEW a \in AgentStates, NEW b \in AgentStates,
         a.budget = b.budget, a.caps = b.caps, a.phase = b.phase, a.trail = b.trail
  PROVE  a = b
  <1>1. a = [budget |-> a.budget, caps |-> a.caps, phase |-> a.phase, trail |-> a.trail]
    BY StateRecord
  <1>2. b = [budget |-> b.budget, caps |-> b.caps, phase |-> b.phase, trail |-> b.trail]
    BY StateRecord
  <1>3. QED
    BY <1>1, <1>2

\* The laws that hold of any states.
LEMMA MergeJoins ==
  ASSUME NEW a \in AgentStates, NEW b \in AgentStates, NEW c \in AgentStates
  PROVE  Joins(a, b, c)
  <1>1. /\ a.budget \in AttentionBudgets /\ a.phase \in Phases /\ a.trail \in Trails
        /\ b.budget \in AttentionBudgets /\ b.phase \in Phases /\ b.trail \in Trails
        /\ c.budget \in AttentionBudgets /\ c.phase \in Phases /\ c.trail \in Trails
    BY StateFields
  <1>2. Merge(a, a) = a
    <2>1. PICK m : m = Merge(a, a)
      OBVIOUS
    <2>2. m \in AgentStates
      BY <2>1, MergeFields
    <2>3. m.budget = a.budget
      BY <1>1, <2>1, MergeFields, JoinSpentLaws
    <2>4. m.caps = a.caps
      <3>1. m.caps = a.caps \cup a.caps
        BY <2>1, MergeFields
      <3>2. QED
        BY <3>1
    <2>5. m.phase = a.phase
      BY <1>1, <2>1, MergeFields, JoinPhaseLaws
    <2>6. m.trail = a.trail
      BY <1>1, <2>1, MergeFields, JoinTrailLaws
    <2>7. QED
      BY <2>1, <2>2, <2>3, <2>4, <2>5, <2>6, SameState
  <1>3. PICK ab \in AgentStates : ab = Merge(a, b)
    BY MergeFields
  <1>4. PICK bc \in AgentStates : bc = Merge(b, c)
    BY MergeFields
  <1>5. /\ ab.budget = JoinSpent(a.budget, b.budget)
        /\ ab.caps = a.caps \cup b.caps
        /\ ab.phase = JoinPhase(a.phase, b.phase)
        /\ ab.trail = JoinTrail(a.trail, b.trail)
    BY <1>3, MergeFields
  <1>6. /\ bc.budget = JoinSpent(b.budget, c.budget)
        /\ bc.caps = b.caps \cup c.caps
        /\ bc.phase = JoinPhase(b.phase, c.phase)
        /\ bc.trail = JoinTrail(b.trail, c.trail)
    BY <1>4, MergeFields
  <1>7. Merge(ab, b) = ab
    <2>1. PICK m : m = Merge(ab, b)
      OBVIOUS
    <2>2. /\ m \in AgentStates
          /\ m.budget = JoinSpent(ab.budget, b.budget)
          /\ m.caps = ab.caps \cup b.caps
          /\ m.phase = JoinPhase(ab.phase, b.phase)
          /\ m.trail = JoinTrail(ab.trail, b.trail)
      BY <2>1, MergeFields
    <2>3. m.budget = ab.budget
      BY <1>1, <1>5, <2>2, JoinSpentLaws
    <2>4. m.caps = ab.caps
      BY <1>5, <2>2
    <2>5. m.phase = ab.phase
      BY <1>1, <1>5, <2>2, JoinPhaseLaws
    <2>6. m.trail = ab.trail
      BY <1>1, <1>5, <2>2, JoinTrailLaws
    <2>7. QED
      BY <2>1, <2>2, <2>3, <2>4, <2>5, <2>6, SameState
  <1>8. Merge(ab, c) = Merge(a, bc)
    <2>1. PICK l : l = Merge(ab, c)
      OBVIOUS
    <2>2. /\ l \in AgentStates
          /\ l.budget = JoinSpent(ab.budget, c.budget)
          /\ l.caps = ab.caps \cup c.caps
          /\ l.phase = JoinPhase(ab.phase, c.phase)
          /\ l.trail = JoinTrail(ab.trail, c.trail)
      BY <2>1, MergeFields
    <2>3. PICK r : r = Merge(a, bc)
      OBVIOUS
    <2>4. /\ r \in AgentStates
          /\ r.budget = JoinSpent(a.budget, bc.budget)
          /\ r.caps = a.caps \cup bc.caps
          /\ r.phase = JoinPhase(a.phase, bc.phase)
          /\ r.trail = JoinTrail(a.trail, bc.trail)
      BY <2>3, MergeFields
    <2>5. l.budget = r.budget
      BY <1>1, <1>5, <1>6, <2>2, <2>4, JoinSpentLaws
    <2>6. l.caps = r.caps
      BY <1>5, <1>6, <2>2, <2>4
    <2>7. l.phase = r.phase
      BY <1>1, <1>5, <1>6, <2>2, <2>4, JoinPhaseLaws
    <2>8. l.trail = r.trail
      BY <1>1, <1>5, <1>6, <2>2, <2>4, JoinTrailLaws
    <2>9. QED
      BY <2>1, <2>2, <2>3, <2>4, <2>5, <2>6, <2>7, <2>8, SameState
  <1>9. QED
    BY <1>2, <1>3, <1>4, <1>7, <1>8 DEF Joins

\* Records are kept exactly if the trails agree.
LEMMA MergeKeeps ==
  ASSUME NEW a \in AgentStates, NEW b \in AgentStates
  PROVE  KeepsRecords(a, b)
  <1>1. PICK t \in Trails : t = a.trail
    BY StateFields
  <1>2. PICK u \in Trails : u = b.trail
    BY StateFields
  <1>3. PICK j : j = JoinTrail(t, u)
    OBVIOUS
  <1>4. Merge(a, b).trail = j
    BY <1>1, <1>2, <1>3, MergeFields
  <1>5. \A k \in Keys : /\ t[k] # << >> => j[k] = t[k]
                        /\ t[k] = << >> => j[k] = u[k]
    BY <1>3 DEF JoinTrail
  <1>6. (\A s \in {t, u} : \A k \in Recorded(s) : j[k] = s[k]) <=> Agreeing(t, u)
    <2>1. \A s : \A k \in Recorded(s) : k \in Keys
      BY DEF Recorded
    <2>2. ASSUME Agreeing(t, u), NEW k \in Recorded(u)
          PROVE  j[k] = u[k]
      BY <1>5, <2>1, <2>2, TrailKeys
    <2>3. \A k \in Recorded(t) : j[k] = t[k]
      BY <1>5, <2>1, TrailKeys
    <2>4. ASSUME \A k \in Recorded(u) : j[k] = u[k], NEW k \in Recorded(t) \cap Recorded(u)
          PROVE  t[k] = u[k]
      BY <2>3, <2>4
    <2>5. QED
      BY <2>2, <2>3, <2>4 DEF Agreeing
  <1>7. QED
    BY <1>1, <1>2, <1>4, <1>6 DEF KeepsRecords

\* A merge has what either side has.
LEMMA MergeUnites ==
  ASSUME NEW a \in AgentStates, NEW b \in AgentStates
  PROVE  Unites(a, b)
  <1>1. /\ a.budget \in AttentionBudgets /\ a.phase \in Phases /\ a.trail \in Trails
        /\ b.budget \in AttentionBudgets /\ b.phase \in Phases /\ b.trail \in Trails
    BY StateFields
  <1>2. PICK m : m = Merge(a, b)
    OBVIOUS
  <1>3. /\ m.budget = JoinSpent(a.budget, b.budget)
        /\ m.caps = a.caps \cup b.caps
        /\ m.phase = JoinPhase(a.phase, b.phase)
        /\ m.trail = JoinTrail(a.trail, b.trail)
    BY <1>2, MergeFields
  <1>4. /\ m.budget.spent \in {a.budget.spent, b.budget.spent}
        /\ m.budget.spent >= a.budget.spent
        /\ m.budget.spent >= b.budget.spent
    BY <1>1, <1>3, JoinSpentLaws
  <1>5. /\ PhaseRank[m.phase] >= PhaseRank[a.phase]
        /\ PhaseRank[m.phase] >= PhaseRank[b.phase]
    BY <1>1, <1>3, JoinPhaseLaws
  <1>6. Recorded(m.trail) = Recorded(a.trail) \cup Recorded(b.trail)
    <2>1. \A k \in Keys : m.trail[k] # << >> <=> a.trail[k] # << >> \/ b.trail[k] # << >>
      BY <1>3 DEF JoinTrail
    <2>2. QED
      BY <2>1 DEF Recorded
  <1>7. QED
    BY <1>2, <1>3, <1>4, <1>5, <1>6 DEF Unites

\* Two states are reconciled into a third in either order exactly if they agree
\* where it has no records.
LEMMA MergeReconciles ==
  ASSUME NEW a \in AgentStates, NEW b \in AgentStates, NEW c \in AgentStates
  PROVE  Reconciles(a, b, c)
  <1>1. /\ a.budget \in AttentionBudgets /\ a.phase \in Phases /\ a.trail \in Trails
        /\ b.budget \in AttentionBudgets /\ b.phase \in Phases /\ b.trail \in Trails
        /\ c.budget \in AttentionBudgets /\ c.phase \in Phases /\ c.trail \in Trails
    BY StateFields
  <1>2. PICK ab \in AgentStates : ab = Merge(a, b)
    BY MergeFields
  <1>3. PICK ac \in AgentStates : ac = Merge(a, c)
    BY MergeFields
  <1>4. /\ ab.budget = JoinSpent(a.budget, b.budget)
        /\ ab.caps = a.caps \cup b.caps
        /\ ab.phase = JoinPhase(a.phase, b.phase)
        /\ ab.trail = JoinTrail(a.trail, b.trail)
    BY <1>2, MergeFields
  <1>5. /\ ac.budget = JoinSpent(a.budget, c.budget)
        /\ ac.caps = a.caps \cup c.caps
        /\ ac.phase = JoinPhase(a.phase, c.phase)
        /\ ac.trail = JoinTrail(a.trail, c.trail)
    BY <1>3, MergeFields
  <1>6. PICK l : l = Merge(ab, c)
    OBVIOUS
  <1>7. /\ l \in AgentStates
        /\ l.budget = JoinSpent(ab.budget, c.budget)
        /\ l.caps = ab.caps \cup c.caps
        /\ l.phase = JoinPhase(ab.phase, c.phase)
        /\ l.trail = JoinTrail(ab.trail, c.trail)
    BY <1>6, MergeFields
  <1>8. PICK r : r = Merge(ac, b)
    OBVIOUS
  <1>9. /\ r \in AgentStates
        /\ r.budget = JoinSpent(ac.budget, b.budget)
        /\ r.caps = ac.caps \cup b.caps
        /\ r.phase = JoinPhase(ac.phase, b.phase)
        /\ r.trail = JoinTrail(ac.trail, b.trail)
    BY <1>8, MergeFields
  <1>10. l.budget = r.budget
    BY <1>1, <1>4, <1>5, <1>7, <1>9, JoinSpentLaws
  <1>11. l.caps = r.caps
    BY <1>4, <1>5, <1>7, <1>9
  <1>12. l.phase = r.phase
    <2>1. JoinPhase(JoinPhase(a.phase, b.phase), c.phase)
            = JoinPhase(a.phase, JoinPhase(b.phase, c.phase))
      BY <1>1, JoinPhaseLaws
    <2>2. JoinPhase(JoinPhase(a.phase, c.phase), b.phase)
            = JoinPhase(a.phase, JoinPhase(c.phase, b.phase))
      BY <1>1, JoinPhaseLaws
    <2>3. JoinPhase(b.phase, c.phase) = JoinPhase(c.phase, b.phase)
      BY <1>1, JoinPhaseLaws
    <2>4. QED
      BY <1>4, <1>5, <1>7, <1>9, <2>1, <2>2, <2>3
  <1>13. l.trail = r.trail <=> AgreeingBeside(b.trail, c.trail, a.trail)
    <2>1. /\ l.trail = JoinTrail(JoinTrail(a.trail, b.trail), c.trail)
          /\ r.trail = JoinTrail(JoinTrail(a.trail, c.trail), b.trail)
      BY <1>4, <1>5, <1>7, <1>9
    <2>2. JoinTrail(JoinTrail(a.trail, b.trail), c.trail)
            = JoinTrail(JoinTrail(a.trail, c.trail), b.trail)
              <=> AgreeingBeside(b.trail, c.trail, a.trail)
      BY <1>1, JoinTrailLaws
    <2>3. QED
      BY <2>1, <2>2
  <1>14. l = r <=> l.trail = r.trail
    BY <1>7, <1>9, <1>10, <1>11, <1>12, SameState
  <1>15. QED
    BY <1>2, <1>3, <1>6, <1>8, <1>13, <1>14 DEF Reconciles

\* Two states merge to the same either way exactly if their totals are the same
\* and their trails agree.
LEMMA MergeCommutes ==
  ASSUME NEW b \in AgentStates, NEW c \in AgentStates
  PROVE  Commutes(b, c)
  <1>1. /\ b.budget \in AttentionBudgets /\ b.phase \in Phases /\ b.trail \in Trails
        /\ c.budget \in AttentionBudgets /\ c.phase \in Phases /\ c.trail \in Trails
    BY StateFields
  <1>2. PICK l : l = Merge(b, c)
    OBVIOUS
  <1>3. PICK r : r = Merge(c, b)
    OBVIOUS
  <1>4. /\ l \in AgentStates
        /\ l.budget = JoinSpent(b.budget, c.budget)
        /\ l.caps = b.caps \cup c.caps
        /\ l.phase = JoinPhase(b.phase, c.phase)
        /\ l.trail = JoinTrail(b.trail, c.trail)
    BY <1>2, MergeFields
  <1>5. /\ r \in AgentStates
        /\ r.budget = JoinSpent(c.budget, b.budget)
        /\ r.caps = c.caps \cup b.caps
        /\ r.phase = JoinPhase(c.phase, b.phase)
        /\ r.trail = JoinTrail(c.trail, b.trail)
    BY <1>3, MergeFields
  <1>6. l.budget = r.budget <=> b.budget.total = c.budget.total
    BY <1>1, <1>4, <1>5, JoinSpentLaws
  <1>7. l.caps = r.caps
    BY <1>4, <1>5
  <1>8. l.phase = r.phase
    BY <1>1, <1>4, <1>5, JoinPhaseLaws
  <1>9. l.trail = r.trail <=> Agreeing(b.trail, c.trail)
    BY <1>1, <1>4, <1>5, JoinTrailLaws
  <1>10. l = r <=> l.budget = r.budget /\ l.trail = r.trail
    BY <1>4, <1>5, <1>7, <1>8, SameState
  <1>11. QED
    BY <1>2, <1>3, <1>6, <1>9, <1>10 DEF Commutes

\* AgentState::merge is idempotent and associative, and merging an instance again
\* changes nothing, for any states of an agent.
THEOREM MergeIsAJoin == \A a, b, c \in AgentStates : Joins(a, b, c)
  BY MergeJoins

\* It keeps what either side has, and adds nothing: in particular the spend is one
\* of the two, no smaller than either, and no sum.  This is the merge that
\* Supervision works with, where each record has a key of its own.
THEOREM MergeUnitesBoth == \A a, b \in AgentStates : Unites(a, b)
  BY MergeUnites

\* "No record is ever lost" (docs/rfcs/0005, section 4): exactly if no two different
\* sequences of records were made under one key.
THEOREM RecordsSurviveMerges == \A a, b \in AgentStates : KeepsRecords(a, b)
  BY MergeKeeps

\* "The order of merges does not matter" (Checkpoint::merge): for two checkpoints
\* exactly if their totals are equal too, which nothing sees to after a refill.
THEOREM MergesCommuteExactly == \A a, b \in AgentStates : Commutes(a, b)
  BY MergeCommutes

\* What Supervisor::reconcile makes of two instances does not depend on which
\* returns first, whatever their totals: exactly if they agree where the
\* supervisor's checkpoint has no records.
THEOREM ReconcilesInAnyOrder ==
  \A good, a, b \in AgentStates : Reconciles(good, a, b)
  BY MergeReconciles

=============================================================================
