-------------------------- MODULE AttentionBudget --------------------------
(***************************************************************************)
(* The attention budget (core/src/budget.rs): tokens granted and tokens    *)
(* spent, both u64.  rate and refill are configuration no operation reads  *)
(* and are left out.  MaxTokens stands for u64::MAX, so that a small value *)
(* makes the saturating arithmetic happen on small instances.              *)
(***************************************************************************)
EXTENDS Integers

CONSTANT MaxTokens    \* the largest u64

ASSUME MaxTokensAssumption == MaxTokens \in Nat

Tokens == 0 .. MaxTokens

AttentionBudgets == [total : Tokens, spent : Tokens]

NewBudget(total) == [total |-> total, spent |-> 0]

\* saturating_add and saturating_sub: clip to the range of a u64.
Saturate(n) == IF n < 0 THEN 0 ELSE IF n > MaxTokens THEN MaxTokens ELSE n

Remaining(b) == Saturate(b.total - b.spent)

\* charge is all or nothing: it is refused when the balance is insufficient.
\* Mutant: what is already spent is forgotten.
CanChargeAgainstTotal(b, cost) == cost <= b.total

CanCharge(b, cost) == cost <= Remaining(b)
Charge(b, cost)    == [b EXCEPT !.spent = @ + cost]

\* Mutant: a refill replaces the grant.
GrantReplaces(b, tokens) == [b EXCEPT !.total = tokens]

Grant(b, tokens) == [b EXCEPT !.total = Saturate(@ + tokens)]

\* Mutant: the reservation is not given back.
SettleTwice(b, reserved, actual) == [b EXCEPT !.spent = Saturate(@ + actual)]

\* Mutant: the reservation is given back and the actual cost not charged.
SettleRefunds(b, reserved, actual) ==
    [b EXCEPT !.spent = Saturate(@ - reserved)]

\* The reservation is corrected to the actual cost; the surplus may overdraw.
Settle(b, reserved, actual) ==
    [b EXCEPT !.spent = Saturate(@ + actual - reserved)]

=============================================================================
