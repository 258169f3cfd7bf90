------------------------- MODULE CheckpointHistory -------------------------
(***************************************************************************)
(* The generational history of checkpoints (runtime/src/update.rs), as     *)
(* functions of its value: gens, oldest first, and the next number.        *)
(***************************************************************************)
EXTENDS Integers, Sequences

Generation(number, status, checkpoint) ==
    [number |-> number, status |-> status, checkpoint |-> checkpoint]

Generations(S) ==
    [number : Nat, status : {"Committed", "Candidate"}, checkpoint : S]

Histories(S) == [gens : Seq(Generations(S)), next : Nat]

InitHistory(baseline) ==
    [gens |-> <<Generation(0, "Committed", baseline)>>, next |-> 1]

Newest(h) == h.gens[Len(h.gens)]

CurrentGen(h)   == Newest(h).number
HasCandidate(h) == Newest(h).status = "Candidate"

\* last_good searches from the newest generation backwards.
Committed(h)     == {i \in 1 .. Len(h.gens) : h.gens[i].status = "Committed"}
LastCommitted(h) == CHOOSE i \in Committed(h) : \A j \in Committed(h) : j <= i
LastGood(h)      == h.gens[LastCommitted(h)].checkpoint

Stage(h, checkpoint) ==
    [gens |-> Append(h.gens, Generation(h.next, "Candidate", checkpoint)),
     next |-> h.next + 1]

\* Mutant: promotion retains the promoted generation only.
PromoteAlone(h) ==
    [gens |-> <<[Newest(h) EXCEPT !.status = "Committed"]>>, next |-> h.next]

\* Mutant: the oldest candidate is promoted.
PromoteOldest(h) ==
    [gens |-> [h.gens EXCEPT ![LastCommitted(h) + 1].status = "Committed"],
     next |-> h.next]

\* Only with a candidate at the end.
Promote(h) ==
    [gens |-> [h.gens EXCEPT ![Len(h.gens)].status = "Committed"],
     next |-> h.next]

\* Mutant: numbers are used again, by counting what is left.
RollbackReusesNumbers(h) ==
    [gens |-> SubSeq(h.gens, 1, LastCommitted(h)), next |-> LastCommitted(h)]

\* Mutant: one candidate is popped.
RollbackPopsOne(h) ==
    [h EXCEPT !.gens = SubSeq(@, 1, Len(@) - IF HasCandidate(h) THEN 1 ELSE 0)]

\* Pop the trailing candidates.
Rollback(h) == [gens |-> SubSeq(h.gens, 1, LastCommitted(h)), next |-> h.next]

=============================================================================
