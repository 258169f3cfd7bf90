----------------------------- MODULE KnownGood -----------------------------
(***************************************************************************)
(* What self-update promises (the head of runtime/src/update.rs): there is *)
(* always one known-good state; an update is on trial until its verdict;   *)
(* a good verdict makes the newest trial the known-good state, a bad one   *)
(* brings the agent back to the known-good state it had.                   *)
(***************************************************************************)
EXTENDS Integers, Sequences

CONSTANT State      \* the states an agent can be checkpointed in

VARIABLES
    current,        \* the state of the running agent
    good,           \* the known-good state
    trial           \* the states on trial, oldest first

vars == <<current, good, trial>>

Init ==
    /\ current \in State
    /\ good = current
    /\ trial = <<>>

\* The agent acts or is updated by its owner.
Change == /\ current' \in State
          /\ UNCHANGED <<good, trial>>

Try == /\ trial' = Append(trial, current)
       /\ UNCHANGED <<current, good>>

Accept == /\ trial # <<>>
          /\ good' = trial[Len(trial)]
          /\ trial' = <<>>
          /\ UNCHANGED current

Reject == /\ trial' = <<>>
          /\ current' = good
          /\ UNCHANGED good

Next == Change \/ Try \/ Accept \/ Reject

Spec == Init /\ [][Next]_vars

=============================================================================
