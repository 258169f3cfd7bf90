----------------------------- MODULE SelfUpdate -----------------------------
(***************************************************************************)
(* Self-update with rollback (runtime/src/update.rs): one agent, its       *)
(* history of generations, and a caller that mutates the agent, stages its *)
(* checkpoints and concludes the update, in any order of legal calls.      *)
(***************************************************************************)
EXTENDS CheckpointHistory

CONSTANTS
    State,        \* the portable states an agent can be in
    MaxGen        \* bound: staging stops when the next number passes it

ASSUME MaxGenAssumption == MaxGen \in Nat

VARIABLES
    running,      \* the portable state of the agent
    attached,     \* whether its tools and verifier are attached
    history,      \* its CheckpointHistory
    outcome,      \* the last verdict: its kind and the generation it names
    rejected      \* history variable: generation numbers rolled back so far

updateVars == <<running, attached, history, outcome, rejected>>

Outcome(kind, gen) == [kind |-> kind, gen |-> gen]

UpdateInit ==
    /\ running \in State
    /\ attached = TRUE
    /\ history = InitHistory(running)
    /\ outcome = Outcome("None", 0)
    /\ rejected = {}

\* The agent acts, or its owner updates it: new behaviour, new spend, new trail.
Mutate ==
    /\ running' \in State
    /\ UNCHANGED <<attached, history, outcome, rejected>>

Reattach ==
    /\ attached' = TRUE
    /\ UNCHANGED <<running, history, outcome, rejected>>

StageUpdate ==
    /\ history.next <= MaxGen
    /\ history' = Stage(history, running)
    /\ UNCHANGED <<running, attached, outcome, rejected>>

\* conclude_update with a good verdict; without a candidate it is an error
\* that changes nothing.
ConcludeHealthy ==
    /\ HasCandidate(history)
    /\ history' = Promote(history)
    /\ outcome' = Outcome("Committed", CurrentGen(history))
    /\ UNCHANGED <<running, attached, rejected>>

\* conclude_update with a bad verdict: roll back and restore, with the
\* environment's tools and verifier left off.
ConcludeUnhealthy ==
    /\ history' = Rollback(history)
    /\ outcome' = Outcome("RolledBack", CurrentGen(history'))
    /\ running' = LastGood(history')
    /\ attached' = FALSE
    /\ rejected' = rejected \cup {history.gens[i].number :
                       i \in (Len(history'.gens) + 1) .. Len(history.gens)}

UpdateNext == Mutate \/ Reattach \/ StageUpdate \/ ConcludeHealthy \/ ConcludeUnhealthy

UpdateSpec == UpdateInit /\ [][UpdateNext]_updateVars

----------------------------------------------------------------------------
\* Properties.

\* Every variable keeps its type.
UpdateTypeOK ==
    /\ running \in State
    /\ attached \in BOOLEAN
    /\ history \in Histories(State)
    /\ outcome \in [kind : {"None", "Committed", "RolledBack"}, gen : Nat]
    /\ rejected \subseteq Nat

\* The module's invariant (update.rs, head): a committed generation is always
\* retained, the initial baseline among them, whatever verdicts are given.
BaselineRetained ==
    /\ Len(history.gens) > 0
    /\ history.gens[1].number = 0
    /\ history.gens[1].status = "Committed"

\* A number names one generation for ever: numbers increase along the history,
\* stay below the next one, and one that was rolled back never comes back.
NumbersNameOneGeneration ==
    /\ \A i, j \in 1 .. Len(history.gens) :
         i < j => history.gens[i].number < history.gens[j].number
    /\ \A i \in 1 .. Len(history.gens) : history.gens[i].number < history.next
    /\ \A i \in 1 .. Len(history.gens) : history.gens[i].number \notin rejected
    /\ \A n \in rejected : n < history.next

\* The verdict tells the truth: the generation it names is the committed one a
\* rollback would restore, until the next verdict, whatever is staged meanwhile.
VerdictNamesLastGood ==
    outcome.kind # "None" =>
        history.gens[LastCommitted(history)].number = outcome.gen

\* The abstract promise: last_good is the known-good state, the candidates
\* after it are the ones on trial.
OnTrial ==
    [k \in 1 .. (Len(history.gens) - LastCommitted(history)) |->
        history.gens[LastCommitted(history) + k].checkpoint]

Promise == INSTANCE KnownGood
    WITH current <- running, good <- LastGood(history), trial <- OnTrial

\* Self-update implements the promise of KnownGood.
KeepsPromise == Promise!Spec

=============================================================================
