-------------------------------- MODULE Teams --------------------------------
(***************************************************************************)
(* A team at work over the fabric (fabric/src/lib.rs): the run methods of  *)
(* Pipeline, Hierarchy, Market and Swarm.  A team is built once and run    *)
(* many times, and since run takes a shared reference, also several times  *)
(* at once: the rounds of a team meet in the inboxes of its members.       *)
(*                                                                         *)
(* Members are numbered in the order they were added; member 1 is the      *)
(* pipeline's first stage, the hierarchy's lead, the market's auctioneer   *)
(* and the swarm peer that draws the consensus.  A step is what a run does *)
(* between two points where another thread can get in between: each send   *)
(* and each recv takes the lock of the inboxes once.  A run is dropped by  *)
(* its caller only where it awaits a member's model.                       *)
(***************************************************************************)
EXTENDS Fabric, Integers, FiniteSets

CONSTANTS
    N,            \* how many members the team has
    Space,        \* vector spaces (model fingerprints)
    Costs,        \* what a bidder may bid
    Raws,         \* whether payloads are raw: a subset of BOOLEAN
    TeamSet,      \* the teams that may be built
    Rounds,       \* the runs of the team
    MaxActive,    \* bound: how many of them are under way at once, by paradigm
    None          \* no bid

Member == 1 .. N

\* Who leads an auction, and with what bid.
Leaders == [at : Member, cost : Costs]

Kinds  == {"Pipeline", "Hierarchy", "Market", "Swarm"}

\* kind: the paradigm; space[m]: member m's vector space; may[m]: the members that
\* the capability m sends its messages with covers, or, if m broadcasts, the whole
\* group or nobody.
TeamShape ==
    [kind : Kinds, space : [Member -> Space], may : [Member -> SUBSET Member]]

ASSUME TeamsAssumption ==
    /\ N \in Nat /\ N >= 2
    /\ Costs \subseteq Nat
    /\ Raws \subseteq BOOLEAN
    /\ TeamSet \subseteq TeamShape
    /\ IsFiniteSet(Rounds)
    /\ MaxActive \in [Kinds -> Nat]
    /\ None \notin Nat \cup Leaders

\* A payload, by what the properties tell apart: the round whose task it
\* answers, the member that made it (0 for the caller), whether it is raw, and
\* the cost if it is a bid.
Payloads == [of : Rounds, by : 0 .. N, raw : BOOLEAN, cost : Costs \cup {None}]
Messages == [space : Space, translate : BOOLEAN, payload : Payloads]

Work(of, by, raw) == [of |-> of, by |-> by, raw |-> raw, cost |-> None]

\* encode_bid: a raw payload of its own content type.
EncodedBid(of, by, cost) == [of |-> of, by |-> by, raw |-> TRUE, cost |-> cost]

VARIABLES
    team,    \* the team, as it was built
    inbox,   \* inbox[m]: the messages waiting for member m
    run,     \* run[r]: where round r is, what it holds and, as history, the bids
    mixed    \* history variable: rounds that were under way with another

vars == <<team, inbox, run, mixed>>

Ended(r)  == run[r].pc \in {"done", "failed"}
Active(r) == run[r].pc # "idle" /\ ~Ended(r)
ActiveRounds == {r \in Rounds : Active(r)}

Idle == [pc |-> "idle", at |-> 1, task |-> None, held |-> None, got |-> <<>>,
         best |-> None, todo |-> {}, bids |-> [m \in Member |-> None]]

\* A round returns its answer, or an error; what else it held is gone.
Answered(r, got) == [run EXCEPT ![r] = [Idle EXCEPT !.pc = "done", !.got = got,
                                                    !.best = run[r].best,
                                                    !.bids = run[r].bids]]
Failed(r) == [run EXCEPT ![r] = [Idle EXCEPT !.pc = "failed"]]

Init ==
    /\ team \in TeamSet
    /\ inbox = [m \in Member |-> <<>>]
    /\ run = [r \in Rounds |-> Idle]
    /\ mixed = {}

----------------------------------------------------------------------------
\* Every paradigm.

\* What run does first: a pipeline works on the input, a swarm has each peer
\* work on it, a hierarchy and a market send it to their second member.
FirstStep == IF team.kind \in {"Pipeline", "Swarm"} THEN "work" ELSE "delegate"
FirstMember == IF team.kind \in {"Pipeline", "Swarm"} THEN 1 ELSE 2

\* A caller runs the team on a task.
Start(r) ==
    /\ run[r].pc = "idle"
    /\ Cardinality(ActiveRounds) < MaxActive[team.kind]
    /\ \E space \in Space, translate \in BOOLEAN, raw \in Raws :
         LET task == Message(space, translate, Work(r, 0, raw))
         IN  run' = [run EXCEPT ![r].pc = FirstStep, ![r].at = FirstMember,
                                ![r].task = task, ![r].held = task]
    /\ mixed' = IF ActiveRounds = {} THEN mixed
                ELSE mixed \cup ActiveRounds \cup {r}
    /\ UNCHANGED <<team, inbox>>

\* Mutant: a message is looked at and left in the inbox.
ReceiveLeaves(r) ==
    LET m == run[r].at IN
    /\ run[r].pc = "recv"
    /\ HasMail(inbox, m)
    /\ run' = [run EXCEPT ![r].pc = "work", ![r].held = NextMail(inbox, m)]
    /\ UNCHANGED <<team, inbox, mixed>>

\* The member that was sent to takes the next message of its inbox.
Receive(r) ==
    LET m == run[r].at IN
    /\ run[r].pc = "recv"
    /\ HasMail(inbox, m)
    /\ run' = [run EXCEPT ![r].pc = "work", ![r].held = NextMail(inbox, m)]
    /\ inbox' = Received(inbox, m)
    /\ UNCHANGED <<team, mixed>>

\* Where a round leaves by a question mark: a member's model failed or would
\* have been given a foreign vector, its capability did not cover the next hop,
\* no bid was made (all three while a member works, as when the caller drops
\* the run there), the lead may not send, or an inbox was empty.
MayFail(r) ==
    \/ run[r].pc \in {"work", "execute"}
    \/ run[r].pc = "delegate" /\ run[r].at \notin team.may[1]
    \/ run[r].pc = "recv" /\ ~HasMail(inbox, run[r].at)
    \/ run[r].pc = "collect" /\ ~HasMail(inbox, 1)

\* Mutant: a child whose model fails reports what it was handed before it gives up.
FailReports(r) ==
    /\ MayFail(r)
    /\ run' = Failed(r)
    /\ inbox' = IF team.kind = "Hierarchy" /\ run[r].pc = "work"
                THEN Deliver(inbox, 1, run[r].held) ELSE inbox
    /\ UNCHANGED <<team, mixed>>

Fail(r) ==
    /\ MayFail(r)
    /\ run' = Failed(r)
    /\ UNCHANGED <<team, inbox, mixed>>

----------------------------------------------------------------------------
\* Pipeline.

\* A stage works on what it was handed, and forwards its output to the next;
\* the output of the last is the answer.
PipelineStage(r) ==
    LET a == run[r].at
        held == run[r].held
    IN
    /\ team.kind = "Pipeline"
    /\ run[r].pc = "work"
    /\ Injectable(held, team.space[a])
    /\ \E raw \in Raws :
         LET out == Message(team.space[a], held.translate,
                            Work(held.payload.of, a, raw))
         IN  IF a = N
             THEN /\ run' = Answered(r, <<out.payload>>)
                  /\ UNCHANGED inbox
             ELSE /\ a + 1 \in team.may[a]
                  /\ inbox' = Deliver(inbox, a + 1, out)
                  /\ run' = [run EXCEPT ![r].pc = "recv", ![r].at = a + 1]
    /\ UNCHANGED <<team, mixed>>

----------------------------------------------------------------------------
\* Hierarchy and market: out to one member, back to member 1, then the next.

\* The lead delegates its task; the auctioneer announces it.
Delegate(r) ==
    /\ team.kind \in {"Hierarchy", "Market"}
    /\ run[r].pc = "delegate"
    /\ run[r].at \in team.may[1]
    /\ inbox' = Deliver(inbox, run[r].at, run[r].task)
    /\ run' = [run EXCEPT ![r].pc = "recv"]
    /\ UNCHANGED <<team, mixed>>

\* A child works on the task it received and reports to the lead.
Report(r) ==
    LET a == run[r].at
        held == run[r].held
    IN
    /\ team.kind = "Hierarchy"
    /\ run[r].pc = "work"
    /\ Injectable(held, team.space[a])
    /\ 1 \in team.may[a]
    /\ \E raw \in Raws :
         inbox' = Deliver(inbox, 1, Message(team.space[a], held.translate,
                                            Work(held.payload.of, a, raw)))
    /\ run' = [run EXCEPT ![r].pc = "collect"]
    /\ UNCHANGED <<team, mixed>>

\* A bidder replies with the cost it asks.  The reply keeps the space of the
\* announcement, and nobody guards it: a bid is not given to a model.
Bid(r) ==
    LET a == run[r].at
        held == run[r].held
    IN
    /\ team.kind = "Market"
    /\ run[r].pc = "work"
    /\ 1 \in team.may[a]
    /\ \E cost \in Costs :
         /\ inbox' = Deliver(inbox, 1, Message(held.space, held.translate,
                                  EncodedBid(held.payload.of, a, cost)))
         /\ run' = [run EXCEPT ![r].pc = "collect", ![r].bids[a] = cost]
    /\ UNCHANGED <<team, mixed>>

\* The members take turns.
LastTurn(r) == run[r].at = N

NextMember(r) == IF LastTurn(r) THEN N ELSE run[r].at + 1

\* The lead takes a report, and answers with the aggregate when it has all.
Collect(r) ==
    LET got == Append(run[r].got, NextMail(inbox, 1).payload) IN
    /\ team.kind = "Hierarchy"
    /\ run[r].pc = "collect"
    /\ HasMail(inbox, 1)
    /\ run' = IF LastTurn(r) THEN Answered(r, got)
              ELSE [run EXCEPT ![r].pc = "delegate", ![r].at = NextMember(r),
                               ![r].got = got]
    /\ inbox' = Received(inbox, 1)
    /\ UNCHANGED <<team, mixed>>

\* Mutant: the latest of equal bids wins.
BeatsOrTies(cost, best) == best = None \/ cost <= best.cost

\* A bid replaces the best so far only if it is lower.
Beats(cost, best) == IF best = None THEN TRUE ELSE cost < best.cost

\* The auctioneer takes a bid, and assigns the task when it has all.
Tally(r) ==
    LET bid == NextMail(inbox, 1).payload.cost IN
    /\ team.kind = "Market"
    /\ run[r].pc = "collect"
    /\ HasMail(inbox, 1)
    /\ bid # None                                \* decode_bid
    /\ run' = [run EXCEPT ![r].pc = IF LastTurn(r) THEN "execute" ELSE "delegate",
                          ![r].at = NextMember(r),
                          ![r].best = IF Beats(bid, @)
                                      THEN [at |-> run[r].at, cost |-> bid]
                                      ELSE @]
    /\ inbox' = Received(inbox, 1)
    /\ UNCHANGED <<team, mixed>>

\* The winner works on the task itself.
Execute(r) ==
    /\ team.kind = "Market"
    /\ run[r].pc = "execute"
    /\ run[r].best # None
    /\ \E raw \in Raws :
         run' = Answered(r, <<Work(r, run[r].best.at, raw)>>)
    /\ UNCHANGED <<team, inbox, mixed>>

----------------------------------------------------------------------------
\* Swarm.

\* A peer works on the input and starts to broadcast its proposal to the group.
Propose(r) ==
    LET a == run[r].at
        task == run[r].task
    IN
    /\ team.kind = "Swarm"
    /\ run[r].pc = "work"
    /\ team.may[a] = Member
    /\ \E raw \in Raws :
         run' = [run EXCEPT ![r].pc = "cast", ![r].todo = Member,
                            ![r].held = Message(team.space[a], task.translate,
                                                Work(r, a, raw))]
    /\ UNCHANGED <<team, inbox, mixed>>

\* The broadcast reaches the members of the group one by one, in any order, the
\* sender among them; after the last the next peer proposes.
Cast(r, m) ==
    LET last == run[r].todo = {m} IN
    /\ team.kind = "Swarm"
    /\ run[r].pc = "cast"
    /\ m \in run[r].todo
    /\ inbox' = Deliver(inbox, m, run[r].held)
    /\ run' = [run EXCEPT
         ![r].todo = @ \ {m},
         ![r].pc = IF ~last THEN "cast"
                   ELSE IF LastTurn(r) THEN "drain" ELSE "work",
         ![r].at = IF last THEN NextMember(r) ELSE @]
    /\ UNCHANGED <<team, mixed>>

\* Mutant: the consensus is drawn from the oldest proposal alone.
DrainOne(r) ==
    LET m == NextMail(inbox, 1) IN
    /\ team.kind = "Swarm"
    /\ run[r].pc = "drain"
    /\ HasMail(inbox, 1)
    /\ inbox' = Received(inbox, 1)
    /\ run' = Answered(r, <<m.payload>>)
    /\ UNCHANGED <<team, mixed>>

\* The first peer takes everything in its inbox; a proposal in a foreign space
\* ends the run, and what is behind it stays.
Drain(r) ==
    LET m == NextMail(inbox, 1) IN
    /\ team.kind = "Swarm"
    /\ run[r].pc = "drain"
    /\ HasMail(inbox, 1)
    /\ inbox' = Received(inbox, 1)
    /\ run' = IF Injectable(m, team.space[1])
              THEN [run EXCEPT ![r].got = Append(@, m.payload)]
              ELSE Failed(r)
    /\ UNCHANGED <<team, mixed>>

\* An empty inbox ends the draining, and the proposals are fused.
Agree(r) ==
    /\ team.kind = "Swarm"
    /\ run[r].pc = "drain"
    /\ ~HasMail(inbox, 1)
    /\ run' = Answered(r, run[r].got)
    /\ UNCHANGED <<team, inbox, mixed>>

----------------------------------------------------------------------------
\* Every round has ended: the caller runs the team no more.
Rest ==
    /\ \A r \in Rounds : Ended(r)
    /\ UNCHANGED vars

Step(r) ==
    \/ Start(r) \/ Receive(r) \/ Fail(r)
    \/ PipelineStage(r)
    \/ Delegate(r) \/ Report(r) \/ Bid(r) \/ Collect(r) \/ Tally(r) \/ Execute(r)
    \/ Propose(r) \/ (\E m \in Member : Cast(r, m)) \/ Drain(r) \/ Agree(r)

Next == (\E r \in Rounds : Step(r)) \/ Rest

Spec == Init /\ [][Next]_vars

----------------------------------------------------------------------------
\* Properties.

RunTypes == [pc : {"idle", "work", "delegate", "recv", "collect", "execute",
                   "cast", "drain", "done", "failed"},
             at : Member,
             task : Messages \cup {None},
             held : Messages \cup {None},
             got : Seq(Payloads),
             best : Leaders \cup {None},
             todo : SUBSET Member,
             bids : [Member -> Costs \cup {None}]]

\* The types of the variables.
TypeOK ==
    /\ team \in TeamSet
    /\ inbox \in [Member -> Seq(Messages)]
    /\ run \in [Rounds -> RunTypes]
    /\ mixed \subseteq Rounds

\* Whether round r takes its next message from m's inbox.
Awaits(r, m) ==
    \/ run[r].pc = "recv" /\ run[r].at = m
    \/ run[r].pc = "collect" /\ m = 1

\* Outside a swarm, each message in an inbox is awaited by a round of its own,
\* however rounds overlap, fail and are dropped: no recv ever finds an inbox
\* empty, and a team that is quiet again has left nothing behind for the next
\* round to take for its own.
MailIsAwaited ==
    team.kind # "Swarm" =>
      \A m \in Member :
        Len(inbox[m]) = Cardinality({r \in Rounds : Awaits(r, m)})

\* A round that no other was under way with, and that has its answer.
SoloDone(r) == run[r].pc = "done" /\ r \notin mixed

\* A pipeline's and a hierarchy's answer is made of work on its own task, whatever
\* rounds failed or overlapped before: the lead aggregates one report of each
\* child, in order, and the pipeline's output is its last stage's.
AnswersAreOwn ==
    \A r \in Rounds : SoloDone(r) =>
      /\ team.kind = "Hierarchy" =>
           /\ Len(run[r].got) = N - 1
           /\ \A i \in 1 .. N - 1 : run[r].got[i].of = r /\ run[r].got[i].by = i + 1
      /\ team.kind = "Pipeline" =>
           \A i \in DOMAIN run[r].got : run[r].got[i].of = r /\ run[r].got[i].by = N

\* The auction is won by the lowest bid, the first among equals, and every
\* bidder was asked.
LowestBidWins ==
    \A r \in Rounds : SoloDone(r) /\ team.kind = "Market" =>
      LET best == run[r].best
          bids == run[r].bids
      IN  /\ bids[best.at] = best.cost
          /\ \A m \in 2 .. N : /\ bids[m] # None
                                /\ bids[m] >= best.cost
                                /\ m < best.at => bids[m] > best.cost

\* A swarm's consensus hears the proposal of every peer.
SwarmHearsEveryPeer ==
    \A r \in Rounds : SoloDone(r) /\ team.kind = "Swarm" =>
      \A m \in Member : \E i \in DOMAIN run[r].got :
        run[r].got[i].of = r /\ run[r].got[i].by = m

=============================================================================
