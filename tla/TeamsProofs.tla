----------------------------- MODULE TeamsProofs -----------------------------
(***************************************************************************)
(* Proofs about teams of any size, with any number of rounds under way: the *)
(* types; that each message in an inbox is awaited by a round; and what the *)
(* answer of a round is made of that overlapped with no other.              *)
(***************************************************************************)
EXTENDS Teams, FiniteSetTheorems, TLAPS

\* What a round holds where it needs it.
Holding ==
    \A r \in Rounds :
      /\ run[r].pc \in {"work", "cast"} => run[r].held \in Messages
      /\ Active(r) => run[r].task \in Messages

TypeInv == TypeOK /\ Holding

----------------------------------------------------------------------------
\* Messages.

\* Work on a round's task, in a message of some space, is a message.
LEMMA WorkIsMessage ==
  ASSUME NEW space \in Space, NEW translate \in BOOLEAN, NEW of \in Rounds,
         NEW by \in 0 .. N, NEW raw \in Raws
  PROVE  /\ Work(of, by, raw) \in Payloads
         /\ Message(space, translate, Work(of, by, raw)) \in Messages
  BY TeamsAssumption DEF Work, Payloads, Message, Messages

\* So is a bid.
LEMMA BidIsMessage ==
  ASSUME NEW space \in Space, NEW translate \in BOOLEAN, NEW of \in Rounds,
         NEW by \in 0 .. N, NEW cost \in Costs
  PROVE  Message(space, translate, EncodedBid(of, by, cost)) \in Messages
  BY TeamsAssumption DEF EncodedBid, Payloads, Message, Messages

\* What is read of a message.
LEMMA MessageParts ==
  ASSUME NEW m \in Messages
  PROVE  /\ m.space \in Space /\ m.translate \in BOOLEAN
         /\ m.payload \in Payloads /\ m.payload.of \in Rounds
         /\ m.payload.cost \in Costs \cup {None}
  BY DEF Messages, Payloads

\* Members are numbers from 1 to N, and there is a second.
LEMMA MemberFacts ==
  /\ N \in Nat /\ N >= 2
  /\ 1 \in Member /\ 2 \in Member /\ N \in Member
  /\ \A m \in Member : m \in Nat /\ m \in 0 .. N /\ (m # N => m + 1 \in Member)
  BY TeamsAssumption DEF Member

\* The shape of the team.
LEMMA TeamFacts ==
  ASSUME TypeOK
  PROVE  /\ team.kind \in Kinds
         /\ \A m \in Member : team.space[m] \in Space
  BY TeamsAssumption DEF TypeOK, TeamShape

\* A delivery and a receipt keep inboxes queues of messages.
LEMMA InboxTypes ==
  ASSUME TypeOK, NEW m \in Member
  PROVE  /\ \A x \in Messages : Deliver(inbox, m, x) \in [Member -> Seq(Messages)]
         /\ HasMail(inbox, m) =>
              /\ NextMail(inbox, m) \in Messages
              /\ Received(inbox, m) \in [Member -> Seq(Messages)]
  BY DEF TypeOK, Deliver, HasMail, NextMail, Received

----------------------------------------------------------------------------
\* Types.

\* A round that has not begun, and one that has returned, is a typed one.
LEMMA IdleTyped == Idle \in RunTypes
  BY MemberFacts DEF Idle, RunTypes

\* The types hold of a team that was just built.
LEMMA InitTypes == Init => TypeInv
  <1> SUFFICES ASSUME Init PROVE TypeInv
    OBVIOUS
  <1>1. run \in [Rounds -> RunTypes]
    BY IdleTyped DEF Init
  <1>2. inbox \in [Member -> Seq(Messages)]
    BY DEF Init
  <1>3. TypeOK
    BY <1>1, <1>2 DEF Init, TypeOK
  <1>4. \A r \in Rounds : run[r].pc = "idle"
    BY DEF Init, Idle
  <1>5. QED
    BY <1>3, <1>4 DEF TypeInv, Holding, Active

\* A step that gives round r a typed record, which holds what it needs.
LEMMA RunTypesKept ==
  ASSUME TypeInv, NEW r \in Rounds, NEW x \in RunTypes,
         run' = [run EXCEPT ![r] = x],
         x.pc \in {"work", "cast"} => x.held \in Messages,
         x.pc \notin {"idle", "done", "failed"} => x.task \in Messages
  PROVE  run' \in [Rounds -> RunTypes] /\ Holding'
  <1>1. run \in [Rounds -> RunTypes] /\ run'[r] = x
        /\ \A q \in Rounds : q # r => run'[q] = run[q]
    BY DEF TypeInv, TypeOK
  <1>2. run' \in [Rounds -> RunTypes]
    BY <1>1
  <1>3. Holding'
    BY <1>1 DEF TypeInv, Holding, Active, Ended
  <1>4. QED
    BY <1>2, <1>3

\* A round that returns holds nothing.
LEMMA ReturnTypes ==
  ASSUME TypeInv, NEW r \in Rounds,
         \/ run' = Failed(r)
         \/ \E got \in Seq(Payloads) : run' = Answered(r, got)
  PROVE  run' \in [Rounds -> RunTypes] /\ Holding'
  <1>1. run[r] \in RunTypes
    BY DEF TypeInv, TypeOK
  <1>2. CASE run' = Failed(r)
    <2> DEFINE x == [Idle EXCEPT !.pc = "failed"]
    <2>1. x \in RunTypes /\ x.pc = "failed"
      BY IdleTyped DEF RunTypes
    <2>2. QED
      BY <1>2, <2>1, RunTypesKept DEF Failed
  <1>3. ASSUME NEW got \in Seq(Payloads), run' = Answered(r, got)
        PROVE  run' \in [Rounds -> RunTypes] /\ Holding'
    <2> DEFINE x == [Idle EXCEPT !.pc = "done", !.got = got,
                                 !.best = run[r].best, !.bids = run[r].bids]
    <2>1. x \in RunTypes /\ x.pc = "done"
      BY <1>1, IdleTyped DEF RunTypes
    <2>2. QED
      BY <1>3, <2>1, RunTypesKept DEF Answered
  <1>4. QED
    BY <1>2, <1>3

\* Steps of every paradigm.
LEMMA CommonTypes ==
  ASSUME TypeInv, NEW r \in Rounds, Start(r) \/ Receive(r) \/ Fail(r)
  PROVE  TypeInv'
  <1>1. run[r] \in RunTypes /\ mixed \subseteq Rounds /\ run[r].at \in Member
    BY DEF TypeInv, TypeOK, RunTypes
  <1>2. CASE Start(r)
    <2>1. PICK space \in Space, translate \in BOOLEAN, raw \in Raws :
            run' = [run EXCEPT ![r].pc = FirstStep, ![r].at = FirstMember,
                       ![r].task = Message(space, translate, Work(r, 0, raw)),
                       ![r].held = Message(space, translate, Work(r, 0, raw))]
      BY <1>2 DEF Start
    <2> DEFINE task == Message(space, translate, Work(r, 0, raw))
               x == [run[r] EXCEPT !.pc = FirstStep, !.at = FirstMember,
                                   !.task = task, !.held = task]
    <2>2. task \in Messages
      BY WorkIsMessage, MemberFacts
    <2>3. FirstStep \in {"work", "delegate"} /\ FirstMember \in Member
      BY MemberFacts DEF FirstStep, FirstMember
    <2>4. x \in RunTypes /\ x.task \in Messages /\ x.held \in Messages
      BY <1>1, <2>2, <2>3 DEF RunTypes
    <2>5. run' = [run EXCEPT ![r] = x]
      BY <2>1
    <2>6. run' \in [Rounds -> RunTypes] /\ Holding'
      BY <2>4, <2>5, RunTypesKept
    <2>7. QED
      BY <1>2, <2>6 DEF Start, ActiveRounds, TypeInv, TypeOK
  <1>3. CASE Receive(r)
    <2> DEFINE m == NextMail(inbox, run[r].at)
               x == [run[r] EXCEPT !.pc = "work", !.held = m]
    <2>1. m \in Messages /\ inbox' \in [Member -> Seq(Messages)]
      BY <1>1, <1>3, InboxTypes DEF Receive, TypeInv
    <2>2. run[r].task \in Messages
      BY <1>3 DEF Receive, TypeInv, Holding, Active, Ended
    <2>3. x \in RunTypes /\ x.held = m /\ x.task \in Messages
      BY <1>1, <2>1, <2>2 DEF RunTypes
    <2>4. run' = [run EXCEPT ![r] = x]
      BY <1>3 DEF Receive
    <2>5. run' \in [Rounds -> RunTypes] /\ Holding'
      BY <2>1, <2>3, <2>4, RunTypesKept
    <2>6. QED
      BY <1>3, <2>1, <2>5 DEF Receive, TypeInv, TypeOK
  <1>4. CASE Fail(r)
    BY <1>4, ReturnTypes DEF Fail, TypeInv, TypeOK
  <1>5. QED
    BY <1>2, <1>3, <1>4

\* A pipeline's step.
LEMMA PipelineTypes ==
  ASSUME TypeInv, NEW r \in Rounds, PipelineStage(r)
  PROVE  TypeInv'
  <1> DEFINE a == run[r].at
             held == run[r].held
             out(raw) == Message(team.space[a], held.translate,
                                 Work(held.payload.of, a, raw))
  <1>1. run[r] \in RunTypes /\ a \in Member /\ held \in Messages
        /\ run[r].task \in Messages
    BY DEF PipelineStage, TypeInv, TypeOK, RunTypes, Holding, Active, Ended
  <1>2. \A raw \in Raws : out(raw) \in Messages /\ out(raw).payload \in Payloads
    BY <1>1, MessageParts, TeamFacts, MemberFacts, WorkIsMessage DEF TypeInv
  <1>3. PICK raw \in Raws :
          IF a = N
          THEN /\ run' = Answered(r, <<out(raw).payload>>)
               /\ UNCHANGED inbox
          ELSE /\ a + 1 \in team.may[a]
               /\ inbox' = Deliver(inbox, a + 1, out(raw))
               /\ run' = [run EXCEPT ![r].pc = "recv", ![r].at = a + 1]
    BY DEF PipelineStage
  <1>4. CASE a = N
    <2>1. <<out(raw).payload>> \in Seq(Payloads)
      BY <1>2
    <2>2. run' = Answered(r, <<out(raw).payload>>)
      BY <1>3, <1>4, SMTT(30)
    <2>3. run' \in [Rounds -> RunTypes] /\ Holding'
      BY <2>1, <2>2, ReturnTypes
    <2>4. QED
      BY <1>3, <1>4, <2>3 DEF PipelineStage, TypeInv, TypeOK
  <1>5. CASE a # N
    <2> DEFINE x == [run[r] EXCEPT !.pc = "recv", !.at = a + 1]
    <2>1. a + 1 \in Member
      BY <1>1, <1>5, MemberFacts
    <2>2. x \in RunTypes /\ x.pc = "recv" /\ x.task \in Messages
      BY <1>1, <2>1 DEF RunTypes
    <2>3. run' = [run EXCEPT ![r] = x]
      BY <1>3, <1>5
    <2>4. run' \in [Rounds -> RunTypes] /\ Holding'
      BY <2>2, <2>3, RunTypesKept
    <2>5. inbox' \in [Member -> Seq(Messages)]
      BY <1>2, <1>3, <1>5, <2>1, InboxTypes DEF TypeInv
    <2>6. QED
      BY <2>4, <2>5 DEF PipelineStage, TypeInv, TypeOK
  <1>6. QED
    BY <1>4, <1>5

\* Delegating, reporting and bidding.
LEMMA SendTypes ==
  ASSUME TypeInv, NEW r \in Rounds, Delegate(r) \/ Report(r) \/ Bid(r)
  PROVE  TypeInv'
  <1> DEFINE a == run[r].at
             held == run[r].held
  <1>1. run[r] \in RunTypes /\ a \in Member /\ run[r].task \in Messages
    BY DEF Delegate, Report, Bid, TypeInv, TypeOK, RunTypes, Holding, Active, Ended
  <1>2. CASE Delegate(r)
    <2> DEFINE x == [run[r] EXCEPT !.pc = "recv"]
    <2>1. x \in RunTypes /\ x.pc = "recv" /\ x.task \in Messages
      BY <1>1 DEF RunTypes
    <2>2. run' = [run EXCEPT ![r] = x]
      BY <1>2 DEF Delegate
    <2>3. run' \in [Rounds -> RunTypes] /\ Holding'
      BY <2>1, <2>2, RunTypesKept
    <2>4. inbox' \in [Member -> Seq(Messages)]
      BY <1>1, <1>2, InboxTypes DEF Delegate, TypeInv
    <2>5. QED
      BY <1>2, <2>3, <2>4 DEF Delegate, TypeInv, TypeOK
  <1>3. CASE Report(r)
    <2> DEFINE x == [run[r] EXCEPT !.pc = "collect"]
    <2>1. held \in Messages
      BY <1>3 DEF Report, TypeInv, Holding
    <2>2. x \in RunTypes /\ x.pc = "collect" /\ x.task \in Messages
      BY <1>1 DEF RunTypes
    <2>3. run' = [run EXCEPT ![r] = x]
      BY <1>3 DEF Report
    <2>4. run' \in [Rounds -> RunTypes] /\ Holding'
      BY <2>2, <2>3, RunTypesKept
    <2>5. \A raw \in Raws : Message(team.space[a], held.translate,
                                    Work(held.payload.of, a, raw)) \in Messages
      BY <1>1, <2>1, MessageParts, TeamFacts, MemberFacts, WorkIsMessage DEF TypeInv
    <2>6. inbox' \in [Member -> Seq(Messages)]
      BY <1>3, <2>5, MemberFacts, InboxTypes DEF Report, TypeInv
    <2>7. QED
      BY <1>3, <2>4, <2>6 DEF Report, TypeInv, TypeOK
  <1>4. CASE Bid(r)
    <2>1. PICK cost \in Costs :
            /\ inbox' = Deliver(inbox, 1, Message(held.space, held.translate,
                                   EncodedBid(held.payload.of, a, cost)))
            /\ run' = [run EXCEPT ![r].pc = "collect", ![r].bids[a] = cost]
      BY <1>4 DEF Bid
    <2> DEFINE x == [run[r] EXCEPT !.pc = "collect", !.bids[a] = cost]
    <2>2. held \in Messages
      BY <1>4 DEF Bid, TypeInv, Holding
    <2>3. x \in RunTypes /\ x.pc = "collect" /\ x.task \in Messages
      BY <1>1 DEF RunTypes
    <2>4. run' = [run EXCEPT ![r] = x]
      BY <2>1
    <2>5. run' \in [Rounds -> RunTypes] /\ Holding'
      BY <2>3, <2>4, RunTypesKept
    <2>6. Message(held.space, held.translate,
                  EncodedBid(held.payload.of, a, cost)) \in Messages
      BY <1>1, <2>2, MessageParts, MemberFacts, BidIsMessage
    <2>7. inbox' \in [Member -> Seq(Messages)]
      BY <2>1, <2>6, MemberFacts, InboxTypes DEF TypeInv
    <2>8. QED
      BY <1>4, <2>5, <2>7 DEF Bid, TypeInv, TypeOK
  <1>5. QED
    BY <1>2, <1>3, <1>4

\* Collecting reports, tallying bids and executing.
LEMMA TurnTypes ==
  ASSUME TypeInv, NEW r \in Rounds, Collect(r) \/ Tally(r) \/ Execute(r)
  PROVE  TypeInv'
  <1> DEFINE m == NextMail(inbox, 1)
  <1>1. run[r] \in RunTypes /\ run[r].at \in Member /\ run[r].task \in Messages
        /\ NextMember(r) \in Member
    <2>1. run[r] \in RunTypes /\ run[r].at \in Member /\ run[r].task \in Messages
      BY DEF Collect, Tally, Execute, TypeInv, TypeOK, RunTypes, Holding, Active,
             Ended
    <2>2. QED
      BY <2>1, MemberFacts DEF NextMember, LastTurn
  <1>2. HasMail(inbox, 1) => /\ m \in Messages /\ m.payload \in Payloads
                             /\ m.payload.cost \in Costs \cup {None}
                             /\ Received(inbox, 1) \in [Member -> Seq(Messages)]
    BY MemberFacts, InboxTypes, MessageParts DEF TypeInv
  <1>3. CASE Collect(r)
    <2> DEFINE got == Append(run[r].got, m.payload)
               x == [run[r] EXCEPT !.pc = "delegate", !.at = NextMember(r),
                                   !.got = got]
    <2>1. got \in Seq(Payloads)
      BY <1>1, <1>2, <1>3 DEF Collect, RunTypes
    <2>2. x \in RunTypes /\ x.pc = "delegate" /\ x.task \in Messages
      BY <1>1, <2>1 DEF RunTypes
    <2>3. run' = Answered(r, got) \/ run' = [run EXCEPT ![r] = x]
      BY <1>3 DEF Collect
    <2>4. run' \in [Rounds -> RunTypes] /\ Holding'
      BY <2>1, <2>2, <2>3, RunTypesKept, ReturnTypes
    <2>5. QED
      BY <1>2, <1>3, <2>4 DEF Collect, TypeInv, TypeOK
  <1>4. CASE Tally(r)
    <2> DEFINE pc == IF LastTurn(r) THEN "execute" ELSE "delegate"
               best == IF Beats(m.payload.cost, run[r].best)
                       THEN [at |-> run[r].at, cost |-> m.payload.cost]
                       ELSE run[r].best
               x == [run[r] EXCEPT !.pc = pc, !.at = NextMember(r), !.best = best]
    <2>1. best \in Leaders \cup {None}
      BY <1>1, <1>2, <1>4 DEF Tally, RunTypes, Leaders
    <2>2. pc \in {"execute", "delegate"}
      OBVIOUS
    <2>3. x \in RunTypes /\ x.pc = pc /\ x.task \in Messages
      BY <1>1, <2>1, <2>2 DEF RunTypes
    <2>4. run' = [run EXCEPT ![r] = x]
      BY <1>4 DEF Tally
    <2>5. run' \in [Rounds -> RunTypes] /\ Holding'
      <3> HIDE DEF x
      <3>1. QED
        BY <2>2, <2>3, <2>4, RunTypesKept
    <2>6. QED
      BY <1>2, <1>4, <2>5 DEF Tally, TypeInv, TypeOK
  <1>5. CASE Execute(r)
    <2>1. run[r].best.at \in Member
      BY <1>1, <1>5 DEF Execute, RunTypes, Leaders
    <2>2. \A raw \in Raws : <<Work(r, run[r].best.at, raw)>> \in Seq(Payloads)
      <3>1. \A raw \in Raws : Work(r, run[r].best.at, raw) \in Payloads
        BY <2>1, MemberFacts, TeamsAssumption DEF Work, Payloads
      <3>2. QED
        BY <3>1
    <2>3. run' \in [Rounds -> RunTypes] /\ Holding'
      BY <1>5, <2>2, ReturnTypes DEF Execute
    <2>4. QED
      BY <1>5, <2>3 DEF Execute, TypeInv, TypeOK
  <1>6. QED
    BY <1>3, <1>4, <1>5

\* A swarm's steps.
LEMMA SwarmTypes ==
  ASSUME TypeInv, NEW r \in Rounds,
         Propose(r) \/ (\E m \in Member : Cast(r, m)) \/ Drain(r) \/ Agree(r)
  PROVE  TypeInv'
  <1>1. run[r] \in RunTypes /\ run[r].at \in Member /\ run[r].task \in Messages
        /\ NextMember(r) \in Member
    <2>1. run[r] \in RunTypes /\ run[r].at \in Member /\ run[r].task \in Messages
      BY DEF Propose, Cast, Drain, Agree, TypeInv, TypeOK, RunTypes, Holding,
             Active, Ended
    <2>2. QED
      BY <2>1, MemberFacts DEF NextMember, LastTurn
  <1>2. CASE Propose(r)
    <2> DEFINE a == run[r].at
               task == run[r].task
               out(raw) == Message(team.space[a], task.translate, Work(r, a, raw))
    <2>1. PICK raw \in Raws :
            run' = [run EXCEPT ![r].pc = "cast", ![r].todo = Member,
                               ![r].held = out(raw)]
      BY <1>2 DEF Propose
    <2> DEFINE x == [run[r] EXCEPT !.pc = "cast", !.todo = Member, !.held = out(raw)]
    <2>2. out(raw) \in Messages
      BY <1>1, MessageParts, TeamFacts, MemberFacts, WorkIsMessage DEF TypeInv
    <2>3. x \in RunTypes /\ x.held \in Messages /\ x.task \in Messages
      BY <1>1, <2>2 DEF RunTypes
    <2>4. run' = [run EXCEPT ![r] = x]
      BY <2>1
    <2>5. run' \in [Rounds -> RunTypes] /\ Holding'
      BY <2>3, <2>4, RunTypesKept
    <2>6. QED
      BY <1>2, <2>5 DEF Propose, TypeInv, TypeOK
  <1>3. ASSUME NEW m \in Member, Cast(r, m) PROVE TypeInv'
    <2> DEFINE last == run[r].todo = {m}
               pc == IF ~last THEN "cast"
                     ELSE IF LastTurn(r) THEN "drain" ELSE "work"
               at == IF last THEN NextMember(r) ELSE run[r].at
               x == [run[r] EXCEPT !.todo = run[r].todo \ {m}, !.pc = pc, !.at = at]
    <2>1. run[r].held \in Messages
      BY <1>3 DEF Cast, TypeInv, Holding
    <2>2. pc \in {"cast", "drain", "work"} /\ at \in Member
      BY <1>1
    <2>3. x \in RunTypes /\ x.held \in Messages /\ x.task \in Messages
      <3> HIDE DEF pc, at
      <3>1. QED
        BY <1>1, <2>1, <2>2 DEF RunTypes
    <2>4. run' = [run EXCEPT ![r] = x]
      BY <1>3 DEF Cast
    <2>5. run' \in [Rounds -> RunTypes] /\ Holding'
      <3> HIDE DEF x
      <3>1. QED
        BY <2>3, <2>4, RunTypesKept
    <2>6. inbox' \in [Member -> Seq(Messages)]
      BY <1>3, <2>1, InboxTypes DEF Cast, TypeInv
    <2>7. QED
      BY <1>3, <2>5, <2>6 DEF Cast, TypeInv, TypeOK
  <1>4. CASE Drain(r)
    <2> DEFINE m == NextMail(inbox, 1)
               x == [run[r] EXCEPT !.got = Append(run[r].got, m.payload)]
    <2>1. m.payload \in Payloads /\ inbox' \in [Member -> Seq(Messages)]
      BY <1>4, MemberFacts, InboxTypes, MessageParts DEF Drain, TypeInv
    <2>2. x \in RunTypes /\ x.pc = "drain" /\ x.task \in Messages
      <3> HIDE DEF m
      <3>1. run[r].pc = "drain"
        BY <1>4 DEF Drain
      <3>2. Append(run[r].got, m.payload) \in Seq(Payloads)
        BY <1>1, <2>1 DEF RunTypes
      <3>3. QED
        BY <1>1, <3>1, <3>2 DEF RunTypes
    <2>3. run' = [run EXCEPT ![r] = x] \/ run' = Failed(r)
      BY <1>4 DEF Drain
    <2>4. run' \in [Rounds -> RunTypes] /\ Holding'
      BY <2>2, <2>3, RunTypesKept, ReturnTypes
    <2>5. QED
      BY <1>4, <2>1, <2>4 DEF Drain, TypeInv, TypeOK
  <1>5. CASE Agree(r)
    <2>1. run[r].got \in Seq(Payloads)
      BY <1>1 DEF RunTypes
    <2>2. run' \in [Rounds -> RunTypes] /\ Holding'
      BY <1>5, <2>1, ReturnTypes DEF Agree
    <2>3. QED
      BY <1>5, <2>2 DEF Agree, TypeInv, TypeOK
  <1>6. QED
    BY <1>2, <1>3, <1>4, <1>5

\* Every step keeps the types.
LEMMA NextTypes == TypeInv /\ [Next]_vars => TypeInv'
  <1> SUFFICES ASSUME TypeInv, [Next]_vars PROVE TypeInv'
    OBVIOUS
  <1>1. ASSUME NEW r \in Rounds, Step(r) PROVE TypeInv'
    BY <1>1, CommonTypes, PipelineTypes, SendTypes, TurnTypes, SwarmTypes DEF Step
  <1>2. CASE UNCHANGED vars
    BY <1>2 DEF vars, TypeInv, TypeOK, Holding, Active, Ended
  <1>3. QED
    BY <1>1, <1>2 DEF Next, Rest

\* The variables of a team keep their types.
THEOREM TeamsTyped == Spec => []TypeOK
  <1>1. TypeInv => TypeOK
    BY DEF TypeInv
  <1>2. QED
    BY InitTypes, NextTypes, <1>1, PTL DEF Spec

----------------------------------------------------------------------------
\* Mail is awaited.

Waiting(m) == {r \in Rounds : Awaits(r, m)}

\* The rounds waiting at an inbox are finitely many.
LEMMA WaitingFinite ==
  ASSUME NEW m
  PROVE  IsFiniteSet(Waiting(m)) /\ Cardinality(Waiting(m)) \in Nat
  BY TeamsAssumption, FS_Subset, FS_CardinalityType DEF Waiting

\* One round changes, and neither waited nor waits.
LEMMA LocalKeepsMail ==
  ASSUME MailIsAwaited, UNCHANGED <<team, inbox>>, NEW r \in Rounds,
         \A q \in Rounds : q # r => run'[q] = run[q],
         \A m \in Member : ~Awaits(r, m) /\ ~Awaits(r, m)'
  PROVE  MailIsAwaited'
  <1>1. ASSUME NEW m \in Member PROVE Waiting(m)' = Waiting(m)
    BY DEF Waiting, Awaits
  <1>2. QED
    BY <1>1 DEF MailIsAwaited, Waiting

\* One round sends to an inbox where it waits from then on.
LEMMA SendKeepsMail ==
  ASSUME TypeOK, MailIsAwaited, UNCHANGED team, NEW r \in Rounds,
         NEW to \in Member, NEW msg \in Messages, inbox' = Deliver(inbox, to, msg),
         \A q \in Rounds : q # r => run'[q] = run[q],
         \A m \in Member : ~Awaits(r, m) /\ (Awaits(r, m)' <=> m = to)
  PROVE  MailIsAwaited'
  <1> SUFFICES ASSUME team.kind # "Swarm", NEW m \in Member
               PROVE  Len(inbox'[m]) = Cardinality(Waiting(m)')
    BY DEF MailIsAwaited, Waiting
  <1>1. Len(inbox[m]) = Cardinality(Waiting(m)) /\ inbox[m] \in Seq(Messages)
    BY DEF MailIsAwaited, Waiting, TypeOK
  <1>2. CASE m = to
    <2>1. Waiting(m)' = Waiting(m) \cup {r} /\ r \notin Waiting(m)
      BY <1>2 DEF Waiting, Awaits
    <2>2. Cardinality(Waiting(m)') = Cardinality(Waiting(m)) + 1
      BY <2>1, WaitingFinite, FS_AddElement
    <2>3. inbox'[m] = Append(inbox[m], msg)
      BY <1>2 DEF Deliver, TypeOK
    <2>4. QED
      BY <1>1, <2>2, <2>3
  <1>3. CASE m # to
    <2>1. Waiting(m)' = Waiting(m)
      BY <1>3 DEF Waiting, Awaits
    <2>2. inbox'[m] = inbox[m]
      BY <1>3 DEF Deliver, TypeOK
    <2>3. QED
      BY <1>1, <2>1, <2>2
  <1>4. QED
    BY <1>2, <1>3

\* One round takes a message from the inbox where it waited.
LEMMA TakeKeepsMail ==
  ASSUME TypeOK, MailIsAwaited, UNCHANGED team, NEW r \in Rounds,
         NEW from \in Member, HasMail(inbox, from), inbox' = Received(inbox, from),
         \A q \in Rounds : q # r => run'[q] = run[q],
         \A m \in Member : (Awaits(r, m) <=> m = from) /\ ~Awaits(r, m)'
  PROVE  MailIsAwaited'
  <1> SUFFICES ASSUME team.kind # "Swarm", NEW m \in Member
               PROVE  Len(inbox'[m]) = Cardinality(Waiting(m)')
    BY DEF MailIsAwaited, Waiting
  <1>1. Len(inbox[m]) = Cardinality(Waiting(m)) /\ inbox[m] \in Seq(Messages)
    BY DEF MailIsAwaited, Waiting, TypeOK
  <1>2. CASE m = from
    <2>1. Waiting(m)' = Waiting(m) \ {r} /\ r \in Waiting(m)
      BY <1>2 DEF Waiting, Awaits
    <2>2. Cardinality(Waiting(m)') = Cardinality(Waiting(m)) - 1
      BY <2>1, WaitingFinite, FS_RemoveElement
    <2>3. inbox'[m] = Tail(inbox[m]) /\ inbox[m] # <<>>
      BY <1>2 DEF Received, HasMail, TypeOK
    <2>4. QED
      BY <1>1, <2>2, <2>3
  <1>3. CASE m # from
    <2>1. Waiting(m)' = Waiting(m)
      BY <1>3 DEF Waiting, Awaits
    <2>2. inbox'[m] = inbox[m]
      BY <1>3 DEF Received, TypeOK
    <2>3. QED
      BY <1>1, <2>1, <2>2
  <1>4. QED
    BY <1>2, <1>3

\* A round that waits finds mail.
LEMMA WaitingFindsMail ==
  ASSUME TypeOK, MailIsAwaited, team.kind # "Swarm",
         NEW r \in Rounds, NEW m \in Member, Awaits(r, m)
  PROVE  HasMail(inbox, m)
  <1>1. r \in Waiting(m)
    BY DEF Waiting
  <1>2. Cardinality(Waiting(m)) # 0
    BY <1>1, WaitingFinite, FS_EmptySet
  <1>3. Len(inbox[m]) = Cardinality(Waiting(m))
    BY SMTT(30) DEF MailIsAwaited, Waiting
  <1>4. QED
    BY <1>2, <1>3 DEF HasMail

\* A round that waits for nothing before and after a step of its own.
LEMMA StepKeepsMail ==
  ASSUME TypeInv, MailIsAwaited, team.kind # "Swarm", NEW r \in Rounds, Step(r)
  PROVE  MailIsAwaited'
  <1> DEFINE a == run[r].at
  <1>1. /\ TypeOK /\ run \in [Rounds -> RunTypes] /\ run[r] \in RunTypes
        /\ a \in Member
    BY DEF TypeInv, TypeOK, RunTypes
  <1>2. CASE Start(r)
    <2>1. run[r].pc = "idle" /\ run'[r].pc \in {"work", "delegate"}
          /\ \A q \in Rounds : q # r => run'[q] = run[q]
      BY <1>1, <1>2 DEF Start, FirstStep
    <2>2. UNCHANGED <<team, inbox>>
      BY <1>2 DEF Start
    <2>3. QED
      BY <2>1, <2>2, LocalKeepsMail DEF Awaits
  <1>3. CASE Receive(r)
    <2>1. /\ run[r].pc = "recv" /\ run'[r].pc = "work"
          /\ \A q \in Rounds : q # r => run'[q] = run[q]
      BY <1>1, <1>3 DEF Receive
    <2>2. HasMail(inbox, a) /\ inbox' = Received(inbox, a) /\ UNCHANGED team
      BY <1>3 DEF Receive
    <2>3. QED
      BY <1>1, <2>1, <2>2, TakeKeepsMail DEF Awaits
  <1>4. CASE Fail(r)
    <2>1. run[r].pc \in {"work", "execute", "delegate"}
      BY <1>1, <1>4, WaitingFindsMail, MemberFacts DEF Fail, MayFail, Awaits
    <2>2. run'[r].pc = "failed" /\ \A q \in Rounds : q # r => run'[q] = run[q]
      BY <1>1, <1>4 DEF Fail, Failed, Idle
    <2>3. UNCHANGED <<team, inbox>>
      BY <1>4 DEF Fail
    <2>4. QED
      BY <2>1, <2>2, <2>3, LocalKeepsMail DEF Awaits
  <1>5. CASE PipelineStage(r)
    <2> DEFINE out(raw) == Message(team.space[a], run[r].held.translate,
                                   Work(run[r].held.payload.of, a, raw))
    <2>1. run[r].pc = "work" /\ UNCHANGED team
      BY <1>5 DEF PipelineStage
    <2>2. PICK raw \in Raws :
            IF a = N
            THEN run' = Answered(r, <<out(raw).payload>>) /\ UNCHANGED inbox
            ELSE /\ a + 1 \in team.may[a]
                 /\ inbox' = Deliver(inbox, a + 1, out(raw))
                 /\ run' = [run EXCEPT ![r].pc = "recv", ![r].at = a + 1]
      BY <1>5 DEF PipelineStage
    <2>3. CASE a = N
      <3>1. run'[r].pc = "done" /\ \A q \in Rounds : q # r => run'[q] = run[q]
        BY <1>1, <2>2, <2>3 DEF Answered, Idle
      <3>2. QED
        BY <2>1, <2>2, <2>3, <3>1, LocalKeepsMail DEF Awaits
    <2>4. CASE a # N
      <3>1. out(raw) \in Messages
        BY <1>1, <2>1, MessageParts, TeamFacts, MemberFacts, WorkIsMessage
           DEF TypeInv, Holding
      <3>2. a + 1 \in Member
        BY <1>1, <2>4, MemberFacts
      <3>3. /\ run'[r].pc = "recv" /\ run'[r].at = a + 1
            /\ \A q \in Rounds : q # r => run'[q] = run[q]
        <4>1. run' = [run EXCEPT ![r].pc = "recv", ![r].at = a + 1]
          BY <2>2, <2>4
        <4> HIDE DEF out
        <4>2. QED
          BY <1>1, <3>2, <4>1 DEF RunTypes
      <3>4. inbox' = Deliver(inbox, a + 1, out(raw))
        BY <2>2, <2>4
      <3>5. \A m \in Member : ~Awaits(r, m) /\ (Awaits(r, m)' <=> m = a + 1)
        BY <2>1, <3>3 DEF Awaits
      <3> HIDE DEF out
      <3>6. QED
        BY <1>1, <2>1, <3>1, <3>2, <3>3, <3>4, <3>5, SendKeepsMail
    <2>5. QED
      BY <2>3, <2>4
  <1>6. CASE Delegate(r)
    <2>1. /\ run[r].pc = "delegate" /\ run'[r].pc = "recv" /\ run'[r].at = a
          /\ \A q \in Rounds : q # r => run'[q] = run[q]
      BY <1>1, <1>6 DEF Delegate
    <2>2. run[r].task \in Messages
      BY <2>1 DEF TypeInv, Holding, Active, Ended
    <2>3. inbox' = Deliver(inbox, a, run[r].task) /\ UNCHANGED team
      BY <1>6 DEF Delegate
    <2>4. \A m \in Member : ~Awaits(r, m) /\ (Awaits(r, m)' <=> m = a)
      BY <2>1 DEF Awaits
    <2>5. QED
      BY <1>1, <2>1, <2>2, <2>3, <2>4, SendKeepsMail
  <1>7. ASSUME Report(r) \/ Bid(r) PROVE MailIsAwaited'
    <2>1. /\ run[r].pc = "work" /\ run'[r].pc = "collect"
          /\ \A q \in Rounds : q # r => run'[q] = run[q]
      <3>1. CASE Report(r)
        BY <1>1, <3>1 DEF Report
      <3>2. CASE Bid(r)
        <4>1. PICK cost \in Costs :
                run' = [run EXCEPT ![r].pc = "collect", ![r].bids[a] = cost]
          BY <3>2 DEF Bid
        <4>2. run'[r] = [run[r] EXCEPT !.pc = "collect", !.bids[a] = cost]
              /\ \A q \in Rounds : q # r => run'[q] = run[q]
          BY <1>1, <4>1
        <4>3. run'[r].pc = "collect"
          BY <1>1, <4>2 DEF RunTypes
        <4>4. run[r].pc = "work"
          BY <3>2 DEF Bid
        <4>5. QED
          BY <4>2, <4>3, <4>4
      <3>3. QED
        BY <1>7, <3>1, <3>2
    <2>2. run[r].held \in Messages
      BY <2>1 DEF TypeInv, Holding
    <2>3. PICK msg \in Messages : inbox' = Deliver(inbox, 1, msg)
      <3>1. CASE Report(r)
        BY <1>1, <2>2, <3>1, MessageParts, TeamFacts, MemberFacts, WorkIsMessage
           DEF Report
      <3>2. CASE Bid(r)
        BY <1>1, <2>2, <3>2, MessageParts, MemberFacts, BidIsMessage DEF Bid
      <3>3. QED
        BY <1>7, <3>1, <3>2
    <2>4. \A m \in Member : ~Awaits(r, m) /\ (Awaits(r, m)' <=> m = 1)
      BY <2>1 DEF Awaits
    <2>5. UNCHANGED team
      BY <1>7 DEF Report, Bid
    <2>6. QED
      BY <1>1, <2>1, <2>3, <2>4, <2>5, MemberFacts, SendKeepsMail
  <1>8. ASSUME Collect(r) \/ Tally(r) PROVE MailIsAwaited'
    <2>1. /\ run[r].pc = "collect"
          /\ run'[r].pc \in {"done", "delegate", "execute"}
          /\ \A q \in Rounds : q # r => run'[q] = run[q]
      <3>1. CASE Collect(r)
        BY <1>1, <3>1 DEF Collect, Answered, Idle
      <3>2. CASE Tally(r)
        <4> DEFINE pc == IF LastTurn(r) THEN "execute" ELSE "delegate"
                   best == IF Beats(NextMail(inbox, 1).payload.cost, run[r].best)
                           THEN [at |-> a, cost |-> NextMail(inbox, 1).payload.cost]
                           ELSE run[r].best
        <4>1. /\ run[r].pc = "collect"
              /\ run' = [run EXCEPT ![r].pc = pc, ![r].at = NextMember(r),
                                    ![r].best = best]
          BY <3>2 DEF Tally
        <4>2. pc \in {"execute", "delegate"}
          OBVIOUS
        <4> HIDE DEF pc, best
        <4>3. run'[r].pc = pc /\ \A q \in Rounds : q # r => run'[q] = run[q]
          BY <1>1, <4>1 DEF RunTypes
        <4>4. QED
          BY <4>1, <4>2, <4>3
      <3>3. QED
        BY <1>8, <3>1, <3>2
    <2>2. HasMail(inbox, 1) /\ inbox' = Received(inbox, 1) /\ UNCHANGED team
      BY <1>8 DEF Collect, Tally
    <2>3. \A m \in Member : (Awaits(r, m) <=> m = 1) /\ ~Awaits(r, m)'
      BY <2>1 DEF Awaits
    <2>4. QED
      BY <1>1, <2>1, <2>2, <2>3, MemberFacts, TakeKeepsMail
  <1>9. CASE Execute(r)
    <2>1. /\ run[r].pc = "execute" /\ run'[r].pc = "done"
          /\ \A q \in Rounds : q # r => run'[q] = run[q]
      BY <1>1, <1>9 DEF Execute, Answered, Idle
    <2>2. UNCHANGED <<team, inbox>>
      BY <1>9 DEF Execute
    <2>3. QED
      BY <2>1, <2>2, LocalKeepsMail DEF Awaits
  <1>10. QED
    BY <1>2, <1>3, <1>4, <1>5, <1>6, <1>7, <1>8, <1>9
       DEF Step, Propose, Cast, Drain, Agree

\* Every step keeps the mail awaited.
LEMMA NextKeepsMail == TypeInv /\ MailIsAwaited /\ [Next]_vars => MailIsAwaited'
  <1> SUFFICES ASSUME TypeInv, MailIsAwaited, [Next]_vars PROVE MailIsAwaited'
    OBVIOUS
  <1>1. UNCHANGED team
    BY ZenonT(40) DEF Next, Step, Start, Receive, Fail, PipelineStage, Delegate, Report, Bid,
           Collect, Tally, Execute, Propose, Cast, Drain, Agree, Rest, vars
  <1>2. CASE team.kind = "Swarm"
    BY <1>1, <1>2 DEF MailIsAwaited
  <1>3. CASE team.kind # "Swarm"
    <2>1. ASSUME NEW r \in Rounds, Step(r) PROVE MailIsAwaited'
      BY <1>3, <2>1, StepKeepsMail
    <2>2. CASE UNCHANGED vars
      BY <2>2 DEF vars, MailIsAwaited, Awaits
    <2>3. QED
      BY <2>1, <2>2 DEF Next, Rest
  <1>4. QED
    BY <1>2, <1>3

\* However rounds overlap, fail and are dropped, no recv of a pipeline, a
\* hierarchy or a market finds an inbox empty, and a quiet team left nothing
\* behind.
THEOREM TeamsLeaveNothing == Spec => []MailIsAwaited
  <1>1. Init => MailIsAwaited
    <2> SUFFICES ASSUME Init, NEW m \in Member
                 PROVE  Len(inbox[m]) = Cardinality(Waiting(m))
      BY DEF MailIsAwaited, Waiting
    <2>1. Waiting(m) = {}
      BY DEF Init, Idle, Waiting, Awaits
    <2>2. inbox[m] = <<>>
      BY DEF Init
    <2>3. QED
      BY <2>1, <2>2, FS_EmptySet
  <1>2. QED
    BY <1>1, InitTypes, NextTypes, NextKeepsMail, PTL DEF Spec

----------------------------------------------------------------------------
\* Solo rounds.

\* A round under way that no other has been under way with.
Solo(r) == Active(r) /\ r \notin mixed

\* Outside a swarm, what it works on and what waits for it is its own.
HandlesOwn(r) ==
    /\ run[r].task.payload.of = r
    /\ team.kind # "Swarm" =>
         /\ run[r].pc = "work" => run[r].held.payload.of = r
         /\ \A m \in Member : Awaits(r, m) => Head(inbox[m]).payload.of = r

\* A lead has the reports of the children before the one it waits for.
Gathers(r) ==
    /\ run[r].at >= 2
    /\ Len(run[r].got) = run[r].at - 2
    /\ \A i \in 1 .. run[r].at - 2 : /\ run[r].got[i].of = r
                                     /\ run[r].got[i].by = i + 1
    /\ run[r].pc = "collect" => Head(inbox[1]).payload.by = run[r].at

\* The best of the bids of the members up to last.
BestUpTo(last, best, bids) ==
    IF last = 1 THEN best = None
    ELSE /\ best # None /\ best.at \in 2 .. last
         /\ bids[best.at] = best.cost
         /\ \A m \in 2 .. last : /\ bids[m] # None
                                 /\ bids[m] >= best.cost
                                 /\ m < best.at => bids[m] > best.cost

\* An auctioneer has the best of the bids it has tallied, and waits for the next.
Tallies(r) ==
    /\ run[r].at >= 2
    /\ BestUpTo(IF run[r].pc = "execute" THEN N ELSE run[r].at - 1,
                run[r].best, run[r].bids)
    /\ run[r].pc = "collect" =>
         Head(inbox[1]).payload.cost = run[r].bids[run[r].at]

\* What peer m proposed to round r is with the first peer.
Proposed(r, m) ==
    \/ \E i \in 1 .. Len(inbox[1]) : /\ inbox[1][i].payload.of = r
                                     /\ inbox[1][i].payload.by = m
    \/ \E i \in 1 .. Len(run[r].got) : run[r].got[i].of = r /\ run[r].got[i].by = m

\* The first peer has the proposals of those whose broadcast reached it.
Proposes(r) ==
    /\ run[r].pc \in {"work", "cast", "drain"}
    /\ run[r].pc = "cast" => /\ run[r].held.payload.of = r
                             /\ run[r].held.payload.by = run[r].at
    /\ \A m \in Member :
         \/ m < run[r].at
         \/ run[r].pc = "drain"
         \/ run[r].pc = "cast" /\ m = run[r].at /\ 1 \notin run[r].todo
         => Proposed(r, m)

\* What holds of a solo round, by paradigm.
OnCourse(r) ==
    /\ HandlesOwn(r)
    /\ team.kind = "Hierarchy" => Gathers(r)
    /\ team.kind = "Market" => Tallies(r)
    /\ team.kind = "Swarm" => Proposes(r)

\* What its answer is.
Concluded(r) ==
    /\ team.kind = "Hierarchy" =>
         /\ Len(run[r].got) = N - 1
         /\ \A i \in 1 .. N - 1 : run[r].got[i].of = r /\ run[r].got[i].by = i + 1
    /\ team.kind = "Pipeline" =>
         \A i \in DOMAIN run[r].got : run[r].got[i].of = r /\ run[r].got[i].by = N
    /\ team.kind = "Market" => BestUpTo(N, run[r].best, run[r].bids)
    /\ team.kind = "Swarm" =>
         \A m \in Member : \E i \in DOMAIN run[r].got :
           run[r].got[i].of = r /\ run[r].got[i].by = m

SoloInv ==
    \A r \in Rounds :
      /\ run[r].pc = "idle" => run[r] = Idle
      /\ Solo(r) => ActiveRounds \subseteq {r} /\ OnCourse(r)
      /\ SoloDone(r) => Concluded(r)

\* A solo round's mail is alone in its inbox, and there is no other.
LEMMA SoloMail ==
  ASSUME TypeOK, MailIsAwaited, team.kind # "Swarm", NEW r \in Rounds,
         ActiveRounds \subseteq {r}, NEW m \in Member
  PROVE  Len(inbox[m]) = IF Awaits(r, m) THEN 1 ELSE 0
  <1>1. Len(inbox[m]) = Cardinality(Waiting(m))
    BY DEF MailIsAwaited, Waiting
  <1>2. \A q \in Waiting(m) : q = r
    BY DEF Waiting, Awaits, ActiveRounds, Active, Ended
  <1>3. CASE Awaits(r, m)
    <2>1. Waiting(m) = {r}
      BY <1>2, <1>3 DEF Waiting
    <2>2. QED
      BY <1>1, <1>3, <2>1, FS_Singleton
  <1>4. CASE ~Awaits(r, m)
    <2>1. Waiting(m) = {}
      BY <1>2, <1>4 DEF Waiting
    <2>2. QED
      BY <1>1, <1>4, <2>1, FS_EmptySet
  <1>5. QED
    BY <1>3, <1>4

\* What is sent to an empty inbox is at its head.
LEMMA FirstMail ==
  ASSUME TypeOK, NEW m \in Member, Len(inbox[m]) = 0, NEW msg \in Messages,
         inbox' = Deliver(inbox, m, msg)
  PROVE  /\ Head(inbox'[m]) = msg
         /\ \A k \in Member : k # m => inbox'[k] = inbox[k]
  <1>1. inbox \in [Member -> Seq(Messages)]
    BY DEF TypeOK
  <1>2. inbox[m] = <<>>
    BY <1>1
  <1>3. inbox'[m] = <<msg>>
    BY <1>1, <1>2 DEF Deliver
  <1>4. QED
    BY <1>1, <1>3 DEF Deliver

\* A step of round r keeps the solo rounds on course if it keeps r so: other
\* rounds are not solo when r is under way.
LEMMA SoloKept ==
  ASSUME SoloInv, NEW r \in Rounds, team' = team, mixed \subseteq mixed',
         \A q \in Rounds : q # r => run'[q] = run[q],
         ~Ended(r), run'[r].pc # "idle",
         run[r].pc = "idle" =>
           ActiveRounds = {} \/ ActiveRounds \cup {r} \subseteq mixed',
         Active(r)' /\ r \notin mixed' /\ ActiveRounds \subseteq {r} => OnCourse(r)',
         SoloDone(r)' => Concluded(r)'
  PROVE  SoloInv'
  <1>1. ASSUME NEW q \in Rounds, q # r, Solo(q)'
        PROVE  FALSE
    <2>1. Solo(q) /\ q \in ActiveRounds
      BY <1>1 DEF Solo, Active, Ended, ActiveRounds
    <2>2. CASE run[r].pc = "idle"
      BY <1>1, <2>1, <2>2 DEF Solo
    <2>3. CASE run[r].pc # "idle"
      <3>1. r \in ActiveRounds
        BY <2>3 DEF ActiveRounds, Active
      <3>2. QED
        BY <1>1, <2>1, <3>1 DEF SoloInv
    <2>4. QED
      BY <2>2, <2>3
  <1>2. ASSUME Solo(r)' PROVE ActiveRounds \subseteq {r}
    <2>1. r \notin mixed'
      BY <1>2 DEF Solo
    <2>2. CASE run[r].pc = "idle"
      BY <2>1, <2>2
    <2>3. CASE run[r].pc # "idle"
      BY <2>1, <2>3 DEF SoloInv, Solo, Active
    <2>4. QED
      BY <2>2, <2>3
  <1>3. ASSUME Solo(r)' PROVE ActiveRounds' \subseteq {r} /\ OnCourse(r)'
    <2>1. ActiveRounds' \subseteq ActiveRounds \cup {r}
      BY DEF ActiveRounds, Active, Ended
    <2>2. QED
      BY <1>2, <1>3, <2>1 DEF Solo
  <1>4. ASSUME NEW q \in Rounds, q # r, SoloDone(q)'
        PROVE  Concluded(q)'
    <2>1. run'[q] = run[q] /\ SoloDone(q)
      BY <1>4 DEF SoloDone
    <2>2. Concluded(q)
      BY <2>1 DEF SoloInv
    <2>3. QED
      BY <2>1, <2>2 DEF Concluded, BestUpTo
  <1>5. \A q \in Rounds : run'[q].pc = "idle" => run'[q] = Idle
    BY DEF SoloInv
  <1>6. QED
    BY <1>1, <1>3, <1>4, <1>5 DEF SoloInv

\* A step of round r once it is under way.
LEMMA SoloGoesOn ==
  ASSUME SoloInv, NEW r \in Rounds, team' = team, mixed' = mixed,
         \A q \in Rounds : q # r => run'[q] = run[q],
         Active(r), run'[r].pc # "idle",
         Solo(r) /\ ActiveRounds \subseteq {r} /\ OnCourse(r) =>
           /\ Active(r)' => OnCourse(r)'
           /\ run'[r].pc = "done" => Concluded(r)'
  PROVE  SoloInv'
  <1>1. run[r].pc # "idle" /\ ~Ended(r)
    BY DEF Active
  <1>2. Solo(r) => ActiveRounds \subseteq {r} /\ OnCourse(r)
    BY DEF SoloInv
  <1>3. Active(r)' /\ r \notin mixed' => Solo(r) /\ OnCourse(r)'
    BY <1>2 DEF Solo
  <1>4. SoloDone(r)' => Concluded(r)'
    BY <1>2 DEF Solo, SoloDone
  <1>5. QED
    BY <1>1, <1>3, <1>4, SoloKept

\* A round begins alone, or is never solo.
LEMMA StartSolo ==
  ASSUME TypeInv, MailIsAwaited, SoloInv, NEW r \in Rounds, Start(r)
  PROVE  SoloInv'
  <1>1. /\ run \in [Rounds -> RunTypes] /\ run[r] = Idle /\ ~Ended(r)
        /\ run[r].pc = "idle" /\ UNCHANGED <<team, inbox>>
        /\ mixed' = IF ActiveRounds = {} THEN mixed
                    ELSE mixed \cup ActiveRounds \cup {r}
    BY DEF TypeInv, TypeOK, Start, SoloInv, Ended
  <1>2. PICK task :
          /\ task.payload.of = r
          /\ run' = [run EXCEPT ![r].pc = FirstStep, ![r].at = FirstMember,
                                ![r].task = task, ![r].held = task]
    BY DEF Start, Message, Work
  <1>3. /\ run'[r].pc = FirstStep /\ run'[r].at = FirstMember
        /\ run'[r].task = task /\ run'[r].held = task
        /\ run'[r].got = <<>> /\ run'[r].best = None
        /\ \A q \in Rounds : q # r => run'[q] = run[q]
    BY <1>1, <1>2 DEF Idle
  <1>4. FirstStep \in {"work", "delegate"}
    BY DEF FirstStep
  <1>5. HandlesOwn(r)'
    BY <1>2, <1>3, <1>4 DEF HandlesOwn, Awaits
  <1>6. team.kind = "Hierarchy" => Gathers(r)'
    BY <1>3 DEF Gathers, FirstStep, FirstMember
  <1>7. team.kind = "Market" => Tallies(r)'
    BY <1>3 DEF Tallies, BestUpTo, FirstStep, FirstMember
  <1>8. team.kind = "Swarm" => Proposes(r)'
    <2> SUFFICES ASSUME team.kind = "Swarm" PROVE Proposes(r)'
      OBVIOUS
    <2>1. run'[r].pc = "work" /\ run'[r].at = 1
      BY <1>3 DEF FirstStep, FirstMember
    <2>2. \A m \in Member : ~(m < 1)
      BY DEF Member
    <2>3. QED
      BY <2>1, <2>2 DEF Proposes
  <1>9. OnCourse(r)'
    BY <1>1, <1>5, <1>6, <1>7, <1>8 DEF OnCourse
  <1>10. run'[r].pc \notin {"idle", "done", "failed"}
    BY <1>3, <1>4
  <1>11. QED
    BY <1>1, <1>3, <1>9, <1>10, SoloKept DEF SoloDone

\* A round that fails concludes nothing.
LEMMA FailSolo ==
  ASSUME TypeInv, SoloInv, NEW r \in Rounds, Fail(r)
  PROVE  SoloInv'
  <1>1. /\ run'[r].pc = "failed" /\ \A q \in Rounds : q # r => run'[q] = run[q]
        /\ UNCHANGED <<team, mixed>>
    BY DEF TypeInv, TypeOK, Fail, Failed, Idle
  <1>2. Active(r)
    BY DEF Fail, MayFail, Active, Ended
  <1>3. QED
    BY <1>1, <1>2, SoloGoesOn DEF Active, Ended

\* A solo round receives what was sent for it.
LEMMA ReceiveSolo ==
  ASSUME TypeInv, SoloInv, NEW r \in Rounds, Receive(r)
  PROVE  SoloInv'
  <1>1. /\ TypeOK /\ run \in [Rounds -> RunTypes] /\ run[r] \in RunTypes
        /\ run[r].pc = "recv" /\ run[r].at \in Member /\ Active(r)
        /\ UNCHANGED <<team, mixed>>
    BY DEF TypeInv, TypeOK, Receive, RunTypes, Active, Ended
  <1>2. /\ run'[r].pc = "work" /\ run'[r].held = Head(inbox[run[r].at])
        /\ run'[r].task = run[r].task /\ run'[r].at = run[r].at
        /\ run'[r].got = run[r].got /\ run'[r].best = run[r].best
        /\ run'[r].bids = run[r].bids
        /\ \A q \in Rounds : q # r => run'[q] = run[q]
    BY <1>1 DEF Receive, NextMail, RunTypes
  <1>3. ASSUME OnCourse(r) PROVE OnCourse(r)'
    <2>1. team.kind # "Swarm"
      BY <1>1, <1>3 DEF OnCourse, Proposes
    <2>2. HandlesOwn(r)'
      BY <1>1, <1>2, <1>3, <2>1 DEF OnCourse, HandlesOwn, Awaits
    <2>3. team.kind = "Hierarchy" => Gathers(r)'
      BY <1>1, <1>2, <1>3 DEF OnCourse, Gathers
    <2>4. team.kind = "Market" => Tallies(r)'
      BY <1>1, <1>2, <1>3 DEF OnCourse, Tallies, BestUpTo
    <2>5. QED
      BY <1>1, <2>1, <2>2, <2>3, <2>4 DEF OnCourse
  <1>4. QED
    BY <1>1, <1>2, <1>3, SoloGoesOn

\* A stage of a solo pipeline hands on its own work.
LEMMA PipelineSolo ==
  ASSUME TypeInv, MailIsAwaited, SoloInv, NEW r \in Rounds, PipelineStage(r)
  PROVE  SoloInv'
  <1> DEFINE a == run[r].at
             held == run[r].held
             out(raw) == Message(team.space[a], held.translate,
                                 Work(held.payload.of, a, raw))
  <1>1. /\ TypeOK /\ run \in [Rounds -> RunTypes] /\ run[r] \in RunTypes
        /\ a \in Member /\ held \in Messages /\ run[r].pc = "work" /\ Active(r)
        /\ team.kind = "Pipeline" /\ UNCHANGED <<team, mixed>>
    BY DEF PipelineStage, TypeInv, TypeOK, RunTypes, Holding, Active, Ended
  <1>2. PICK raw \in Raws :
          IF a = N
          THEN run' = Answered(r, <<out(raw).payload>>) /\ UNCHANGED inbox
          ELSE /\ inbox' = Deliver(inbox, a + 1, out(raw))
               /\ run' = [run EXCEPT ![r].pc = "recv", ![r].at = a + 1]
    BY DEF PipelineStage
  <1>3. PICK msg \in Messages :
          /\ msg = out(raw)
          /\ msg.payload.of = held.payload.of /\ msg.payload.by = a
    <2>1. out(raw) \in Messages
      BY <1>1, MessageParts, TeamFacts, MemberFacts, WorkIsMessage
    <2>2. out(raw).payload.of = held.payload.of /\ out(raw).payload.by = a
      BY DEF Message, Work
    <2>3. QED
      BY <2>1, <2>2
  <1>4. CASE a = N
    <2>1. run' = Answered(r, <<msg.payload>>)
      BY <1>2, <1>3, <1>4
    <2>2. /\ run'[r].pc = "done" /\ run'[r].got = <<msg.payload>>
          /\ \A q \in Rounds : q # r => run'[q] = run[q]
      BY <1>1, <2>1 DEF Answered, Idle
    <2>3. ASSUME OnCourse(r) PROVE Concluded(r)'
      <3>1. msg.payload.of = r /\ msg.payload.by = N
        BY <1>1, <1>3, <1>4, <2>3 DEF OnCourse, HandlesOwn
      <3>2. \A i \in DOMAIN <<msg.payload>> : <<msg.payload>>[i] = msg.payload
        OBVIOUS
      <3>3. QED
        BY <1>1, <2>2, <3>1, <3>2 DEF Concluded
    <2>4. QED
      BY <1>1, <2>2, <2>3, SoloGoesOn DEF Active, Ended
  <1>5. CASE a # N
    <2>1. PICK b \in Member : b = a + 1
      BY <1>1, <1>5, MemberFacts
    <2>2. inbox' = Deliver(inbox, b, msg)
          /\ run' = [run EXCEPT ![r].pc = "recv", ![r].at = b]
      BY <1>2, <1>3, <1>5, <2>1
    <2>3. /\ run'[r].pc = "recv" /\ run'[r].at = b /\ run'[r].task = run[r].task
          /\ \A q \in Rounds : q # r => run'[q] = run[q]
      BY <1>1, <2>2 DEF RunTypes
    <2>4. ASSUME OnCourse(r), ActiveRounds \subseteq {r} PROVE OnCourse(r)'
      <3>1. Len(inbox[b]) = 0
        BY <1>1, <2>4, SoloMail DEF Awaits
      <3>2. Head(inbox'[b]) = msg
        BY <1>1, <2>2, <3>1, FirstMail
      <3>3. HandlesOwn(r)'
        BY <1>1, <1>3, <2>3, <2>4, <3>2 DEF OnCourse, HandlesOwn, Awaits
      <3>4. QED
        BY <1>1, <3>3 DEF OnCourse
    <2>5. QED
      BY <1>1, <2>3, <2>4, SoloGoesOn
  <1>6. QED
    BY <1>4, <1>5

\* The lead delegates, and the auctioneer announces, their own task.
LEMMA DelegateSolo ==
  ASSUME TypeInv, MailIsAwaited, SoloInv, NEW r \in Rounds, Delegate(r)
  PROVE  SoloInv'
  <1>1. /\ TypeOK /\ run \in [Rounds -> RunTypes] /\ run[r] \in RunTypes
        /\ run[r].pc = "delegate" /\ Active(r) /\ run[r].task \in Messages
        /\ team.kind \in {"Hierarchy", "Market"} /\ UNCHANGED <<team, mixed>>
    BY DEF Delegate, TypeInv, TypeOK, RunTypes, Holding, Active, Ended
  <1>2. PICK a \in Member, msg \in Messages : a = run[r].at /\ msg = run[r].task
    BY <1>1 DEF RunTypes
  <1>3. inbox' = Deliver(inbox, a, msg) /\ run' = [run EXCEPT ![r].pc = "recv"]
    BY <1>2 DEF Delegate
  <1>4. /\ run'[r].pc = "recv" /\ run'[r].at = a /\ run'[r].task = msg
        /\ run'[r].got = run[r].got /\ run'[r].best = run[r].best
        /\ run'[r].bids = run[r].bids
        /\ \A q \in Rounds : q # r => run'[q] = run[q]
    BY <1>1, <1>2, <1>3 DEF RunTypes
  <1>5. ASSUME OnCourse(r), ActiveRounds \subseteq {r} PROVE OnCourse(r)'
    <2>1. Len(inbox[a]) = 0
      BY <1>1, <1>5, SoloMail DEF Awaits
    <2>2. Head(inbox'[a]) = msg
      BY <1>1, <1>3, <2>1, FirstMail
    <2>3. HandlesOwn(r)'
      BY <1>1, <1>2, <1>4, <1>5, <2>2 DEF OnCourse, HandlesOwn, Awaits
    <2>4. team.kind = "Hierarchy" => Gathers(r)'
      BY <1>1, <1>2, <1>4, <1>5 DEF OnCourse, Gathers
    <2>5. team.kind = "Market" => Tallies(r)'
      BY <1>1, <1>2, <1>4, <1>5 DEF OnCourse, Tallies, BestUpTo
    <2>6. QED
      BY <1>1, <2>3, <2>4, <2>5 DEF OnCourse
  <1>6. QED
    BY <1>1, <1>4, <1>5, SoloGoesOn

\* A child of a solo round reports to its lead.
LEMMA ReportSolo ==
  ASSUME TypeInv, MailIsAwaited, SoloInv, NEW r \in Rounds, Report(r)
  PROVE  SoloInv'
  <1>1. /\ TypeOK /\ run \in [Rounds -> RunTypes] /\ run[r] \in RunTypes
        /\ run[r].pc = "work" /\ Active(r) /\ run[r].held \in Messages
        /\ team.kind = "Hierarchy" /\ UNCHANGED <<team, mixed>>
        /\ run' = [run EXCEPT ![r].pc = "collect"] /\ 1 \in Member
    BY MemberFacts DEF Report, TypeInv, TypeOK, RunTypes, Holding, Active, Ended
  <1>2. PICK a \in Member : a = run[r].at
    BY <1>1 DEF RunTypes
  <1>3. PICK msg \in Messages :
          /\ msg.payload.of = run[r].held.payload.of /\ msg.payload.by = a
          /\ inbox' = Deliver(inbox, 1, msg)
    <2> DEFINE out(raw) == Message(team.space[a], run[r].held.translate,
                                   Work(run[r].held.payload.of, a, raw))
    <2>1. PICK raw \in Raws : inbox' = Deliver(inbox, 1, out(raw))
      BY <1>2 DEF Report
    <2>2. out(raw) \in Messages
      BY <1>1, MessageParts, TeamFacts, MemberFacts, WorkIsMessage
    <2>3. out(raw).payload.of = run[r].held.payload.of /\ out(raw).payload.by = a
      BY DEF Message, Work
    <2>4. QED
      BY <2>1, <2>2, <2>3
  <1>4. /\ run'[r].pc = "collect" /\ run'[r].at = a /\ run'[r].task = run[r].task
        /\ run'[r].got = run[r].got
        /\ \A q \in Rounds : q # r => run'[q] = run[q]
    BY <1>1, <1>2 DEF RunTypes
  <1>5. ASSUME OnCourse(r), ActiveRounds \subseteq {r} PROVE OnCourse(r)'
    <2>1. Len(inbox[1]) = 0
      BY <1>1, <1>5, SoloMail DEF Awaits
    <2>2. Head(inbox'[1]) = msg
      BY <1>1, <1>3, <2>1, FirstMail
    <2>3. HandlesOwn(r)'
      BY <1>1, <1>3, <1>4, <1>5, <2>2 DEF OnCourse, HandlesOwn, Awaits
    <2>4. Gathers(r)'
      BY <1>1, <1>2, <1>3, <1>4, <1>5, <2>2 DEF OnCourse, Gathers
    <2>5. QED
      BY <1>1, <2>3, <2>4 DEF OnCourse
  <1>6. QED
    BY <1>1, <1>4, <1>5, SoloGoesOn

\* A bidder of a solo round bids.
LEMMA BidSolo ==
  ASSUME TypeInv, MailIsAwaited, SoloInv, NEW r \in Rounds, Bid(r)
  PROVE  SoloInv'
  <1>1. /\ TypeOK /\ run \in [Rounds -> RunTypes] /\ run[r] \in RunTypes
        /\ run[r].pc = "work" /\ Active(r) /\ run[r].held \in Messages
        /\ team.kind = "Market" /\ UNCHANGED <<team, mixed>> /\ 1 \in Member
    BY MemberFacts, SMTT(30) DEF Bid, TypeInv, TypeOK, RunTypes, Holding, Active, Ended
  <1>2. PICK a \in Member : a = run[r].at
    BY <1>1 DEF RunTypes
  <1>3. PICK cost \in Costs, msg \in Messages :
          /\ msg.payload.of = run[r].held.payload.of /\ msg.payload.cost = cost
          /\ inbox' = Deliver(inbox, 1, msg)
          /\ run' = [run EXCEPT ![r].pc = "collect", ![r].bids[a] = cost]
    <2> DEFINE out(cost) == Message(run[r].held.space, run[r].held.translate,
                                    EncodedBid(run[r].held.payload.of, a, cost))
    <2>1. PICK cost \in Costs :
            /\ inbox' = Deliver(inbox, 1, out(cost))
            /\ run' = [run EXCEPT ![r].pc = "collect", ![r].bids[a] = cost]
      BY <1>2 DEF Bid
    <2>2. out(cost) \in Messages
      BY <1>1, MessageParts, MemberFacts, BidIsMessage
    <2>3. out(cost).payload.of = run[r].held.payload.of
          /\ out(cost).payload.cost = cost
      BY DEF Message, EncodedBid
    <2>4. QED
      BY <2>1, <2>2, <2>3
  <1>4. /\ run'[r].pc = "collect" /\ run'[r].at = a /\ run'[r].task = run[r].task
        /\ run'[r].best = run[r].best
        /\ run'[r].bids = [run[r].bids EXCEPT ![a] = cost]
        /\ \A q \in Rounds : q # r => run'[q] = run[q]
    BY <1>1, <1>2, <1>3 DEF RunTypes
  <1>5. ASSUME OnCourse(r), ActiveRounds \subseteq {r} PROVE OnCourse(r)'
    <2>1. Len(inbox[1]) = 0
      BY <1>1, <1>5, SoloMail DEF Awaits
    <2>2. Head(inbox'[1]) = msg
      BY <1>1, <1>3, <2>1, FirstMail
    <2>3. HandlesOwn(r)'
      BY <1>1, <1>3, <1>4, <1>5, <2>2 DEF OnCourse, HandlesOwn, Awaits
    <2>4. PICK bids, best : bids = run[r].bids /\ best = run[r].best
      OBVIOUS
    <2>5. bids \in [Member -> Costs \cup {None}] /\ a \in Nat
      BY <1>1, <2>4, MemberFacts DEF RunTypes
    <2>6. a >= 2 /\ BestUpTo(a - 1, best, bids)
      BY <1>1, <1>2, <1>5, <2>4 DEF OnCourse, Tallies
    <2>7. BestUpTo(a - 1, best, [bids EXCEPT ![a] = cost])
      <3>1. \A m \in 2 .. a - 1 : m # a /\ m \in Member
        BY MemberFacts DEF Member
      <3>2. \A m \in 2 .. a - 1 : [bids EXCEPT ![a] = cost][m] = bids[m]
        BY <2>5, <3>1
      <3>3. QED
        BY <2>6, <3>2 DEF BestUpTo
    <2>8. [bids EXCEPT ![a] = cost][a] = cost
      BY <2>5
    <2>9. Tallies(r)'
      BY <1>3, <1>4, <2>2, <2>4, <2>6, <2>7, <2>8 DEF Tallies
    <2>10. QED
      BY <1>1, <2>3, <2>9 DEF OnCourse
  <1>6. QED
    BY <1>1, <1>4, <1>5, SoloGoesOn

\* The lead of a solo round collects the reports of its children in order.
LEMMA CollectSolo ==
  ASSUME TypeInv, MailIsAwaited, SoloInv, NEW r \in Rounds, Collect(r)
  PROVE  SoloInv'
  <1>1. /\ TypeOK /\ run \in [Rounds -> RunTypes] /\ run[r] \in RunTypes
        /\ run[r].pc = "collect" /\ Active(r) /\ HasMail(inbox, 1)
        /\ team.kind = "Hierarchy" /\ UNCHANGED <<team, mixed>> /\ 1 \in Member
    BY MemberFacts DEF Collect, TypeInv, TypeOK, Active, Ended
  <1>2. PICK a \in Nat, got \in Seq(Payloads), p \in Payloads :
          /\ a = run[r].at /\ got = run[r].got /\ p = Head(inbox[1]).payload
          /\ a \in Member
    BY <1>1, InboxTypes, MessageParts, MemberFacts DEF RunTypes, NextMail
  <1>3. run' = IF a = N THEN Answered(r, Append(got, p))
               ELSE [run EXCEPT ![r].pc = "delegate", ![r].at = a + 1,
                                ![r].got = Append(got, p)]
    BY <1>2 DEF Collect, LastTurn, NextMember, NextMail
  <1>4. ASSUME OnCourse(r)
        PROVE  /\ a >= 2 /\ Len(Append(got, p)) = a - 1
               /\ \A i \in 1 .. a - 1 : /\ Append(got, p)[i].of = r
                                        /\ Append(got, p)[i].by = i + 1
    <2>1. /\ a >= 2 /\ Len(got) = a - 2
          /\ \A i \in 1 .. a - 2 : got[i].of = r /\ got[i].by = i + 1
          /\ p.by = a /\ p.of = r
      BY <1>1, <1>2, <1>4 DEF OnCourse, Gathers, HandlesOwn, Awaits
    <2>2. Len(Append(got, p)) = a - 1
      BY <2>1
    <2>3. ASSUME NEW i \in 1 .. a - 1
          PROVE  Append(got, p)[i].of = r /\ Append(got, p)[i].by = i + 1
      <3>1. CASE i = a - 1
        <4>1. Append(got, p)[i] = p /\ i + 1 = a
          BY <2>1, <3>1
        <4>2. QED
          BY <2>1, <4>1
      <3>2. CASE i # a - 1
        <4>1. i \in 1 .. a - 2 /\ Append(got, p)[i] = got[i]
          BY <2>1, <3>2
        <4>2. QED
          BY <2>1, <4>1
      <3>3. QED
        BY <3>1, <3>2
    <2>4. QED
      BY <2>1, <2>2, <2>3
  <1>5. PICK all \in Seq(Payloads) : all = Append(got, p)
    <2>1. Append(got, p) \in Seq(Payloads)
      BY <1>2
    <2>2. QED
      BY <2>1
  <1>6. CASE a = N
    <2>1. /\ run'[r].pc = "done" /\ run'[r].got = all
          /\ \A q \in Rounds : q # r => run'[q] = run[q]
      BY <1>1, <1>3, <1>5, <1>6 DEF Answered, Idle
    <2>2. OnCourse(r) => Concluded(r)'
      BY <1>1, <1>4, <1>5, <1>6, <2>1 DEF Concluded
    <2>3. QED
      BY <1>1, <2>1, <2>2, SoloGoesOn DEF Active, Ended
  <1>7. CASE a # N
    <2>1. PICK b \in Nat : b = a + 1
      OBVIOUS
    <2>2. run' = [run EXCEPT ![r].pc = "delegate", ![r].at = b, ![r].got = all]
      BY <1>3, <1>5, <1>7, <2>1
    <2>3. /\ run'[r].pc = "delegate" /\ run'[r].at = b /\ run'[r].got = all
          /\ run'[r].task = run[r].task
          /\ \A q \in Rounds : q # r => run'[q] = run[q]
      BY <1>1, <2>2 DEF RunTypes
    <2>4. ASSUME OnCourse(r) PROVE OnCourse(r)'
      <3>1. /\ b >= 2 /\ Len(all) = b - 2
            /\ \A i \in 1 .. b - 2 : all[i].of = r /\ all[i].by = i + 1
        <4>1. b - 2 = a - 1 /\ a >= 2
          BY <1>4, <2>1, <2>4
        <4>2. QED
          BY <1>4, <1>5, <2>1, <2>4, <4>1
      <3>2. Gathers(r)'
        BY <2>3, <3>1 DEF Gathers
      <3>3. HandlesOwn(r)'
        BY <1>1, <2>3, <2>4 DEF OnCourse, HandlesOwn, Awaits
      <3>4. QED
        BY <1>1, <3>2, <3>3 DEF OnCourse
    <2>5. QED
      BY <1>1, <2>3, <2>4, SoloGoesOn
  <1>8. QED
    BY <1>6, <1>7

\* Somebody who leads is not nobody.
LEMMA LeaderIsSome ==
  ASSUME NEW a \in Member, NEW cost \in Costs
  PROVE  [at |-> a, cost |-> cost] # None
  <1>1. [at |-> a, cost |-> cost] \in Leaders
    BY DEF Leaders
  <1>2. QED
    BY <1>1, TeamsAssumption

\* With one more bid tallied, the best so far is the best of one more.
LEMMA BestGrows ==
  ASSUME NEW a \in Member, a >= 2, NEW bids \in [Member -> Costs \cup {None}],
         NEW best \in Leaders \cup {None}, bids[a] # None,
         BestUpTo(a - 1, best, bids)
  PROVE  BestUpTo(a, IF Beats(bids[a], best) THEN [at |-> a, cost |-> bids[a]]
                     ELSE best, bids)
  <1>1. a \in Nat /\ bids[a] \in Nat /\ bids[a] \in Costs /\ a # 1
    <2>1. bids[a] \in Costs
      OBVIOUS
    <2>2. bids[a] \in Nat
      BY <2>1, TeamsAssumption
    <2>3. a \in Nat
      BY MemberFacts
    <2>4. QED
      BY <2>1, <2>2, <2>3
  <1>2. \A m \in 2 .. a : m \in Member /\ m \in Nat /\ (m = a \/ m \in 2 .. a - 1)
    BY <1>1, MemberFacts DEF Member
  <1>3. CASE a = 2
    <2>1. best = None
      BY <1>3 DEF BestUpTo
    <2>2. \A m \in 2 .. a : m = a
      BY <1>3
    <2>3. a \in 2 .. a /\ bids[a] >= bids[a] /\ ~(a < a)
      BY <1>1, <1>3
    <2>4. [at |-> a, cost |-> bids[a]] # None
      BY <1>1, LeaderIsSome
    <2>5. QED
      BY <1>1, <2>1, <2>2, <2>3, <2>4 DEF BestUpTo, Beats
  <1>4. CASE a # 2
    <2>1. /\ best # None /\ best.at \in 2 .. a - 1 /\ bids[best.at] = best.cost
          /\ \A m \in 2 .. a - 1 : /\ bids[m] # None /\ bids[m] >= best.cost
                                   /\ m < best.at => bids[m] > best.cost
      BY <1>1, <1>4 DEF BestUpTo
    <2>2. PICK c \in Nat, b \in Nat : c = best.cost /\ b = bids[a] /\ b \in Costs
      <3>1. best.cost \in Costs /\ bids[a] \in Costs
        BY <2>1 DEF Leaders
      <3>2. QED
        BY <3>1, TeamsAssumption
    <2>3. \A m \in 2 .. a - 1 : bids[m] \in Nat /\ m < a /\ m \in 2 .. a
      <3>1. \A m \in 2 .. a - 1 : m < a /\ m \in 2 .. a
        BY <1>1
      <3>2. QED
        BY <1>2, <2>1, <3>1, TeamsAssumption
    <2>4. CASE b < c
      <3> DEFINE new == [at |-> a, cost |-> b]
      <3>1. Beats(bids[a], best)
        BY <2>1, <2>2, <2>4 DEF Beats
      <3>2. \A m \in 2 .. a - 1 : bids[m] > b /\ bids[m] >= b
        BY <2>1, <2>2, <2>3, <2>4
      <3>3. a \in 2 .. a /\ b >= b /\ ~(a < a)
        BY <1>1
      <3>4. \A m \in 2 .. a : /\ bids[m] # None /\ bids[m] >= b
                              /\ m < a => bids[m] > b
        BY <1>2, <2>1, <2>2, <3>2, <3>3
      <3>5. new.at = a /\ new.cost = b
        OBVIOUS
      <3>6. new # None
        BY <2>2, LeaderIsSome
      <3>7. QED
        BY <1>1, <2>2, <3>1, <3>3, <3>4, <3>5, <3>6 DEF BestUpTo
    <2>5. CASE ~(b < c)
      <3>1. ~Beats(bids[a], best)
        BY <2>1, <2>2, <2>5 DEF Beats
      <3>2. b >= c /\ best.at \in 2 .. a /\ ~(a < best.at)
        BY <1>1, <2>1, <2>2, <2>5
      <3>3. \A m \in 2 .. a : /\ bids[m] # None /\ bids[m] >= c
                              /\ m < best.at => bids[m] > c
        BY <1>2, <2>1, <2>2, <3>2
      <3>4. QED
        BY <1>1, <2>1, <2>2, <3>1, <3>2, <3>3 DEF BestUpTo
    <2>6. QED
      BY <2>4, <2>5
  <1>5. QED
    BY <1>3, <1>4

\* The auctioneer of a solo round tallies the bids in order.
LEMMA TallySolo ==
  ASSUME TypeInv, MailIsAwaited, SoloInv, NEW r \in Rounds, Tally(r)
  PROVE  SoloInv'
  <1>1. /\ TypeOK /\ run \in [Rounds -> RunTypes] /\ run[r] \in RunTypes
        /\ run[r].pc = "collect" /\ Active(r) /\ HasMail(inbox, 1)
        /\ team.kind = "Market" /\ UNCHANGED <<team, mixed>> /\ 1 \in Member
    BY MemberFacts DEF Tally, TypeInv, TypeOK, Active, Ended
  <1>2. PICK a \in Member, best \in Leaders \cup {None},
             bids \in [Member -> Costs \cup {None}], bid \in Costs :
          /\ a = run[r].at /\ best = run[r].best /\ bids = run[r].bids
          /\ bid = Head(inbox[1]).payload.cost
    <2>1. Head(inbox[1]).payload.cost \in Costs
      BY <1>1, InboxTypes, MessageParts DEF NextMail, Tally
    <2>2. QED
      BY <1>1, <2>1 DEF RunTypes
  <1>3. PICK new : new = IF Beats(bid, best) THEN [at |-> a, cost |-> bid] ELSE best
    OBVIOUS
  <1>4. PICK b \in Member, pc \in {"execute", "delegate"} :
          /\ pc = IF a = N THEN "execute" ELSE "delegate"
          /\ b = IF a = N THEN N ELSE a + 1
    BY MemberFacts
  <1>5. run' = [run EXCEPT ![r].pc = pc, ![r].at = b, ![r].best = new]
    BY <1>2, <1>3, <1>4 DEF Tally, LastTurn, NextMember, NextMail
  <1>6. /\ run'[r].pc = pc /\ run'[r].at = b /\ run'[r].best = new
        /\ run'[r].bids = bids /\ run'[r].task = run[r].task
        /\ \A q \in Rounds : q # r => run'[q] = run[q]
    BY <1>1, <1>2, <1>5 DEF RunTypes
  <1>7. ASSUME OnCourse(r) PROVE OnCourse(r)'
    <2>1. /\ a >= 2 /\ BestUpTo(a - 1, best, bids) /\ bids[a] = bid
      BY <1>1, <1>2, <1>7 DEF OnCourse, Tallies
    <2>2. bid # None
      BY TeamsAssumption
    <2>3. BestUpTo(a, new, bids)
      BY <1>3, <2>1, <2>2, BestGrows
    <2>4. b >= 2 /\ (IF pc = "execute" THEN N ELSE b - 1) = a
      BY <1>4, <2>1, MemberFacts
    <2>5. Tallies(r)'
      BY <1>6, <2>3, <2>4 DEF Tallies
    <2>6. HandlesOwn(r)'
      BY <1>1, <1>6, <1>7 DEF OnCourse, HandlesOwn, Awaits
    <2>7. QED
      BY <1>1, <2>5, <2>6 DEF OnCourse
  <1>8. QED
    BY <1>1, <1>6, <1>7, SoloGoesOn DEF Active, Ended

\* The winner is the best of all bidders.
LEMMA ExecuteSolo ==
  ASSUME TypeInv, SoloInv, NEW r \in Rounds, Execute(r)
  PROVE  SoloInv'
  <1>1. /\ run \in [Rounds -> RunTypes] /\ run[r].pc = "execute" /\ Active(r)
        /\ team.kind = "Market" /\ UNCHANGED <<team, mixed>>
    BY DEF Execute, TypeInv, TypeOK, Active, Ended
  <1>2. /\ run'[r].pc = "done" /\ run'[r].best = run[r].best
        /\ run'[r].bids = run[r].bids
        /\ \A q \in Rounds : q # r => run'[q] = run[q]
    BY <1>1 DEF Execute, Answered, Idle
  <1>3. OnCourse(r) => Concluded(r)'
    BY <1>1, <1>2 DEF OnCourse, Tallies, Concluded, BestUpTo
  <1>4. QED
    BY <1>1, <1>2, <1>3, SoloGoesOn DEF Active, Ended

\* A peer of a solo round proposes.
LEMMA ProposeSolo ==
  ASSUME TypeInv, SoloInv, NEW r \in Rounds, Propose(r)
  PROVE  SoloInv'
  <1>1. /\ run \in [Rounds -> RunTypes] /\ run[r] \in RunTypes
        /\ run[r].pc = "work" /\ Active(r) /\ team.kind = "Swarm"
        /\ UNCHANGED <<team, inbox, mixed>> /\ 1 \in Member
    BY MemberFacts DEF Propose, TypeInv, TypeOK, Active, Ended
  <1>2. PICK held :
          /\ held.payload.of = r /\ held.payload.by = run[r].at
          /\ run' = [run EXCEPT ![r].pc = "cast", ![r].todo = Member,
                                ![r].held = held]
    BY DEF Propose, Message, Work
  <1>3. /\ run'[r].pc = "cast" /\ run'[r].todo = Member /\ run'[r].held = held
        /\ run'[r].at = run[r].at /\ run'[r].got = run[r].got
        /\ run'[r].task = run[r].task
        /\ \A q \in Rounds : q # r => run'[q] = run[q]
    BY <1>1, <1>2 DEF RunTypes
  <1>4. ASSUME OnCourse(r) PROVE OnCourse(r)'
    <2>1. \A m \in Member : Proposed(r, m) => Proposed(r, m)'
      BY <1>1, <1>3 DEF Proposed
    <2>2. \A m \in Member : m < run[r].at => Proposed(r, m)
      BY <1>1, <1>4 DEF OnCourse, Proposes
    <2>3. Proposes(r)'
      BY <1>1, <1>2, <1>3, <2>1, <2>2 DEF Proposes
    <2>4. HandlesOwn(r)'
      BY <1>1, <1>3, <1>4 DEF OnCourse, HandlesOwn
    <2>5. QED
      BY <1>1, <2>3, <2>4 DEF OnCourse
  <1>5. QED
    BY <1>1, <1>3, <1>4, SoloGoesOn

\* A broadcast of a solo round reaches a member, the first peer among them.
LEMMA CastSolo ==
  ASSUME TypeInv, SoloInv, NEW r \in Rounds, NEW m \in Member, Cast(r, m)
  PROVE  SoloInv'
  <1>1. /\ TypeOK /\ run \in [Rounds -> RunTypes] /\ run[r] \in RunTypes
        /\ inbox \in [Member -> Seq(Messages)]
        /\ run[r].pc = "cast" /\ Active(r) /\ team.kind = "Swarm"
        /\ UNCHANGED <<team, mixed>> /\ m \in run[r].todo /\ 1 \in Member
    BY MemberFacts DEF Cast, TypeInv, TypeOK, Active, Ended
  <1>2. PICK a \in Member, held \in Messages, todo \in SUBSET Member :
          /\ a = run[r].at /\ held = run[r].held /\ todo = run[r].todo
    BY <1>1 DEF RunTypes, TypeInv, Holding
  <1>3. PICK b \in Member, pc \in {"cast", "drain", "work"} :
          /\ b = IF todo = {m} THEN IF a = N THEN N ELSE a + 1 ELSE a
          /\ pc = IF todo # {m} THEN "cast" ELSE IF a = N THEN "drain" ELSE "work"
    BY MemberFacts
  <1>4. /\ inbox' = Deliver(inbox, m, held)
        /\ run' = [run EXCEPT ![r].todo = todo \ {m}, ![r].pc = pc, ![r].at = b]
    BY <1>2, <1>3 DEF Cast, LastTurn, NextMember
  <1>5. /\ run'[r].pc = pc /\ run'[r].at = b /\ run'[r].todo = todo \ {m}
        /\ run'[r].held = held /\ run'[r].got = run[r].got
        /\ run'[r].task = run[r].task
        /\ \A q \in Rounds : q # r => run'[q] = run[q]
    BY <1>1, <1>2, <1>4 DEF RunTypes
  <1>6. PICK mail \in Seq(Messages) : mail = inbox[1]
    BY <1>1
  <1>7. inbox'[1] = IF m = 1 THEN Append(mail, held) ELSE mail
    BY <1>1, <1>4, <1>6 DEF Deliver
  <1>8. /\ \A i \in 1 .. Len(mail) : /\ i \in 1 .. Len(inbox'[1])
                                     /\ inbox'[1][i] = mail[i]
        /\ m = 1 => \E i \in 1 .. Len(inbox'[1]) : inbox'[1][i] = held
    <2>1. /\ \A i \in 1 .. Len(mail) : /\ i \in 1 .. Len(Append(mail, held))
                                       /\ Append(mail, held)[i] = mail[i]
          /\ Len(mail) + 1 \in 1 .. Len(Append(mail, held))
          /\ Append(mail, held)[Len(mail) + 1] = held
      OBVIOUS
    <2>2. QED
      BY <1>7, <2>1
  <1>9. \A k \in Member : Proposed(r, k) => Proposed(r, k)'
    BY <1>5, <1>6, <1>8 DEF Proposed
  <1>10. ASSUME OnCourse(r) PROVE OnCourse(r)'
    <2>1. /\ held.payload.of = r /\ held.payload.by = a
          /\ \A k \in Member : k < a => Proposed(r, k)
          /\ 1 \notin todo => Proposed(r, a)
      BY <1>1, <1>2, <1>10 DEF OnCourse, Proposes
    <2>2. 1 \notin todo \ {m} => Proposed(r, a)'
      <3>1. CASE m = 1
        BY <1>8, <2>1, <3>1 DEF Proposed
      <3>2. CASE m # 1
        BY <1>9, <2>1, <3>2
      <3>3. QED
        BY <3>1, <3>2
    <2>3. \A k \in Member : k < a => Proposed(r, k)'
      BY <1>9, <2>1
    <2>4. ASSUME NEW k \in Member,
                 \/ k < b \/ pc = "drain"
                 \/ pc = "cast" /\ k = b /\ 1 \notin todo \ {m}
          PROVE  Proposed(r, k)'
      <3>1. CASE todo # {m}
        BY <1>3, <2>2, <2>3, <2>4, <3>1
      <3>2. CASE todo = {m}
        <4>1. Proposed(r, a)'
          BY <2>2, <3>2
        <4>2. k < a \/ k = a
          BY <1>3, <2>4, <3>2, MemberFacts DEF Member
        <4>3. QED
          BY <2>3, <4>1, <4>2
      <3>3. QED
        BY <3>1, <3>2
    <2>5. pc = "cast" => b = a
      BY <1>3
    <2>6. Proposes(r)'
      BY <1>5, <2>1, <2>4, <2>5 DEF Proposes
    <2>7. HandlesOwn(r)'
      BY <1>1, <1>5, <1>10 DEF OnCourse, HandlesOwn
    <2>8. QED
      BY <1>1, <2>6, <2>7 DEF OnCourse
  <1>11. QED
    BY <1>1, <1>5, <1>10, SoloGoesOn

\* The first peer of a solo round takes a proposal from its inbox.
LEMMA DrainSolo ==
  ASSUME TypeInv, SoloInv, NEW r \in Rounds, Drain(r)
  PROVE  SoloInv'
  <1>1. /\ TypeOK /\ run \in [Rounds -> RunTypes] /\ run[r] \in RunTypes
        /\ inbox \in [Member -> Seq(Messages)]
        /\ run[r].pc = "drain" /\ Active(r) /\ team.kind = "Swarm"
        /\ UNCHANGED <<team, mixed>> /\ HasMail(inbox, 1) /\ 1 \in Member
    BY MemberFacts DEF Drain, TypeInv, TypeOK, Active, Ended
  <1>2. PICK mail \in Seq(Messages), got \in Seq(Payloads) :
          mail = inbox[1] /\ got = run[r].got /\ mail # <<>>
    BY <1>1 DEF RunTypes, HasMail
  <1>3. inbox'[1] = Tail(mail)
    BY <1>1, <1>2 DEF Drain, Received
  <1>4. PICK p \in Payloads : p = Head(mail).payload
    BY <1>2, MessageParts
  <1>5. CASE run' = Failed(r)
    <2>1. run'[r].pc = "failed" /\ \A q \in Rounds : q # r => run'[q] = run[q]
      BY <1>1, <1>5 DEF Failed, Idle
    <2>2. QED
      BY <1>1, <2>1, SoloGoesOn DEF Active, Ended
  <1>6. CASE run' = [run EXCEPT ![r].got = Append(got, p)]
    <2>1. /\ run'[r].pc = "drain" /\ run'[r].got = Append(got, p)
          /\ run'[r].task = run[r].task
          /\ \A q \in Rounds : q # r => run'[q] = run[q]
      BY <1>1, <1>6 DEF RunTypes
    <2>2. ASSUME NEW m \in Member, Proposed(r, m) PROVE Proposed(r, m)'
      <3>1. /\ \A i \in 1 .. Len(got) : /\ i \in 1 .. Len(Append(got, p))
                                        /\ Append(got, p)[i] = got[i]
            /\ Len(got) + 1 \in 1 .. Len(Append(got, p))
            /\ Append(got, p)[Len(got) + 1] = p
        OBVIOUS
      <3>2. ASSUME NEW i \in 1 .. Len(got), got[i].of = r, got[i].by = m
            PROVE  Proposed(r, m)'
        BY <2>1, <3>1, <3>2 DEF Proposed
      <3>3. ASSUME NEW i \in 1 .. Len(mail), mail[i].payload.of = r,
                   mail[i].payload.by = m
            PROVE  Proposed(r, m)'
        <4>1. CASE i = 1
          <5>1. p = mail[i].payload
            BY <1>2, <1>4, <4>1
          <5>2. QED
            BY <2>1, <3>1, <3>3, <5>1 DEF Proposed
        <4>2. CASE i # 1
          <5>1. i - 1 \in 1 .. Len(Tail(mail)) /\ Tail(mail)[i - 1] = mail[i]
            BY <1>2, <4>2
          <5>2. QED
            BY <1>3, <3>3, <5>1 DEF Proposed
        <4>3. QED
          BY <4>1, <4>2
      <3>4. QED
        BY <1>2, <2>2, <3>2, <3>3 DEF Proposed
    <2>3. ASSUME OnCourse(r) PROVE OnCourse(r)'
      <3>1. \A m \in Member : Proposed(r, m)
        BY <1>1, <2>3 DEF OnCourse, Proposes
      <3>2. Proposes(r)'
        BY <2>1, <2>2, <3>1 DEF Proposes
      <3>3. HandlesOwn(r)'
        BY <1>1, <2>1, <2>3 DEF OnCourse, HandlesOwn
      <3>4. QED
        BY <1>1, <3>2, <3>3 DEF OnCourse
    <2>4. QED
      BY <1>1, <2>1, <2>3, SoloGoesOn
  <1>7. QED
    BY <1>2, <1>4, <1>5, <1>6 DEF Drain, NextMail

\* A swarm that has drained its inbox has heard every peer.
LEMMA AgreeSolo ==
  ASSUME TypeInv, SoloInv, NEW r \in Rounds, Agree(r)
  PROVE  SoloInv'
  <1>1. /\ run \in [Rounds -> RunTypes] /\ run[r] \in RunTypes
        /\ run[r].pc = "drain" /\ Active(r) /\ team.kind = "Swarm"
        /\ UNCHANGED <<team, mixed>> /\ inbox[1] = <<>>
    BY DEF Agree, TypeInv, TypeOK, Active, Ended, HasMail
  <1>2. /\ run'[r].pc = "done" /\ run'[r].got = run[r].got
        /\ \A q \in Rounds : q # r => run'[q] = run[q]
    BY <1>1 DEF Agree, Answered, Idle
  <1>3. ASSUME OnCourse(r) PROVE Concluded(r)'
    <2>1. PICK got \in Seq(Payloads) : got = run[r].got
      BY <1>1 DEF RunTypes
    <2>2. ASSUME NEW m \in Member
          PROVE  \E i \in 1 .. Len(got) : got[i].of = r /\ got[i].by = m
      <3>1. Proposed(r, m)
        BY <1>1, <1>3 DEF OnCourse, Proposes
      <3>2. Len(inbox[1]) = 0
        BY <1>1
      <3>3. QED
        BY <2>1, <3>1, <3>2 DEF Proposed
    <2>3. DOMAIN got = 1 .. Len(got)
      OBVIOUS
    <2>4. QED
      BY <1>1, <1>2, <2>1, <2>2, <2>3 DEF Concluded
  <1>4. QED
    BY <1>1, <1>2, <1>3, SoloGoesOn DEF Active, Ended

\* Every step keeps solo rounds on course.
LEMMA NextSolo ==
  TypeInv /\ MailIsAwaited /\ SoloInv /\ [Next]_vars => SoloInv'
  <1> SUFFICES ASSUME TypeInv, MailIsAwaited, SoloInv, [Next]_vars PROVE SoloInv'
    OBVIOUS
  <1>1. ASSUME NEW r \in Rounds, Step(r) PROVE SoloInv'
    BY <1>1, StartSolo, FailSolo, ReceiveSolo, PipelineSolo, DelegateSolo,
       ReportSolo, BidSolo, CollectSolo, TallySolo, ExecuteSolo, ProposeSolo,
       CastSolo, DrainSolo, AgreeSolo DEF Step
  <1>2. CASE UNCHANGED vars
    BY <1>2 DEF vars, SoloInv, Solo, SoloDone, Active, Ended, ActiveRounds, OnCourse,
       HandlesOwn, Awaits, Gathers, Tallies, BestUpTo, Proposes, Proposed, Concluded
  <1>3. QED
    BY <1>1, <1>2 DEF Next, Rest

\* Solo rounds are on course throughout.
LEMMA SoloHolds == Spec => []SoloInv
  <1>1. Init => SoloInv
    BY DEF Init, Idle, SoloInv, Solo, SoloDone, Active
  <1>2. TypeInv /\ MailIsAwaited /\ SoloInv /\ [Next]_vars => SoloInv'
    BY NextSolo
  <1>3. Spec => []TypeInv
    BY InitTypes, NextTypes, PTL DEF Spec
  <1>4. QED
    BY <1>1, <1>2, <1>3, TeamsLeaveNothing, PTL DEF Spec

\* In a team of any size the answer of a pipeline's or a hierarchy's round that
\* ran alone is made of work on its own task, one report of each child in order,
\* whatever rounds failed, overlapped or were dropped before it.
THEOREM TeamsAnswerTheirOwn == Spec => []AnswersAreOwn
  <1>1. SoloInv => AnswersAreOwn
    BY DEF SoloInv, Concluded, AnswersAreOwn
  <1>2. QED
    BY <1>1, SoloHolds, PTL

\* An auction of any size that ran alone is won by the lowest bid, the first among
\* equals, and every bidder was asked.
THEOREM MarketTakesTheLowestBid == Spec => []LowestBidWins
  <1>1. N # 1
    BY MemberFacts
  <1>2. SoloInv => LowestBidWins
    BY <1>1 DEF SoloInv, Concluded, BestUpTo, LowestBidWins
  <1>3. QED
    BY <1>2, SoloHolds, PTL

\* A swarm of any size that ran alone hears the proposal of every peer, in whatever
\* order the broadcasts go out and whatever earlier rounds left in the inboxes.
THEOREM SwarmHearsThemAll == Spec => []SwarmHearsEveryPeer
  <1>1. SoloInv => SwarmHearsEveryPeer
    BY DEF SoloInv, Concluded, SwarmHearsEveryPeer
  <1>2. QED
    BY <1>1, SoloHolds, PTL

=============================================================================
