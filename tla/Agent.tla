------------------------------- MODULE Agent -------------------------------
(***************************************************************************)
(* One agent of the runtime (runtime/src/agent.rs): the gate every call    *)
(* passes (phase, capability, budget, effect, settlement, audit), the      *)
(* autonomous tool-calling loop, and checkpoint / restore.                 *)
(*                                                                         *)
(* act and run take &mut self, so one call at a time is under way, but     *)
(* both are futures that suspend while the model or a tool answers, and a  *)
(* suspended future may be dropped by its owner (an HTTP client that hangs *)
(* up drops the handler).  frame is the suspended call.                    *)
(***************************************************************************)
EXTENDS AttentionBudget, Sequences

CONSTANTS
    Tool,          \* the tools that exist
    Cap,           \* the capability tokens that exist
    Authorizes,    \* Authorizes[c]: the calls a token's permission and scope cover
    InitialTotal,  \* the budget an agent is spawned with
    Costs,         \* the costs callers declare
    GrantSizes,    \* the refills an agent may be granted
    ThinkReserve,  \* RESERVE: what a step of the loop reserves
    ToolCost,      \* what the loop declares for a tool call
    MaxActual,     \* bound: the largest cost a backend reports
    MaxIters,      \* bound: the largest max_iters of a run
    MaxToolCalls,  \* bound: tool calls in one answer of the model
    MaxAudit       \* bound: callers stop issuing calls at this audit length

Ops == {"Think", "MemWrite", "MemSearch", "ToolInvoke"}

\* A call, by what the gate tells apart: its operation and its target.
Calls == {[op |-> "Think", target |-> "self"],
          [op |-> "MemWrite", target |-> "mem"],
          [op |-> "MemSearch", target |-> "mem"]}
         \cup {[op |-> "ToolInvoke", target |-> t] : t \in Tool}

ThinkCall == [op |-> "Think", target |-> "self"]
LoopCalls == {c \in Calls : c.op = "ToolInvoke"}

ASSUME AgentAssumption ==
    /\ InitialTotal \in Tokens
    /\ Costs \subseteq Tokens
    /\ GrantSizes \subseteq Tokens
    /\ ThinkReserve \in Tokens
    /\ ToolCost \in Tokens
    /\ MaxActual \in Tokens
    /\ MaxIters \in Nat
    /\ MaxToolCalls \in Nat
    /\ MaxAudit \in Nat
    /\ Authorizes \in [Cap -> SUBSET Calls]

VARIABLES
    phase,      \* Born or Live: the phases this code ever assigns
    budget,
    caps,       \* the tokens granted to the agent
    tools,      \* the tools registered with the agent
    verifier,   \* whether a CapabilityVerifier is attached
    authentic,  \* the tokens a verifier accepts now: signed and unexpired
    audit,      \* the audit trail
    frame,      \* the suspended call, if any
    loop,       \* the run under way, if any
    saved,      \* the last checkpoint taken
    \* history variables, read by properties only
    billed,     \* tokens the audit trail has recorded
    leaked,     \* reservations whose call was dropped before settlement
    clipped     \* whether a settlement ever saturated

portable == <<phase, budget, caps, audit>>
ghosts   == <<billed, leaked, clipped>>
vars     == <<portable, tools, verifier, authentic, frame, loop, saved, ghosts>>

NoFrame == [kind |-> "none", call |-> ThinkCall, reserved |-> 0]
NoLoop  == [active |-> FALSE, iters |-> 0, pending |-> 0]

AuditRecords == [op : Ops, cost : Tokens, allowed : BOOLEAN]
Record(op, cost, allowed) == [op |-> op, cost |-> cost, allowed |-> allowed]

Checkpoint == [phase |-> phase, budget |-> budget, caps |-> caps,
               audit |-> audit,
               billed |-> billed, leaked |-> leaked, clipped |-> clipped]

Init ==
    /\ phase = "Born"
    /\ budget = NewBudget(InitialTotal)
    /\ caps = {}
    /\ tools = {}
    /\ verifier = FALSE
    /\ authentic \in SUBSET Cap
    /\ audit = <<>>
    /\ frame = NoFrame
    /\ loop = NoLoop
    /\ billed = 0
    /\ leaked = 0
    /\ clipped = FALSE
    /\ saved = Checkpoint

----------------------------------------------------------------------------
Idle == frame = NoFrame
Unoccupied == Idle /\ ~loop.active     \* no future borrows the agent

\* Builder-style set-up and the control plane's refill: they need the agent to
\* themselves.
GrantCap(c) ==
    /\ Unoccupied
    /\ caps' = caps \cup {c}
    /\ UNCHANGED <<phase, budget, audit, tools, verifier, authentic, frame,
                   loop, saved, ghosts>>

WithTool(t) ==
    /\ Unoccupied
    /\ tools' = tools \cup {t}
    /\ UNCHANGED <<portable, verifier, authentic, frame, loop, saved, ghosts>>

WithVerifier ==
    /\ Unoccupied
    /\ verifier' = TRUE
    /\ UNCHANGED <<portable, tools, authentic, frame, loop, saved, ghosts>>

GrantBudget(tokens) ==
    /\ Unoccupied
    /\ budget' = Grant(budget, tokens)
    /\ UNCHANGED <<phase, caps, audit, tools, verifier, authentic, frame, loop,
                   saved, ghosts>>

Start ==
    /\ Unoccupied
    /\ phase = "Born"
    /\ phase' = "Live"
    /\ UNCHANGED <<budget, caps, audit, tools, verifier, authentic, frame,
                   loop, saved, ghosts>>

\* Time passes a token's expiry.
Expire(c) ==
    /\ c \in authentic
    /\ authentic' = authentic \ {c}
    /\ UNCHANGED <<portable, tools, verifier, frame, loop, saved, ghosts>>

----------------------------------------------------------------------------
\* The gate.  A call comes from the agent's owner or from the loop.
Issued(call, cost) ==
    /\ Idle
    /\ \/ /\ ~loop.active
          /\ Len(audit) < MaxAudit
          /\ call \in Calls /\ cost \in Costs
       \/ /\ loop.active /\ loop.pending > 0
          /\ call \in LoopCalls /\ cost = ToolCost

\* INV-2: a token that is authentic (when a verifier is attached) and covers
\* the call; Think needs none.
Authorized(call) ==
    \/ call.op = "Think"
    \/ \E c \in caps : /\ verifier => c \in authentic
                       /\ call \in Authorizes[c]

\* Mutant: the trail keeps its newest record only.
RecordingNewestOnly(op, cost, allowed) ==
    /\ audit' = <<Record(op, cost, allowed)>>
    /\ billed' = billed + cost
    /\ UNCHANGED leaked

\* record, and the history of what was recorded.
Recording(op, cost, allowed) ==
    /\ audit' = Append(audit, Record(op, cost, allowed))
    /\ billed' = billed + cost
    /\ UNCHANGED leaked

\* settle, and whether it saturated.
Settling(b, reserved, actual) ==
    /\ budget' = Settle(b, reserved, actual)
    /\ clipped' = (clipped \/ b.spent + actual - reserved \notin Tokens)

\* act returns; inside a run the loop goes on to the next tool call.
Returning ==
    loop' = IF loop.active THEN [loop EXCEPT !.pending = @ - 1] ELSE loop

\* (On an agent that is not Live, act and run return an error and change nothing.)

\* The capability check or the charge refuses the call: recorded, not charged.
ActRefused(call, cost) ==
    /\ Issued(call, cost)
    /\ phase = "Live"
    /\ ~Authorized(call) \/ ~CanCharge(budget, cost)
    /\ Recording(call.op, 0, FALSE)
    /\ Returning
    /\ UNCHANGED <<phase, budget, caps, tools, verifier, authentic, frame,
                   saved, clipped>>

Admitted(call, cost) ==
    /\ Issued(call, cost)
    /\ phase = "Live"
    /\ Authorized(call)
    /\ CanCharge(budget, cost)

\* Memory calls, and a tool that is not registered, finish without suspending.
ActAtOnce(call, cost) ==
    /\ Admitted(call, cost)
    /\ \E ok \in BOOLEAN :
         /\ \/ call.op \in {"MemWrite", "MemSearch"}
            \/ /\ call.op = "ToolInvoke"
               /\ call.target \notin tools
               /\ ~ok
         /\ LET actual == IF ok THEN cost ELSE 0
            IN  /\ Settling(Charge(budget, cost), cost, actual)
                /\ Recording(call.op, actual, ok)
    /\ Returning
    /\ UNCHANGED <<phase, caps, tools, verifier, authentic, frame, saved>>

\* The model or the tool is called with the declared cost reserved.
ActSuspend(call, cost) ==
    /\ Admitted(call, cost)
    /\ call.op = "Think" \/ call.target \in tools
    /\ budget' = Charge(budget, cost)
    /\ frame' = [kind |-> "act", call |-> call, reserved |-> cost]
    /\ UNCHANGED <<phase, caps, audit, tools, verifier, authentic, loop, saved,
                   ghosts>>

\* The answer settles the reservation to the actual cost, an error refunds it.
ActResume(actual, ok) ==
    /\ frame.kind = "act"
    /\ ~ok => actual = 0
    /\ Settling(budget, frame.reserved, actual)
    /\ Recording(frame.call.op, actual, ok)
    /\ frame' = NoFrame
    /\ Returning
    /\ UNCHANGED <<phase, caps, tools, verifier, authentic, saved>>

----------------------------------------------------------------------------
\* The autonomous loop: think, run the tool calls the model asked for, repeat.
RunBegin(iters) ==
    /\ Unoccupied
    /\ phase = "Live"
    /\ Len(audit) < MaxAudit
    /\ loop' = [active |-> TRUE, iters |-> iters, pending |-> 0]
    /\ UNCHANGED <<portable, tools, verifier, authentic, frame, saved, ghosts>>

LoopThinks == Idle /\ loop.active /\ loop.pending = 0 /\ loop.iters > 0

\* Mutant: a starved step is tried again.
RunStarvedRetries ==
    /\ LoopThinks
    /\ ~CanCharge(budget, ThinkReserve)
    /\ UNCHANGED <<portable, tools, verifier, authentic, frame, loop, saved,
                   billed, leaked, clipped>>

\* charge(RESERVE)? leaves think_with_tools and run before any record.
RunStarved ==
    /\ LoopThinks
    /\ ~CanCharge(budget, ThinkReserve)
    /\ loop' = NoLoop
    /\ UNCHANGED <<portable, tools, verifier, authentic, frame, saved, billed,
                   leaked, clipped>>

RunSuspend ==
    /\ LoopThinks
    /\ CanCharge(budget, ThinkReserve)
    /\ budget' = Charge(budget, ThinkReserve)
    /\ frame' = [kind |-> "loop", call |-> ThinkCall, reserved |-> ThinkReserve]
    /\ loop' = [loop EXCEPT !.iters = @ - 1]
    /\ UNCHANGED <<phase, caps, audit, tools, verifier, authentic, saved, ghosts>>

\* The model answers in text (calls = 0, the run ends) or asks for tool calls.
RunResume(tokens, calls) ==
    /\ frame.kind = "loop"
    /\ Settling(budget, frame.reserved, tokens)
    /\ Recording("Think", tokens, TRUE)
    /\ frame' = NoFrame
    /\ loop' = IF calls = 0 THEN NoLoop ELSE [loop EXCEPT !.pending = calls]
    /\ UNCHANGED <<phase, caps, tools, verifier, authentic, saved>>

RunThinkFails ==
    /\ frame.kind = "loop"
    /\ Settling(budget, frame.reserved, 0)
    /\ Recording("Think", 0, FALSE)
    /\ frame' = NoFrame
    /\ loop' = NoLoop
    /\ UNCHANGED <<phase, caps, tools, verifier, authentic, saved>>

RunExhausted ==
    /\ Idle /\ loop.active /\ loop.pending = 0 /\ loop.iters = 0
    /\ loop' = NoLoop
    /\ UNCHANGED <<portable, tools, verifier, authentic, frame, saved, ghosts>>

----------------------------------------------------------------------------
\* The owner drops the suspended future: nothing after the await runs.
Cancel ==
    /\ ~Idle
    /\ leaked' = leaked + frame.reserved
    /\ frame' = NoFrame
    /\ loop' = NoLoop
    /\ UNCHANGED <<portable, tools, verifier, authentic, saved, billed,
                   clipped>>

TakeCheckpoint ==
    /\ Unoccupied
    /\ saved' = Checkpoint
    /\ UNCHANGED <<portable, tools, verifier, authentic, frame, loop, ghosts>>

\* The process dies and the agent is rebuilt from the checkpoint: the portable
\* state comes back, tools and verifier do not.
CrashRestore ==
    /\ phase' = saved.phase
    /\ budget' = saved.budget
    /\ caps' = saved.caps
    /\ audit' = saved.audit
    /\ tools' = {}
    /\ verifier' = FALSE
    /\ frame' = NoFrame
    /\ loop' = NoLoop
    /\ billed' = saved.billed
    /\ leaked' = saved.leaked
    /\ clipped' = saved.clipped
    /\ UNCHANGED <<authentic, saved>>

----------------------------------------------------------------------------
Owner ==
    \/ \E c \in Cap : GrantCap(c)
    \/ \E t \in Tool : WithTool(t)
    \/ WithVerifier
    \/ \E n \in GrantSizes : GrantBudget(n)
    \/ Start
    \/ TakeCheckpoint
    \/ \E i \in 0 .. MaxIters : RunBegin(i)

Act(call, cost) ==
    \/ ActRefused(call, cost)
    \/ ActAtOnce(call, cost)
    \/ ActSuspend(call, cost)

Calling == \E call \in Calls, cost \in Costs \cup {ToolCost} : Act(call, cost)

LoopStep == RunStarved \/ RunSuspend \/ RunExhausted

Answer ==
    \/ \E actual \in 0 .. MaxActual, ok \in BOOLEAN : ActResume(actual, ok)
    \/ \E tokens \in 0 .. MaxActual, n \in 0 .. MaxToolCalls : RunResume(tokens, n)
    \/ RunThinkFails

Environment ==
    \/ \E c \in Cap : Expire(c)
    \/ Cancel
    \/ CrashRestore

Next == Owner \/ Calling \/ LoopStep \/ Answer \/ Environment

Spec == Init /\ [][Next]_vars

\* A run that is under way is polled, and the model and the tools answer or fail.
LoopCalling == loop.active /\ Calling
FairSpec ==
    Spec /\ WF_vars(LoopCalling) /\ WF_vars(LoopStep) /\ WF_vars(Answer)

----------------------------------------------------------------------------
\* Properties.

\* Every variable keeps its type; no reservation is outstanding without a
\* suspended call.
TypeOK ==
    /\ phase \in {"Born", "Live"}
    /\ budget \in AttentionBudgets
    /\ caps \subseteq Cap
    /\ tools \subseteq Tool
    /\ verifier \in BOOLEAN
    /\ authentic \subseteq Cap
    /\ audit \in Seq(AuditRecords)
    /\ frame \in [kind : {"none", "act", "loop"}, call : Calls, reserved : Tokens]
    /\ frame.kind = "none" => frame = NoFrame
    /\ loop \in [active : BOOLEAN, iters : Nat, pending : Nat]
    /\ saved \in [phase : {"Born", "Live"}, budget : AttentionBudgets,
                  caps : SUBSET Cap, audit : Seq(AuditRecords),
                  billed : Nat, leaked : Nat, clipped : BOOLEAN]
    /\ billed \in Nat
    /\ leaked \in Nat
    /\ clipped \in BOOLEAN

\* INV-1, accounting: as long as no settlement saturated, the tokens spent are
\* those the audit trail has recorded, plus the reservation of the call under
\* way, plus the reservations of dropped calls - across refusals, refunds,
\* cancellations, refills, crashes and restores.
SpendAccounted ==
    ~clipped => budget.spent = billed + leaked + frame.reserved

\* What a reader of a trail adds up.
Bill(trail) ==
    LET sum[n \in 0 .. Len(trail)] ==
          IF n = 0 THEN 0 ELSE sum[n - 1] + trail[n].cost
    IN  sum[Len(trail)]

\* INV-4: the audit trail explains the bill: what billed counts (and
\* SpendAccounted relates to the budget) is what a reader of the trail adds up,
\* however often the agent was rolled back to an earlier trail.
AuditExplainsBill == billed = Bill(audit)

\* INV-1, limit: when every call declares a positive cost, an agent never
\* overdraws by as much as one whole answer of a backend: only the call that
\* exhausts the budget can overdraw it, whatever refills and restores occur.
OverdrawBounded ==
    (0 \notin Costs \cup {ThinkReserve, ToolCost})
        => \/ budget.spent <= budget.total
           \/ budget.spent < budget.total + MaxActual

\* A restore rewinds: the checkpoint's trail is a prefix of the trail, and its
\* grant is not above the grant.
CheckpointIsPast ==
    /\ saved.budget.total <= budget.total
    /\ Len(saved.audit) <= Len(audit)
    /\ \A i \in 1 .. Len(saved.audit) : saved.audit[i] = audit[i]

\* The autonomous loop ends: the model answers in text, the iterations run
\* out, the budget runs out, or the run is dropped.
RunTerminates == loop.active ~> ~loop.active

=============================================================================
