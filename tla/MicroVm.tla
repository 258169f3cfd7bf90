------------------------------ MODULE MicroVm ------------------------------
(***************************************************************************)
(* Agents in Firecracker microVMs (runtime/src/firecracker.rs and          *)
(* guest-runner/src/main.rs).  A host program holds a handle on each VM it *)
(* launched, from the moment its Firecracker process is spawned, and calls *)
(* the runner in the guest over vsock, one request per connection; the     *)
(* runner serves one connection at a time.  A connection may break, with   *)
(* its request lost or still to be served, and a VM may die.  No call has  *)
(* a timeout.                                                              *)
(*                                                                         *)
(* There is one agent, the demo agent.  Of its state the module keeps what *)
(* it has spent; a package carries that state.                             *)
(***************************************************************************)
EXTENDS Integers, Sequences

CONSTANTS
    VMs,
    None,          \* no agent, no package, no call
    Total,         \* the demo agent's budget
    Reserve,       \* what a think reserves
    Cost,          \* what it turns out to cost
    MaxAttempts,   \* the tries of a deployment
    MaxBreaks,     \* bound: connections that break
    MaxDeaths      \* bound: VMs that die

\* What the runner is asked, and what a call to it has come to.
Requests == {"deploy", "health", "checkpoint", "shutdown"}
CallRecords == [vm : VMs, op : Requests, reply : Nat \cup {None},
                status : {"waiting", "ok", "err", "failed"}]

ASSUME MicroVmAssumption ==
    /\ {Total, Reserve, MaxBreaks, MaxDeaths} \subseteq Nat
    /\ Cost \in 1 .. Reserve
    /\ MaxAttempts \in Nat \ {0}
    /\ None \notin Nat \cup CallRecords

VARIABLES
    vms,       \* each VM: its Firecracker process, its agent, its connections
    held,      \* the VMs the host program has a handle on
    call,      \* the call the host program is making
    pkg,       \* the package the host program holds
    attempts,  \* the failed tries of the deployment under way
    snap,      \* the VM snapshot on disk: the agent in its memory
    breaks, deaths,
    sent       \* history variable: the last package each VM was sent to deploy

microVm == <<vms, held, call, pkg, attempts, snap, breaks, deaths, sent>>

NoVm == [fc |-> "none", agent |-> None, inbox |-> <<>>]

MicroVmInit ==
    /\ vms = [v \in VMs |-> NoVm]
    /\ held = {}
    /\ call = None
    /\ pkg = None
    /\ attempts = 0
    /\ snap = None
    /\ breaks = 0
    /\ deaths = 0
    /\ sent = [v \in VMs |-> None]

\* A new agent has spent nothing.  A think it cannot reserve fails, and the
\* runner ignores that.
Demo == 0
Thought(spent) == IF spent + Reserve <= Total THEN spent + Cost ELSE spent

----------------------------------------------------------------------------
\* The guest.

Boots(v) ==
    /\ vms[v].fc = "booting"
    /\ vms' = [vms EXCEPT ![v].fc = "running"]
    /\ UNCHANGED <<held, call, pkg, attempts, snap, breaks, deaths, sent>>

\* Mutant: a deployment sent again goes on with the agent it finds.
DeployedOver(agent, package) == Thought(IF agent = None THEN package ELSE agent)

\* The runner deploys the package afresh, lets the agent think once, and puts
\* it in the place of any agent it had.
Deployed(agent, package) == Thought(package)

\* The runner serves its next connection.  A reply on a broken one is lost.
\* On Shutdown it resets the VM, and Firecracker exits.
GuestServes(v) ==
    /\ vms[v].fc = "running" /\ vms[v].inbox # <<>>
    /\ LET request == Head(vms[v].inbox)
           agent   == IF request.op = "deploy"
                      THEN Deployed(vms[v].agent, request.package) ELSE vms[v].agent
           ok      == request.op = "checkpoint" => agent # None
       IN  /\ vms' = [vms EXCEPT ![v] =
                IF request.op = "shutdown" THEN NoVm
                ELSE [fc |-> "running", agent |-> agent, inbox |-> Tail(@.inbox)]]
           /\ call' = IF request.open
                      THEN [call EXCEPT !.status = IF ok THEN "ok" ELSE "err",
                                        !.reply = agent]
                      ELSE call
    /\ UNCHANGED <<held, pkg, attempts, snap, breaks, deaths, sent>>

----------------------------------------------------------------------------
\* The channel, and what befalls it.

Waiting(v) == call # None /\ call.vm = v /\ call.status = "waiting"

\* The handshake is refused by a guest that does not listen yet, or is gone.
CallBegins(v, op) ==
    /\ call = None
    /\ LET reached == vms[v].fc \in {"running", "paused"}
       IN  /\ call' = [vm |-> v, op |-> op, reply |-> None,
                       status |-> IF reached THEN "waiting" ELSE "failed"]
           /\ vms' = IF reached
                     THEN [vms EXCEPT ![v].inbox =
                             Append(@, [op |-> op, package |-> pkg, open |-> TRUE])]
                     ELSE vms
    /\ sent' = IF op = "deploy" THEN [sent EXCEPT ![v] = pkg] ELSE sent
    /\ UNCHANGED <<held, pkg, attempts, snap, breaks, deaths>>

\* The connection of the call breaks.  Its request, the last in the guest's
\* queue if it has not been served, may be gone or not.
ConnectionBreaks(v) ==
    /\ Waiting(v)
    /\ breaks < MaxBreaks
    /\ breaks' = breaks + 1
    /\ call' = [call EXCEPT !.status = "failed"]
    /\ LET last == Len(vms[v].inbox)
       IN  \/ vms' = [vms EXCEPT ![v].inbox[last].open = FALSE]
           \/ vms' = [vms EXCEPT ![v].inbox = SubSeq(@, 1, last - 1)]
    /\ UNCHANGED <<held, pkg, attempts, snap, deaths, sent>>

\* The reply is on its way when the connection breaks.
ReplyIsLost ==
    /\ call # None /\ call.status \in {"ok", "err"}
    /\ breaks < MaxBreaks
    /\ breaks' = breaks + 1
    /\ call' = [call EXCEPT !.status = "failed"]
    /\ UNCHANGED <<held, vms, pkg, attempts, snap, deaths, sent>>

VmDies(v) ==
    /\ vms[v].fc # "none"
    /\ deaths < MaxDeaths
    /\ deaths' = deaths + 1
    /\ vms' = [vms EXCEPT ![v] = NoVm]
    /\ call' = IF Waiting(v) THEN [call EXCEPT !.status = "failed"] ELSE call
    /\ UNCHANGED <<held, pkg, attempts, snap, breaks, sent>>

World ==
    \/ \E v \in VMs : Boots(v) \/ GuestServes(v) \/ ConnectionBreaks(v) \/ VmDies(v)
    \/ ReplyIsLost

----------------------------------------------------------------------------
\* The host's handle: what each operation does when it succeeds.  The
\* operations that are calls have begun, and their reply has come.

\* launch and restore spawn a Firecracker, and have a handle on it from then on,
Spawned(v) ==
    /\ v \notin held
    /\ vms' = [vms EXCEPT ![v] = [NoVm EXCEPT !.fc = "spawned"]]
    /\ held' = held \cup {v}
    /\ UNCHANGED <<call, pkg, attempts, snap, breaks, deaths, sent>>

\* launch: configure it over its API and start the guest,
Launched(v) ==
    /\ v \in held /\ vms[v].fc = "spawned"
    /\ vms' = [vms EXCEPT ![v].fc = "booting"]
    /\ UNCHANGED <<held, call, pkg, attempts, snap, breaks, deaths, sent>>

\* snapshot: pause the VM and capture it; it stays paused.
Snapshotted(v) ==
    /\ vms[v].fc # "none"
    /\ vms' = [vms EXCEPT ![v].fc = "paused"]
    /\ snap' = vms[v].agent
    /\ UNCHANGED <<held, call, pkg, attempts, breaks, deaths, sent>>

\* Mutant: the restored VM is left paused.
RestoredPaused(v) ==
    /\ v \in held /\ vms[v].fc = "spawned"
    /\ vms' = [vms EXCEPT ![v] = [NoVm EXCEPT !.fc = "paused", !.agent = snap]]
    /\ UNCHANGED <<held, call, pkg, attempts, snap, breaks, deaths, sent>>

\* restore: load the snapshot into it and resume it.
Restored(v) ==
    /\ v \in held /\ vms[v].fc = "spawned"
    /\ vms' = [vms EXCEPT ![v] = [NoVm EXCEPT !.fc = "running", !.agent = snap]]
    /\ UNCHANGED <<held, call, pkg, attempts, snap, breaks, deaths, sent>>

\* Mutant: the handle is made when the setup has succeeded, and what is dropped
\* before that kills nothing.
KilledOnceSetUp(handles) ==
    [v \in VMs |-> IF v \in handles /\ vms[v].fc # "spawned" THEN NoVm ELSE vms[v]]

\* The VMs when these handles have been dropped: each kills its child.
Killed(handles) == [v \in VMs |-> IF v \in handles THEN NoVm ELSE vms[v]]

Dropped(v) ==
    /\ vms' = Killed({v})
    /\ held' = held \ {v}
    /\ UNCHANGED <<call, pkg, attempts, snap, breaks, deaths, sent>>

Answered(op) == call # None /\ call.op = op /\ call.status # "waiting"

\* A deployment is tried again as long as the call itself fails.
DeployRetries ==
    /\ Answered("deploy") /\ call.status = "failed"
    /\ attempts + 1 < MaxAttempts
    /\ attempts' = attempts + 1
    /\ call' = None
    /\ UNCHANGED <<held, vms, pkg, snap, breaks, deaths, sent>>

DeploySucceeds ==
    /\ Answered("deploy") /\ call.status = "ok"
    /\ call' = None
    /\ attempts' = 0
    /\ UNCHANGED <<held, vms, pkg, snap, breaks, deaths, sent>>

DeployGivesUp ==
    /\ Answered("deploy")
    /\ call.status = "err" \/ (call.status = "failed" /\ attempts + 1 >= MaxAttempts)

\* What health, or a checkpoint pulled to look at, comes to is only printed.
Printed(op) ==
    /\ Answered(op)
    /\ call' = None
    /\ UNCHANGED <<held, vms, pkg, attempts, snap, breaks, deaths, sent>>

CheckpointSucceeds ==
    /\ Answered("checkpoint") /\ call.status = "ok"
    /\ call' = None
    /\ pkg' = call.reply
    /\ UNCHANGED <<held, vms, attempts, snap, breaks, deaths, sent>>

CheckpointFails == Answered("checkpoint") /\ call.status # "ok"

\* shutdown: whatever became of the call, wait for Firecracker to exit, kill it
\* when it does not, and drop the handle.
ShutdownReturns ==
    /\ Answered("shutdown")
    /\ call' = None
    /\ vms' = Killed({call.vm})
    /\ held' = held \ {call.vm}
    /\ UNCHANGED <<pkg, attempts, snap, breaks, deaths, sent>>

=============================================================================
