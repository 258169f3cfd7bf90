----------------------------- MODULE Migration -----------------------------
(***************************************************************************)
(* Moving an agent between execution contexts.  The package is the unit    *)
(* that moves; its carriers are the vsock of a microVM, a file shipped     *)
(* from host to host, and a TCP connection to a node that serves           *)
(* migrations (fabric/src/lib.rs).  The programs are the modes of          *)
(* guest-runner/src/main.rs and fabric-node/src/main.rs, run one after     *)
(* another in any order: a file that one of them captured others may       *)
(* receive.                                                                *)
(***************************************************************************)
EXTENDS MicroVm

CONSTANTS
    a, b,          \* the two microVMs
    MaxJobs,       \* bound: programs run
    MaxPolls       \* the polls after which a serving node gives up

ASSUME MigrationAssumption ==
    /\ VMs = {a, b} /\ a # b
    /\ MaxJobs \in Nat
    /\ MaxPolls \in Nat
    /\ Reserve <= Total

VARIABLES
    job,       \* the program that runs, or ran last
    todo,      \* what it has left to do
    code,      \* what it exited with: success, failure, or still running
    file,      \* the package on disk: a plain file, or framed as a config-drive
    process,   \* the agent the program restored into its own process
    node,      \* the node that serves migrations: its phase, its agent, the
               \* polls it has left
    wire,      \* the TCP connection: the package, and what each end is at
    jobs,
    hosted     \* history variable: the package the node last hosted

carriers == <<file, process, node, wire, hosted>>
program  == <<job, todo, code, jobs>>
vars     == <<microVm, carriers, program>>

NoNode  == [phase |-> "off", agent |-> None, polls |-> 0]
NoWire  == [client |-> "closed", server |-> "closed", package |-> None]
Running == code = "running"

Step(op, vm) == [op |-> op, vm |-> vm]

Launch(v) == <<Step("launch", v)>>
Deploy(v) == <<Step("deploy", v)>>
DeployDemo(v) == Launch(v) \o <<Step("demo", v)>> \o Deploy(v)
HealthThenShutdown(v) == <<Step("health", v), Step("shutdown", v)>>

FcLaunch   == DeployDemo(a) \o <<Step("health", a), Step("look", a), Step("shutdown", a)>>
\* The host mode drives a guest that its operator has started.
Host == <<Step("demo", a)>> \o Deploy(a)
              \o <<Step("health", a), Step("look", a), Step("ask", a)>>

FcSnapshot == DeployDemo(a)
              \o <<Step("snapshot", a), Step("drop", a), Step("restore", a)>>
              \o HealthThenShutdown(a)

\* Mutant: the source is drained before the target has the agent.
FcMigrateDrainsFirst ==
    DeployDemo(a) \o <<Step("checkpoint", a), Step("shutdown", a)>>
    \o Launch(b) \o Deploy(b) \o HealthThenShutdown(b)

FcMigrate == DeployDemo(a) \o <<Step("checkpoint", a)>>
              \o Launch(b) \o Deploy(b)
              \o <<Step("health", b), Step("shutdown", a), Step("shutdown", b)>>

FcCapture == DeployDemo(a)
              \o <<Step("checkpoint", a), Step("write", a), Step("shutdown", a)>>
FcReceive == <<Step("read", a)>> \o Launch(a) \o Deploy(a) \o HealthThenShutdown(a)

CaptureLocal == <<Step("demo", a), Step("think", a), Step("write", a)>>
ReceiveLocal == <<Step("read", a), Step("local", a)>>
MakeDrive == <<Step("demo", a), Step("burn", a)>>
RunDrive == <<Step("mount", a), Step("local", a), Step("act", a)>>
NetMigrate == <<Step("demo", a), Step("think", a), Step("send", a)>>

Programs ==
    [host |-> Host, fcLaunch |-> FcLaunch, fcSnapshot |-> FcSnapshot, fcMigrate |-> FcMigrate,
     fcCapture |-> FcCapture, fcReceive |-> FcReceive,
     captureLocal |-> CaptureLocal, receiveLocal |-> ReceiveLocal,
     makeDrive |-> MakeDrive, runDrive |-> RunDrive, netMigrate |-> NetMigrate]

Init ==
    /\ MicroVmInit
    /\ job = "none"
    /\ todo = <<>>
    /\ code = "success"
    /\ file = None
    /\ process = None
    /\ node = NoNode
    /\ wire = NoWire
    /\ jobs = 0
    /\ hosted = None

----------------------------------------------------------------------------
\* The host program.

\* Each program has VMs of its own.  For the host mode a VM has been started,
\* and for a migration over TCP a node may have been set to serve, or not.
StartJob(j) ==
    /\ ~Running
    /\ jobs < MaxJobs
    /\ jobs' = jobs + 1
    /\ job' = j
    /\ todo' = Programs[j]
    /\ code' = "running"
    /\ pkg' = None
    /\ process' = None
    /\ hosted' = None
    /\ wire' = NoWire
    /\ \/ node' = NoNode
       \/ j = "netMigrate"
          /\ node' = [phase |-> "serving", agent |-> None, polls |-> MaxPolls]
    /\ held' = {}
    /\ vms' = [v \in VMs |-> [NoVm EXCEPT !.fc =
                 IF j = "host" /\ v = a THEN "booting" ELSE "none"]]
    /\ UNCHANGED <<call, attempts, snap, breaks, deaths, sent, file>>

Now(op) == Running /\ todo # <<>> /\ Head(todo).op = op
Target  == Head(todo).vm

Continue == todo' = Tail(todo) /\ UNCHANGED <<job, code, jobs>>

\* The program returns, and the handles it still has are dropped.
Exit(c) ==
    /\ code' = c
    /\ todo' = <<>>
    /\ call' = None
    /\ attempts' = 0
    /\ vms' = Killed(held)
    /\ held' = {}
    /\ UNCHANGED <<job, jobs, pkg, snap, breaks, deaths, sent, process, node, wire,
                   hosted>>

\* A Firecracker is spawned for a VM that is launched or restored.
Spawns ==
    /\ Now("launch") \/ Now("restore")
    /\ Spawned(Target)
    /\ UNCHANGED <<carriers, program>>

\* A call on a handle begins.
Calls ==
    /\ \/ \E op \in {"deploy", "health", "checkpoint", "shutdown"} :
            Now(op) /\ CallBegins(Target, op)
       \/ Now("look") /\ CallBegins(Target, "checkpoint")
       \/ Now("ask")  /\ CallBegins(Target, "shutdown")
    /\ UNCHANGED <<carriers, program>>

Retries == Now("deploy") /\ DeployRetries /\ UNCHANGED <<carriers, program>>

\* A step on a handle succeeds.
HandleStep ==
    /\ \/ Now("launch")     /\ Launched(Target)
       \/ Now("snapshot")   /\ Snapshotted(Target)
       \/ Now("drop")       /\ Dropped(Target)
       \/ Now("restore")    /\ Restored(Target)
       \/ Now("deploy")     /\ DeploySucceeds
       \/ Now("health")     /\ Printed("health")
       \/ Now("look")       /\ Printed("checkpoint")
       \/ Now("ask")        /\ Printed("shutdown")
       \/ Now("checkpoint") /\ CheckpointSucceeds
       \/ Now("shutdown")   /\ ShutdownReturns
    /\ Continue
    /\ UNCHANGED carriers

\* Packages in the program's own process: the demo agent, packed before or
\* after its think, a package file, and an agent restored from one.
Holds(p) ==
    /\ pkg' = p
    /\ UNCHANGED <<vms, held, call, attempts, snap, breaks, deaths, sent, carriers>>

\* A config-drive has a length before the package: neither form reads as the
\* other.
Readable ==
    /\ file # None
    /\ \/ Now("read")  /\ ~file.framed
       \/ Now("mount") /\ file.framed

Reads == Readable /\ Holds(file.package)

Written == [package |-> pkg, framed |-> Now("burn")]

Writes ==
    /\ Now("write") \/ Now("burn")
    /\ file' = Written
    /\ UNCHANGED <<microVm, process, node, wire, hosted>>

LocalStep ==
    /\ \/ Now("demo")  /\ Holds(Demo)
       \/ Now("think") /\ Holds(Thought(pkg))
       \/ Reads
       \/ Writes
       \/ Now("local") /\ process' = pkg /\ UNCHANGED <<microVm, file, node, wire, hosted>>
       \/ Now("act")   /\ process + Reserve <= Total
                       /\ process' = Thought(process)
                       /\ UNCHANGED <<microVm, file, node, wire, hosted>>
    /\ Continue

\* A file cannot be written: it is as it was, or cut short.  A package cut short
\* cannot be read; a drive that lacks some of its padding can.
WriteFails ==
    \/ Now("write") /\ file' \in {file, None}
    \/ Now("burn")  /\ file' \in {file, None, Written}

\* A step fails: a Firecracker that does not start, an API call it refuses, a
\* file that cannot be written or is not there, a call that came to nothing.
\* The program prints it and returns 1.
Fails ==
    /\ \/ WriteFails
       \/ /\ \/ \E op \in {"launch", "snapshot", "restore"} : Now(op)
             \/ (Now("read") \/ Now("mount")) /\ ~Readable
             \/ Now("act") /\ process + Reserve > Total
             \/ Now("deploy") /\ DeployGivesUp
             \/ Now("checkpoint") /\ CheckpointFails
             \/ Now("send") /\ wire.client = "closed" /\ node.phase # "serving"
             \/ Now("send") /\ wire.client \in {"rejected", "failed"}
          /\ UNCHANGED file
    /\ Exit("failure")

Finishes ==
    /\ Running
    /\ todo = <<>> \/ (Now("send") /\ wire.client = "accepted")
    /\ UNCHANGED file
    /\ Exit("success")

----------------------------------------------------------------------------
\* Migration over TCP: the client sends the package and waits for a byte.

Sends ==
    /\ Now("send") /\ wire.client = "closed" /\ node.phase = "serving"
    /\ wire' = [client |-> "waiting", server |-> "reading", package |-> pkg]
    /\ UNCHANGED <<microVm, program, file, process, node, hosted>>

\* Mutant: the node acknowledges what it has read, and then deploys it.
NodeDeploysAcked ==
    /\ node.phase = "serving" /\ wire.server = "reading"
    /\ \E fits \in BOOLEAN :
         /\ wire' = [wire EXCEPT !.server = "accepting"]
         /\ node' = IF fits THEN [node EXCEPT !.agent = wire.package] ELSE node
         /\ hosted' = IF fits THEN wire.package ELSE hosted
    /\ UNCHANGED <<microVm, program, file, process>>

\* The node has read a package: it deploys it in an environment of its own, in
\* which the package fits or not, and hosts it in the place of the agent it had.
NodeDeploys ==
    /\ node.phase = "serving" /\ wire.server = "reading"
    /\ \/ /\ wire' = [wire EXCEPT !.server = "accepting"]
          /\ node' = [node EXCEPT !.agent = wire.package]
          /\ hosted' = wire.package
       \/ /\ wire' = [wire EXCEPT !.server = "rejecting"]
          /\ UNCHANGED <<node, hosted>>
    /\ UNCHANGED <<microVm, program, file, process>>

NodeAnswers ==
    /\ node.phase = "serving" /\ wire.server \in {"accepting", "rejecting"}
    /\ wire' = [wire EXCEPT
         !.server = "closed",
         !.client = IF @ # "waiting" THEN @
                    ELSE IF wire.server = "accepting" THEN "accepted" ELSE "rejected"]
    /\ UNCHANGED <<microVm, program, file, process, node, hosted>>

\* fabric-node looks for its agent now and then, and exits when it sees it, or
\* after so many looks.  Its connections break, answered or not.
NodeLooks ==
    /\ node.phase = "serving"
    /\ node' = IF node.polls = 0 THEN [NoNode EXCEPT !.phase = "gaveUp"]
               ELSE IF node.agent # None THEN [node EXCEPT !.phase = "received"]
               ELSE [node EXCEPT !.polls = @ - 1]
    /\ wire' = IF node'.phase = "serving" \/ wire.client # "waiting" THEN wire
               ELSE [wire EXCEPT !.client = "failed"]
    /\ UNCHANGED <<microVm, program, file, process, hosted>>

\* The connection breaks under the client; the node may have read the package
\* by then.
WireBreaks ==
    /\ wire.client = "waiting"
    /\ breaks < MaxBreaks
    /\ breaks' = breaks + 1
    /\ \E server \in {wire.server, "closed"} :
         wire' = [wire EXCEPT !.client = "failed", !.server = server]
    /\ UNCHANGED <<vms, held, call, pkg, attempts, snap, deaths, sent, program, file,
                   process, node, hosted>>

----------------------------------------------------------------------------
HostStep ==
    \/ Spawns \/ Calls \/ Retries \/ HandleStep \/ LocalStep \/ Fails \/ Finishes
    \/ Sends

NodeStep == NodeDeploys \/ NodeAnswers \/ NodeLooks

Next ==
    \/ \E j \in DOMAIN Programs : StartJob(j)
    \/ HostStep
    \/ World /\ UNCHANGED <<carriers, program>>
    \/ NodeStep
    \/ WireBreaks

Spec == Init /\ [][Next]_vars

\* The host program, the runner in a VM that runs, and a serving node are
\* scheduled.  Nothing is assumed of a guest that boots or is paused.
FairSpec ==
    /\ Spec
    /\ WF_vars(HostStep)
    /\ \A v \in VMs : WF_vars(GuestServes(v) /\ UNCHANGED <<carriers, program>>)
    /\ WF_vars(NodeStep)

----------------------------------------------------------------------------
\* Properties.

\* "Continued, not reset" (RFC-0006): wherever an agent runs, it goes on from
\* the package that moved it.  A deployment that was tried again, its reply
\* lost, has still charged the one think of the runner; a VM restored from its
\* snapshot goes on with the agent it had in memory.
CarriesState ==
    /\ \A v \in VMs : vms[v].agent # None => vms[v].agent = Thought(sent[v])
    /\ process # None => process \in {pkg, Thought(pkg)}
    /\ node.agent # None => node.agent = pkg

\* RFC-0005 section 3, cutover: in a migration between VMs the agent is at no
\* moment without a VM that runs it, from its deployment until the target is
\* shut down in its turn, and once the source is drained the target has the
\* state captured there (while no VM dies of itself).
CutoverIsSafe ==
    LET left    == Len(todo)
        drained == left = 1 /\ call = None
    IN  Running /\ job = "fcMigrate" /\ deaths = 0 =>
          /\ left \in 2 .. 6 \/ drained => \E v \in VMs : vms[v].agent # None
          /\ drained => vms[b].agent = Thought(pkg) /\ vms[a] = NoVm

\* No Firecracker is left without a handle that kills it, on whichever path its
\* VM was spawned, snapshotted, restored, drained or dropped; and so none outlives
\* the program that spawned it, whichever step of a launch or of the program
\* failed.  (The VM of the host mode is its operator's.)
NoOrphans ==
    job # "host" =>
        \A v \in VMs : vms[v].fc # "none" => Running /\ v \in held

\* What the client is told: a migration reported as accepted has put the very
\* state that was sent on the node.  (It need not be there any more: the node
\* may have given up waiting by then.)
AcceptedWasHosted == job = "netMigrate" /\ code = "success" => hosted = pkg

\* No call has a timeout, and yet every program ends: a call is made only to a
\* VM that serves, or has failed at once, and retries are bounded.
ProgramsEnd == Running ~> ~Running

=============================================================================
