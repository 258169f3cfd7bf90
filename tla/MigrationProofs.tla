--------------------------- MODULE MigrationProofs ---------------------------
(***************************************************************************)
(* Proofs about moving agents between execution contexts, for any budget   *)
(* and cost, any number of tries, broken connections, dead VMs and         *)
(* programs run one after another: an agent goes on from the package that  *)
(* moved it, a migration between VMs always has a VM that runs the agent,  *)
(* no Firecracker is left without a handle that kills it, and a client is  *)
(* told the truth about what the node took over.                           *)
(***************************************************************************)
EXTENDS Migration, TLAPS

Packages == Nat \cup {None}
Ops == {"launch", "deploy", "demo", "health", "look", "ask", "shutdown",
        "checkpoint", "snapshot", "drop", "restore", "write", "read", "burn",
        "mount", "local", "think", "act", "send"}
Steps == [op : Ops, vm : VMs]
Queued == [op : Requests, package : Packages, open : BOOLEAN]
VmStates == [fc : {"none", "spawned", "booting", "running", "paused"},
             agent : Packages, inbox : Seq(Queued)]

\* The variables that the steps compute with keep their types.
TypeOK ==
    /\ vms \in [VMs -> VmStates]
    /\ call \in CallRecords \cup {None}
    /\ {pkg, snap, process, hosted} \subseteq Packages
    /\ sent \in [VMs -> Packages]
    /\ deaths \in Nat
    /\ job \in DOMAIN Programs \cup {"none"}
    /\ todo \in Seq(Steps)
    /\ code \in {"running", "success", "failure"}
    /\ file \in [package : Nat, framed : BOOLEAN] \cup {None}
    /\ node \in [phase : {"off", "serving", "received", "gaveUp"},
                 agent : Packages, polls : Nat]
    /\ wire \in [client : {"closed", "waiting", "accepted", "rejected", "failed"},
                 server : {"closed", "reading", "accepting", "rejecting"},
                 package : Packages]

----------------------------------------------------------------------------
\* The shape of the programs, and of what is left of one.

Uses == {"deploy", "think", "write", "burn", "local", "send"}
Sets == {"demo", "read", "mount"}

\* What is done in which order: a VM is sent one deployment, of a package that
\* the program has; none after a snapshot, which is taken before it is restored;
\* and a process acts last, right after it was restored.
Ordered(s) ==
    /\ \A i \in 1 .. Len(s) : s[i].op \in {"snapshot", "restore"} => s[i].vm = a
    /\ \A i \in 1 .. Len(s), j \in 1 .. Len(s) : i < j =>
         /\ s[i].op # "act" /\ s[i].op # "send"
         /\ s[i].op = "local" => s[j].op = "act"
         /\ s[j].op = "act" => s[j - 1].op = "local"
         /\ s[j].op = "deploy" => s[i].op \notin {"snapshot", "restore"} /\ s[i] # s[j]
         /\ s[i].op = "deploy" /\ s[j].op = "restore" =>
              \E k \in 1 .. Len(s) : i < k /\ k < j /\ s[k].op = "snapshot"

\* Whether the step at i uses the package, or the snapshot, that the program has.
UsesNow(s, i) ==
    s[i].op \in Uses /\ \A j \in 1 .. Len(s) : j < i => s[j].op \notin Sets
RestoresNow(s, i) ==
    s[i].op = "restore" /\ \A j \in 1 .. Len(s) : j < i => s[j].op # "snapshot"

----------------------------------------------------------------------------
\* The inductive invariant.

OpOf(op) == CASE op = "look" -> "checkpoint" [] op = "ask" -> "shutdown" [] OTHER -> op

\* A call is made by the step under way, and only its request awaits a reply.
Called ==
    /\ call # None =>
         /\ Running /\ todo # <<>>
         /\ call.vm = Target /\ call.op = OpOf(Head(todo).op)
         /\ call.op = "checkpoint" /\ call.status = "ok" => call.reply \in Nat
    /\ \A v \in VMs : \A i \in 1 .. Len(vms[v].inbox) :
         vms[v].inbox[i].open =>
           i = Len(vms[v].inbox) /\ Waiting(v) /\ vms[v].inbox[i].op = call.op

\* A program that has ended has nothing left to do.
Ended == ~Running => todo = <<>> /\ call = None

Undeployed(v) ==
    /\ vms[v].agent = None
    /\ \A i \in 1 .. Len(vms[v].inbox) : vms[v].inbox[i].op # "deploy"

\* A VM that is still to be sent a package has seen none, but for earlier
\* attempts at sending that very package.
Fresh ==
    \A v \in VMs, i \in 1 .. Len(todo) : todo[i] = Step("deploy", v) =>
        Undeployed(v) \/ (i = 1 /\ sent[v] = pkg)

\* The agent of a VM goes on from the package the VM was sent, and so does the
\* one that a deployment not served yet will put in its place.
Carried(v) ==
    /\ vms[v].agent # None => vms[v].agent = Thought(sent[v])
    /\ \A i \in 1 .. Len(vms[v].inbox) : vms[v].inbox[i].op = "deploy" =>
         vms[v].inbox[i].package = sent[v] /\ sent[v] \in Nat

SnapCarried == snap # None => snap = Thought(sent[a])

\* What is left of the program, and what it goes on with.
Prepared ==
    /\ Ordered(todo)
    /\ \A i \in 1 .. Len(todo) : UsesNow(todo, i) => pkg \in Nat
    /\ \A i \in 1 .. Len(todo) : RestoresNow(todo, i) => SnapCarried

Restarted ==
    /\ process # None =>
         /\ process \in {pkg, Thought(pkg)}
         /\ \A i \in 1 .. Len(todo) : todo[i].op = "act" /\ process = pkg
    /\ todo # <<>> /\ todo[1].op = "act" => process # None

\* Once a package was sent over TCP it is the one the program holds, the one
\* the node deploys, and the one it hosts.
Shipped ==
    /\ job = "netMigrate" /\ Running => todo # <<>> /\ todo[Len(todo)].op = "send"
    /\ wire.client = "closed" => wire.server = "closed" /\ node.agent = None
    /\ wire.client # "closed" => wire.package = pkg /\ (Running => Now("send"))
    /\ wire.server = "accepting" => hosted = pkg
    /\ wire.client = "accepted" => hosted = pkg /\ wire.server = "closed"
    /\ node.agent # None => node.agent = pkg
    /\ job = "netMigrate" /\ code = "success" => wire.client = "accepted"

Asked(v, op) == \E i \in 1 .. Len(vms[v].inbox) : vms[v].inbox[i].op = op
Replied == call # None /\ call.status = "ok"

\* Where a migration between VMs has got to when so many steps are left, while
\* no VM dies.
Progress(left) ==
    /\ left >= 3 => ~Asked(a, "shutdown")
    /\ left >= 2 => ~Asked(b, "shutdown")
    /\ left \in 3 .. 6 \/ (left = 7 /\ Replied) => vms[a].agent # None
    /\ left \in 2 .. 3 \/ (left = 4 /\ Replied) => vms[b].agent # None
    /\ left \in 1 .. 3 => sent[b] = pkg
    /\ left = 1 /\ call = None =>
         vms[b].agent # None /\ vms[a] = NoVm /\ ~Asked(b, "shutdown")

Moved ==
    Running /\ job = "fcMigrate" =>
        LET left == Len(todo)
        IN  /\ left <= Len(FcMigrate)
            /\ \A i \in 1 .. left : todo[i] = FcMigrate[i + Len(FcMigrate) - left]
            /\ deaths = 0 => Progress(left)

Inv == /\ TypeOK /\ Called /\ Ended /\ Fresh /\ (\A v \in VMs : Carried(v))
       /\ Prepared /\ Restarted /\ Shipped /\ Moved

----------------------------------------------------------------------------
\* The programs.

WellFormed(s) ==
    /\ s \in Seq(Steps) /\ Len(s) > 0 /\ s[1].op # "act"
    /\ Ordered(s)
    /\ \A i \in 1 .. Len(s) : ~UsesNow(s, i) /\ ~RestoresNow(s, i)

\* What is left of a sequence when its head has been taken off.
LEMMA TailFacts ==
  ASSUME NEW S, NEW s \in Seq(S), s # <<>>
  PROVE  /\ Len(s) \in Nat \ {0} /\ Head(s) = s[1] /\ Head(s) \in S
         /\ Tail(s) \in Seq(S) /\ Len(Tail(s)) = Len(s) - 1
         /\ \A i \in 1 .. Len(Tail(s)) : Tail(s)[i] = s[i + 1] /\ i + 1 \in 1 .. Len(s)
  OBVIOUS

\* The programs, step by step.
LEMMA FcMigrateSteps ==
  /\ FcMigrate \in Seq(Steps) /\ Len(FcMigrate) = 9
  /\ FcMigrate[1] = Step("launch", a) /\ FcMigrate[2] = Step("demo", a)
  /\ FcMigrate[3] = Step("deploy", a) /\ FcMigrate[4] = Step("checkpoint", a)
  /\ FcMigrate[5] = Step("launch", b) /\ FcMigrate[6] = Step("deploy", b)
  /\ FcMigrate[7] = Step("health", b)
  /\ FcMigrate[8] = Step("shutdown", a) /\ FcMigrate[9] = Step("shutdown", b)
  BY MigrationAssumption
  DEF FcMigrate, DeployDemo, Launch, Deploy, Step, Steps, Ops

\* The steps of the runner's launch, one by one.
LEMMA FcLaunchSteps ==
  /\ FcLaunch \in Seq(Steps) /\ Len(FcLaunch) = 6
  /\ FcLaunch[1] = Step("launch", a) /\ FcLaunch[2] = Step("demo", a)
  /\ FcLaunch[3] = Step("deploy", a) /\ FcLaunch[4] = Step("health", a)
  /\ FcLaunch[5] = Step("look", a) /\ FcLaunch[6] = Step("shutdown", a)
  BY MigrationAssumption
  DEF FcLaunch, DeployDemo, Launch, Deploy, Step, Steps, Ops

\* The steps of the runner's snapshot mode, one by one.
LEMMA FcSnapshotSteps ==
  /\ FcSnapshot \in Seq(Steps) /\ Len(FcSnapshot) = 8
  /\ FcSnapshot[1] = Step("launch", a) /\ FcSnapshot[2] = Step("demo", a)
  /\ FcSnapshot[3] = Step("deploy", a) /\ FcSnapshot[4] = Step("snapshot", a)
  /\ FcSnapshot[5] = Step("drop", a) /\ FcSnapshot[6] = Step("restore", a)
  /\ FcSnapshot[7] = Step("health", a) /\ FcSnapshot[8] = Step("shutdown", a)
  BY MigrationAssumption
  DEF FcSnapshot, DeployDemo, HealthThenShutdown, Launch, Deploy, Step, Steps, Ops

\* The steps of the host mode, one by one.
LEMMA HostSteps ==
  /\ Host \in Seq(Steps) /\ Len(Host) = 5
  /\ Host[1] = Step("demo", a) /\ Host[2] = Step("deploy", a)
  /\ Host[3] = Step("health", a) /\ Host[4] = Step("look", a)
  /\ Host[5] = Step("ask", a)
  BY MigrationAssumption DEF Host, Deploy, Step, Steps, Ops

\* The steps of the capture mode, one by one.
LEMMA FcCaptureSteps ==
  /\ FcCapture \in Seq(Steps) /\ Len(FcCapture) = 6
  /\ FcCapture[1] = Step("launch", a) /\ FcCapture[2] = Step("demo", a)
  /\ FcCapture[3] = Step("deploy", a) /\ FcCapture[4] = Step("checkpoint", a)
  /\ FcCapture[5] = Step("write", a) /\ FcCapture[6] = Step("shutdown", a)
  BY MigrationAssumption
  DEF FcCapture, DeployDemo, Launch, Deploy, Step, Steps, Ops

\* The steps of the receiving mode, one by one.
LEMMA FcReceiveSteps ==
  /\ FcReceive \in Seq(Steps) /\ Len(FcReceive) = 5
  /\ FcReceive[1] = Step("read", a) /\ FcReceive[2] = Step("launch", a)
  /\ FcReceive[3] = Step("deploy", a) /\ FcReceive[4] = Step("health", a)
  /\ FcReceive[5] = Step("shutdown", a)
  BY MigrationAssumption
  DEF FcReceive, HealthThenShutdown, Launch, Deploy, Step, Steps, Ops

\* Every program has the shape that the invariant relies on.
LEMMA ProgramsWellFormed ==
  /\ WellFormed(FcMigrate) /\ WellFormed(FcLaunch) /\ WellFormed(FcSnapshot)
  /\ WellFormed(Host) /\ WellFormed(FcCapture) /\ WellFormed(FcReceive)
  /\ WellFormed(CaptureLocal) /\ WellFormed(ReceiveLocal)
  /\ WellFormed(MakeDrive) /\ WellFormed(RunDrive) /\ WellFormed(NetMigrate)
  <1>1. WellFormed(FcMigrate)
    BY FcMigrateSteps, MigrationAssumption
    DEF WellFormed, Ordered, UsesNow, RestoresNow, Uses, Sets, Step
  <1>2. WellFormed(FcLaunch)
    BY FcLaunchSteps DEF WellFormed, Ordered, UsesNow, RestoresNow, Uses, Sets, Step
  <1>3. WellFormed(FcSnapshot)
    BY FcSnapshotSteps DEF WellFormed, Ordered, UsesNow, RestoresNow, Uses, Sets, Step
  <1>4. WellFormed(Host)
    BY HostSteps DEF WellFormed, Ordered, UsesNow, RestoresNow, Uses, Sets, Step
  <1>5. WellFormed(FcCapture)
    BY FcCaptureSteps DEF WellFormed, Ordered, UsesNow, RestoresNow, Uses, Sets, Step
  <1>6. WellFormed(FcReceive)
    BY FcReceiveSteps DEF WellFormed, Ordered, UsesNow, RestoresNow, Uses, Sets, Step
  <1>7. WellFormed(CaptureLocal) /\ WellFormed(ReceiveLocal)
    BY MigrationAssumption DEF CaptureLocal, ReceiveLocal, WellFormed, Ordered,
       UsesNow, RestoresNow, Uses, Sets, Step, Steps, Ops
  <1>8. WellFormed(MakeDrive) /\ WellFormed(RunDrive) /\ WellFormed(NetMigrate)
    BY MigrationAssumption DEF MakeDrive, RunDrive, NetMigrate, WellFormed, Ordered,
       UsesNow, RestoresNow, Uses, Sets, Step, Steps, Ops
  <1>9. QED
    BY <1>1, <1>2, <1>3, <1>4, <1>5, <1>6, <1>7, <1>8

\* So does what is left of one; and once its head is done the rest can rely on
\* what the head gave it.
LEMMA RestWellFormed ==
  ASSUME NEW s \in Seq(Steps), s # <<>>, Ordered(s)
  PROVE  /\ Ordered(Tail(s))
         /\ \A i \in 1 .. Len(Tail(s)) :
              /\ UsesNow(Tail(s), i) => Head(s).op \in Sets \/ UsesNow(s, i + 1)
              /\ RestoresNow(Tail(s), i) => Head(s).op = "snapshot" \/ RestoresNow(s, i + 1)
  <1> DEFINE t == Tail(s)
  <1>1. /\ Len(s) \in Nat \ {0} /\ Head(s) = s[1] /\ Len(t) = Len(s) - 1
        /\ \A i \in 1 .. Len(t) : t[i] = s[i + 1] /\ i + 1 \in 1 .. Len(s)
    BY TailFacts
  <1> HIDE DEF t
  <1>2. Ordered(t)
    <2>1. \A i \in 1 .. Len(t) : t[i].op \in {"snapshot", "restore"} => t[i].vm = a
      BY <1>1 DEF Ordered
    <2>2. ASSUME NEW i \in 1 .. Len(t), NEW j \in 1 .. Len(t), i < j
          PROVE  /\ t[i].op # "act" /\ t[i].op # "send"
                 /\ t[i].op = "local" => t[j].op = "act"
                 /\ t[j].op = "act" => t[j - 1].op = "local"
                 /\ t[j].op = "deploy" =>
                      t[i].op \notin {"snapshot", "restore"} /\ t[i] # t[j]
                 /\ t[i].op = "deploy" /\ t[j].op = "restore" =>
                      \E k \in 1 .. Len(s) : i + 1 < k /\ k < j + 1 /\ s[k].op = "snapshot"
      <3>1. /\ t[i] = s[i + 1] /\ i + 1 \in 1 .. Len(s)
            /\ t[j] = s[j + 1] /\ j + 1 \in 1 .. Len(s) /\ i + 1 < j + 1
            /\ t[j - 1] = s[j] /\ (j + 1) - 1 = j
        BY <1>1, <2>2
      <3>2. QED
        BY <3>1 DEF Ordered
    <2>3. ASSUME NEW i \in 1 .. Len(t), NEW j \in 1 .. Len(t), NEW k \in 1 .. Len(s),
                 i + 1 < k, k < j + 1, s[k].op = "snapshot"
          PROVE  \E l \in 1 .. Len(t) : i < l /\ l < j /\ t[l].op = "snapshot"
      <3>1. k - 1 \in 1 .. Len(t) /\ i < k - 1 /\ k - 1 < j /\ (k - 1) + 1 = k
        BY <1>1, <2>3
      <3>2. QED
        BY <1>1, <2>3, <3>1
    <2>4. QED
      BY <2>1, <2>2, <2>3 DEF Ordered
  <1>3. ASSUME NEW i \in 1 .. Len(t), UsesNow(t, i), Head(s).op \notin Sets
        PROVE  UsesNow(s, i + 1)
    <2>1. ASSUME NEW j \in 1 .. Len(s), j < i + 1 PROVE s[j].op \notin Sets
      <3>1. CASE j = 1
        BY <1>1, <1>3, <3>1
      <3>2. CASE j # 1
        <4>1. j - 1 \in 1 .. Len(t) /\ j - 1 < i /\ (j - 1) + 1 = j
          BY <1>1, <2>1, <3>2
        <4>2. QED
          BY <1>1, <1>3, <4>1 DEF UsesNow
      <3>3. QED
        BY <3>1, <3>2
    <2>2. QED
      BY <1>1, <1>3, <2>1 DEF UsesNow
  <1>4. ASSUME NEW i \in 1 .. Len(t), RestoresNow(t, i), Head(s).op # "snapshot"
        PROVE  RestoresNow(s, i + 1)
    <2>1. ASSUME NEW j \in 1 .. Len(s), j < i + 1 PROVE s[j].op # "snapshot"
      <3>1. CASE j = 1
        BY <1>1, <1>4, <3>1
      <3>2. CASE j # 1
        <4>1. j - 1 \in 1 .. Len(t) /\ j - 1 < i /\ (j - 1) + 1 = j
          BY <1>1, <2>1, <3>2
        <4>2. QED
          BY <1>1, <1>4, <4>1 DEF RestoresNow
      <3>3. QED
        BY <3>1, <3>2
    <2>2. QED
      BY <1>1, <1>4, <2>1 DEF RestoresNow
  <1>5. QED
    BY <1>2, <1>3, <1>4 DEF t

----------------------------------------------------------------------------
\* What the steps have in common.

\* A queue with one more request.
LEMMA AppendFacts ==
  ASSUME NEW S, NEW s \in Seq(S), NEW x \in S
  PROVE  /\ Append(s, x) \in Seq(S) /\ Len(Append(s, x)) = Len(s) + 1
         /\ \A i \in 1 .. Len(Append(s, x)) :
              \/ i \in 1 .. Len(s) /\ Append(s, x)[i] = s[i]
              \/ i = Len(Append(s, x)) /\ Append(s, x)[i] = x
  OBVIOUS

\* A think keeps a package a package.
LEMMA ThoughtIsPackage ==
  /\ \A p \in Nat : Thought(p) \in Nat /\ p # None
  /\ None \notin Nat /\ None \notin CallRecords
  BY MicroVmAssumption DEF Thought

\* A VM that loses agents and requests, and gains none.
Lesser(v) ==
    /\ vms'[v].agent \in {None, vms[v].agent}
    /\ \A i \in 1 .. Len(vms'[v].inbox) : \E k \in 1 .. Len(vms[v].inbox) :
         /\ vms'[v].inbox[i].op = vms[v].inbox[k].op
         /\ vms'[v].inbox[i].package = vms[v].inbox[k].package
         /\ vms'[v].inbox[i].open => vms[v].inbox[k].open

\* A step that only ends a VM or its requests keeps what was shipped.
LEMMA LesserKeeps ==
  ASSUME NEW v \in VMs, Carried(v), Lesser(v), sent' = sent
  PROVE  /\ Carried(v)'
         /\ Undeployed(v) => Undeployed(v)'
         /\ \A op : Asked(v, op)' => Asked(v, op)
         /\ (\A i \in 1 .. Len(vms[v].inbox) : ~vms[v].inbox[i].open)
            => \A i \in 1 .. Len(vms'[v].inbox) : ~vms'[v].inbox[i].open
  <1>1. Carried(v)'
    BY DEF Carried, Lesser
  <1>2. Undeployed(v) => Undeployed(v)'
    BY DEF Undeployed, Lesser
  <1>3. ASSUME NEW op, Asked(v, op)' PROVE Asked(v, op)
    BY <1>3 DEF Asked, Lesser
  <1>4. ASSUME \A i \in 1 .. Len(vms[v].inbox) : ~vms[v].inbox[i].open
        PROVE  \A i \in 1 .. Len(vms'[v].inbox) : ~vms'[v].inbox[i].open
    BY <1>4 DEF Lesser
  <1>5. QED
    BY <1>1, <1>2, <1>3, <1>4

\* A VM that is left alone, and one that is taken away or started anew.
LEMMA IsLesser ==
  ASSUME NEW v \in VMs,
         \/ vms'[v] = vms[v]
         \/ vms'[v].agent \in {None, vms[v].agent} /\ vms'[v].inbox = vms[v].inbox
         \/ vms'[v].agent \in {None, vms[v].agent} /\ vms'[v].inbox = <<>>
  PROVE  Lesser(v)
  BY DEF Lesser

\* The state of one VM, by its type.
LEMMA VmTyped ==
  ASSUME TypeOK, NEW v \in VMs
  PROVE  /\ vms[v] \in VmStates /\ vms[v].agent \in Packages
         /\ vms[v].inbox \in Seq(Queued) /\ Len(vms[v].inbox) \in Nat
         /\ \A i \in 1 .. Len(vms[v].inbox) : vms[v].inbox[i] \in Queued
         /\ NoVm \in VmStates
  <1>1. vms[v] \in VmStates
    BY DEF TypeOK
  <1>2. vms[v].inbox \in Seq(Queued) /\ vms[v].agent \in Packages
    BY <1>1 DEF VmStates
  <1>3. NoVm \in VmStates
    BY DEF NoVm, VmStates, Packages
  <1>4. QED
    BY <1>1, <1>2, <1>3

\* Where a migration between VMs is, by the step at its head.
LEMMA MovedAt ==
  ASSUME TypeOK, Moved, Running, job = "fcMigrate", todo # <<>>
  PROVE  LET left == Len(todo)
         IN  /\ left \in 1 .. 9
             /\ left = 9 => Head(todo) = Step("launch", a)
             /\ left = 8 => Head(todo) = Step("demo", a)
             /\ left = 7 => Head(todo) = Step("deploy", a)
             /\ left = 6 => Head(todo) = Step("checkpoint", a)
             /\ left = 5 => Head(todo) = Step("launch", b)
             /\ left = 4 => Head(todo) = Step("deploy", b)
             /\ left = 3 => Head(todo) = Step("health", b)
             /\ left = 2 => Head(todo) = Step("shutdown", a)
             /\ left = 1 => Head(todo) = Step("shutdown", b)
  <1>1. todo \in Seq(Steps)
    BY DEF TypeOK
  <1>2. Head(todo) = todo[1]
    BY <1>1, TailFacts
  <1>3. \A i \in 1 .. Len(todo) : todo[i] = FcMigrate[i + 9 - Len(todo)]
    BY FcMigrateSteps DEF Moved
  <1>4. 1 \in 1 .. Len(todo) /\ Len(todo) \in 1 .. 9
    <2> DEFINE n == Len(todo)
    <2>1. n <= 9
      BY FcMigrateSteps DEF Moved
    <2>2. n \in Nat \ {0}
      BY <1>1, TailFacts
    <2> HIDE DEF n
    <2>3. 1 \in 1 .. n /\ n \in 1 .. 9
      BY <2>1, <2>2
    <2>4. QED
      BY <2>3 DEF n
  <1>5. todo[1] = FcMigrate[10 - Len(todo)]
    <2>1. todo[1] = FcMigrate[1 + 9 - Len(todo)]
      BY <1>3, <1>4
    <2>2. 1 + 9 - Len(todo) = 10 - Len(todo)
      BY <1>4
    <2>3. QED
      BY <2>1, <2>2
  <1>6. ASSUME Len(todo) = 9 PROVE Head(todo) = Step("launch", a)
    BY <1>2, <1>5, <1>6, FcMigrateSteps
  <1>7. ASSUME Len(todo) = 8 PROVE Head(todo) = Step("demo", a)
    BY <1>2, <1>5, <1>7, FcMigrateSteps
  <1>8. ASSUME Len(todo) = 7 PROVE Head(todo) = Step("deploy", a)
    BY <1>2, <1>5, <1>8, FcMigrateSteps
  <1>9. ASSUME Len(todo) = 6 PROVE Head(todo) = Step("checkpoint", a)
    BY <1>2, <1>5, <1>9, FcMigrateSteps
  <1>10. ASSUME Len(todo) = 5 PROVE Head(todo) = Step("launch", b)
    BY <1>2, <1>5, <1>10, FcMigrateSteps
  <1>11. ASSUME Len(todo) = 4 PROVE Head(todo) = Step("deploy", b)
    BY <1>2, <1>5, <1>11, FcMigrateSteps
  <1>12. ASSUME Len(todo) = 3 PROVE Head(todo) = Step("health", b)
    BY <1>2, <1>5, <1>12, FcMigrateSteps
  <1>13. ASSUME Len(todo) = 2 PROVE Head(todo) = Step("shutdown", a)
    BY <1>2, <1>5, <1>13, FcMigrateSteps
  <1>14. ASSUME Len(todo) = 1 PROVE Head(todo) = Step("shutdown", b)
    BY <1>2, <1>5, <1>14, FcMigrateSteps
  <1>15. QED
    BY <1>4, <1>6, <1>7, <1>8, <1>9, <1>10, <1>11, <1>12, <1>13, <1>14

\* And how it goes on.
LEMMA MovedOn ==
  ASSUME TypeOK, Moved, Running, job = "fcMigrate", todo # <<>>, todo' = Tail(todo)
  PROVE  /\ Len(todo') = Len(todo) - 1 /\ Len(todo') <= Len(FcMigrate)
         /\ \A i \in 1 .. Len(todo') :
              todo'[i] = FcMigrate[i + Len(FcMigrate) - Len(todo')]
  <1>1. todo \in Seq(Steps)
    BY DEF TypeOK
  <1>2. /\ Len(todo) \in Nat \ {0} /\ Len(todo') = Len(todo) - 1
        /\ \A i \in 1 .. Len(todo') : todo'[i] = todo[i + 1] /\ i + 1 \in 1 .. Len(todo)
    BY <1>1, TailFacts
  <1>3. /\ Len(todo) <= 9
        /\ \A i \in 1 .. Len(todo) : todo[i] = FcMigrate[i + 9 - Len(todo)]
    BY FcMigrateSteps DEF Moved
  <1>4. ASSUME NEW i \in 1 .. Len(todo')
        PROVE  todo'[i] = FcMigrate[i + 9 - Len(todo')]
    <2>1. todo'[i] = FcMigrate[(i + 1) + 9 - Len(todo)]
      BY <1>2, <1>3
    <2>2. (i + 1) + 9 - Len(todo) = i + 9 - Len(todo')
      BY <1>2
    <2>3. QED
      BY <2>1, <2>2
  <1>5. QED
    BY <1>2, <1>3, <1>4, FcMigrateSteps

\* Before the last step of a program nothing was restored into its process,
\* and nothing was sent over TCP.
LEMMA BeforeTheEnd ==
  ASSUME TypeOK, Restarted, Shipped, Running, todo # <<>>
  PROVE  /\ Head(todo).op # "act" => process = None
         /\ Head(todo).op # "send" =>
              /\ wire.client = "closed" /\ wire.server = "closed"
              /\ node.agent = None
  <1>1. todo \in Seq(Steps)
    BY DEF TypeOK
  <1>2. Len(todo) \in Nat \ {0} /\ Head(todo) = todo[1]
    BY <1>1, TailFacts
  <1>3. QED
    BY <1>2 DEF Restarted, Shipped, Now

\* A step that goes on to the rest of the program.
LEMMA ContinuePrepared ==
  ASSUME TypeOK, Prepared, todo # <<>>, todo' = Tail(todo),
         Head(todo).op \in Sets \/ pkg \in Nat => pkg' \in Nat,
         SnapCarried' \/ (Head(todo).op # "snapshot" /\ UNCHANGED <<snap, sent>>)
  PROVE  Prepared' /\ todo' \in Seq(Steps)
  <1>1. todo \in Seq(Steps) /\ Ordered(todo)
    BY DEF TypeOK, Prepared
  <1>2. /\ Ordered(todo') /\ todo' \in Seq(Steps)
        /\ \A i \in 1 .. Len(todo') :
              /\ i + 1 \in 1 .. Len(todo)
              /\ UsesNow(todo', i) => Head(todo).op \in Sets \/ UsesNow(todo, i + 1)
              /\ RestoresNow(todo', i) =>
                   Head(todo).op = "snapshot" \/ RestoresNow(todo, i + 1)
    BY <1>1, RestWellFormed, TailFacts
  <1>3. \A i \in 1 .. Len(todo') : UsesNow(todo', i) => pkg' \in Nat
    BY <1>2 DEF Prepared
  <1>4. \A i \in 1 .. Len(todo') : RestoresNow(todo', i) => SnapCarried'
    BY <1>2 DEF Prepared, SnapCarried
  <1>5. QED
    BY <1>2, <1>3, <1>4 DEF Prepared

\* Going on to the next step leaves what is fresh as it was.
LEMMA ContinueFresh ==
  ASSUME TypeOK, Fresh, todo # <<>>, todo' = Tail(todo),
         \A v \in VMs, i \in 2 .. Len(todo) :
            todo[i] = Step("deploy", v) /\ Undeployed(v) => Undeployed(v)'
  PROVE  Fresh'
  <1>1. todo \in Seq(Steps)
    BY DEF TypeOK
  <1>2. \A i \in 1 .. Len(todo') : todo'[i] = todo[i + 1] /\ i + 1 \in 1 .. Len(todo)
    BY <1>1, TailFacts
  <1>3. ASSUME NEW v \in VMs, NEW i \in 1 .. Len(todo'), todo'[i] = Step("deploy", v)
        PROVE  Undeployed(v)'
    <2>1. i + 1 \in 2 .. Len(todo) /\ i + 1 # 1 /\ todo[i + 1] = Step("deploy", v)
      BY <1>2, <1>3
    <2>2. Undeployed(v)
      BY <1>2, <2>1 DEF Fresh
    <2>3. QED
      BY <2>1, <2>2
  <1>4. QED
    BY <1>3 DEF Fresh

\* Going on to the next step leaves what was shipped as it was.
LEMMA ContinueShipped ==
  ASSUME TypeOK, Restarted, Shipped, Running, todo # <<>>, todo' = Tail(todo),
         Head(todo).op # "send", UNCHANGED <<job, code, node, wire, hosted>>
  PROVE  Shipped'
  <1>1. todo \in Seq(Steps)
    BY DEF TypeOK
  <1>2. /\ Len(todo) \in Nat \ {0} /\ Head(todo) = todo[1]
        /\ todo' \in Seq(Steps) /\ Len(todo') = Len(todo) - 1
        /\ \A i \in 1 .. Len(todo') : todo'[i] = todo[i + 1]
    BY <1>1, TailFacts
  <1>3. wire.client = "closed" /\ wire.server = "closed" /\ node.agent = None
    BY BeforeTheEnd
  <1>4. ASSUME job = "netMigrate" PROVE todo' # <<>> /\ todo'[Len(todo')].op = "send"
    <2>1. todo[Len(todo)].op = "send"
      BY <1>4 DEF Shipped
    <2>2. Len(todo) # 1
      BY <1>2, <2>1
    <2>3. Len(todo') \in 1 .. Len(todo') /\ Len(todo') + 1 = Len(todo)
      BY <1>2, <2>2
    <2>4. todo' # <<>>
      <3>1. Len(todo') # 0
        BY <2>3
      <3>2. todo' = <<>> => Len(todo') = 0
        OBVIOUS
      <3>3. QED
        BY <3>1, <3>2
    <2>5. QED
      BY <1>2, <2>1, <2>3, <2>4
  <1>5. job = "netMigrate" /\ code = "success" => FALSE
    BY DEF Running
  <1>6. QED
    BY <1>3, <1>4, <1>5 DEF Shipped, Running

----------------------------------------------------------------------------
\* What befalls the VMs and their connections.

\* A step of the world that adds nothing: VMs may lose agents and requests, and
\* the call under way may fail.
LEMMA LesserStep ==
  ASSUME Inv, UNCHANGED <<carriers, program, pkg, snap, sent>>,
         vms' \in [VMs -> VmStates], call' \in CallRecords \cup {None}, deaths' \in Nat,
         \A v \in VMs : Lesser(v), \A v \in VMs : vms[v] = NoVm => vms'[v] = NoVm,
         Called', call' = None <=> call = None, Replied' => Replied,
         deaths' = 0 => deaths = 0 /\ \A v \in VMs : vms'[v].agent = vms[v].agent
  PROVE  Inv'
  <1>1. UNCHANGED <<file, process, node, wire, hosted, job, todo, code, jobs>>
    BY DEF carriers, program
  <1>2. \A v \in VMs : /\ Carried(v)' /\ (Undeployed(v) => Undeployed(v)')
                       /\ \A op : Asked(v, op)' => Asked(v, op)
    BY LesserKeeps DEF Inv
  <1>3. TypeOK'
    BY <1>1 DEF Inv, TypeOK
  <1>4. Ended'
    BY <1>1 DEF Inv, Ended, Running
  <1>5. Fresh'
    BY <1>1, <1>2 DEF Inv, Fresh
  <1>6. Prepared'
    BY <1>1 DEF Inv, Prepared, SnapCarried
  <1>7. Restarted'
    BY <1>1 DEF Inv, Restarted
  <1>8. Shipped'
    BY <1>1 DEF Inv, Shipped, Running, Now
  <1>9. Moved'
    <2> SUFFICES ASSUME Running', job' = "fcMigrate" PROVE
                LET left == Len(todo')
                IN  /\ left <= Len(FcMigrate)
                    /\ \A i \in 1 .. left : todo'[i] = FcMigrate[i + Len(FcMigrate) - left]
                    /\ deaths' = 0 =>
                         /\ left >= 3 => ~Asked(a, "shutdown")'
                         /\ left >= 2 => ~Asked(b, "shutdown")'
                         /\ left \in 3 .. 6 \/ (left = 7 /\ Replied') => vms'[a].agent # None
                         /\ left \in 2 .. 3 \/ (left = 4 /\ Replied') => vms'[b].agent # None
                         /\ left \in 1 .. 3 => sent'[b] = pkg'
                         /\ left = 1 /\ call' = None =>
                              /\ vms'[b].agent # None /\ vms'[a] = NoVm
                              /\ ~Asked(b, "shutdown")'
      BY DEF Moved, Progress
    <2>1. Running /\ job = "fcMigrate" /\ a \in VMs /\ b \in VMs
      BY <1>1, MigrationAssumption DEF Running
    <2>2. QED
      BY <1>1, <1>2, <2>1 DEF Inv, Moved, Progress
  <1>10. QED
    BY <1>2, <1>3, <1>4, <1>5, <1>6, <1>7, <1>8, <1>9 DEF Inv

\* A guest that has booted preserves the invariant.
LEMMA BootsStep ==
  ASSUME Inv, NEW v \in VMs, Boots(v), UNCHANGED <<carriers, program>>
  PROVE  Inv'
  <1>1. /\ vms' = [vms EXCEPT ![v].fc = "running"] /\ vms[v].fc = "booting"
        /\ UNCHANGED <<call, pkg, attempts, snap, breaks, deaths, sent>>
    BY DEF Boots
  <1>2. /\ vms' \in [VMs -> VmStates]
        /\ \A w \in VMs : /\ vms'[w].agent = vms[w].agent
                          /\ vms'[w].inbox = vms[w].inbox
                          /\ vms[w] = NoVm => vms'[w] = NoVm
    <2>1. vms \in [VMs -> VmStates] /\ vms[v] \in VmStates /\ NoVm.fc = "none"
      BY VmTyped DEF Inv, TypeOK, NoVm
    <2>2. [vms[v] EXCEPT !.fc = "running"] \in VmStates
      BY <2>1 DEF VmStates
    <2>3. vms' \in [VMs -> VmStates]
      BY <1>1, <2>1, <2>2
    <2>4. \A w \in VMs : vms'[w].agent = vms[w].agent /\ vms'[w].inbox = vms[w].inbox
      BY <1>1, <2>1 DEF VmStates
    <2>5. \A w \in VMs : vms[w] = NoVm => vms'[w] = NoVm
      BY <1>1, <2>1
    <2>6. QED
      BY <2>3, <2>4, <2>5
  <1>3. \A w \in VMs : Lesser(w)
    BY <1>2, IsLesser
  <1>4. Called'
    BY <1>1, <1>2 DEF Inv, Called, Waiting, Running, Target, program
  <1>5. call' \in CallRecords \cup {None} /\ deaths' \in Nat
    BY <1>1 DEF Inv, TypeOK
  <1>6. Replied' => Replied
    BY <1>1 DEF Replied
  <1>7. QED
    BY <1>1, <1>2, <1>3, <1>4, <1>5, <1>6, LesserStep

\* The request of a call that waits is the last of its VM, and the only open one.
LEMMA BreakStep ==
  ASSUME Inv, NEW v \in VMs, ConnectionBreaks(v), UNCHANGED <<carriers, program>>
  PROVE  Inv'
  <1> DEFINE last == Len(vms[v].inbox)
             q == vms[v].inbox
  <1>1. /\ Waiting(v) /\ call' = [call EXCEPT !.status = "failed"]
        /\ UNCHANGED <<pkg, attempts, snap, deaths, sent>>
        /\ \/ vms' = [vms EXCEPT ![v].inbox[last].open = FALSE]
           \/ vms' = [vms EXCEPT ![v].inbox = SubSeq(@, 1, last - 1)]
    BY DEF ConnectionBreaks
  <1>2. /\ call \in CallRecords /\ call' \in CallRecords
        /\ call'.status = "failed" /\ call'.vm = call.vm /\ call'.op = call.op
    BY <1>1 DEF Waiting, Inv, TypeOK, CallRecords
  <1>3. call # None /\ call' # None /\ ~Replied'
    BY <1>1, <1>2, ThoughtIsPackage DEF Waiting, Replied
  <1>4. q \in Seq(Queued) /\ last \in Nat /\ vms[v] \in VmStates
    BY VmTyped DEF Inv
  <1>5. /\ vms' \in [VMs -> VmStates]
        /\ \A w \in VMs : w # v => vms'[w] = vms[w]
        /\ vms'[v].agent = vms[v].agent
        /\ vms'[v].fc = vms[v].fc
        /\ Len(vms'[v].inbox) <= last
        /\ \A i \in 1 .. Len(vms'[v].inbox) :
             /\ i \in 1 .. last
             /\ vms'[v].inbox[i].op = q[i].op /\ vms'[v].inbox[i].package = q[i].package
             /\ ~vms'[v].inbox[i].open
    <2>1. \A i \in 1 .. last : q[i] \in Queued /\ (q[i].open => i = last)
      BY <1>4 DEF Inv, Called
    <2>2. CASE vms' = [vms EXCEPT ![v].inbox[last].open = FALSE]
      <3> DEFINE r == [q EXCEPT ![last].open = FALSE]
      <3>1. r \in Seq(Queued) /\ Len(r) = last
        <4>1. q \in [1 .. last -> Queued]
          BY <1>4
        <4>2. \A i \in 1 .. last : [q[i] EXCEPT !.open = FALSE] \in Queued
          BY <2>1 DEF Queued
        <4> HIDE DEF last, q
        <4>3. r \in [1 .. last -> Queued]
          BY <4>1, <4>2
        <4>4. QED
          BY <1>4, <4>3
      <3>2. \A i \in 1 .. Len(r) : /\ i \in 1 .. last /\ r[i].op = q[i].op
                                   /\ r[i].package = q[i].package /\ ~r[i].open
        BY <1>4, <2>1, <3>1 DEF Queued
      <3>3. vms' = [vms EXCEPT ![v].inbox = r]
        BY <2>2
      <3> HIDE DEF r
      <3>4. /\ vms' \in [VMs -> VmStates]
            /\ \A w \in VMs : w # v => vms'[w] = vms[w]
            /\ vms'[v].agent = vms[v].agent /\ vms'[v].inbox = r
            /\ vms'[v].fc = vms[v].fc
        BY <1>4, <3>1, <3>3 DEF Inv, TypeOK, VmStates
      <3>5. QED
        BY <1>4, <3>1, <3>2, <3>4
    <2>3. CASE vms' = [vms EXCEPT ![v].inbox = SubSeq(@, 1, last - 1)]
      <3> DEFINE r == SubSeq(q, 1, last - 1)
      <3>1. /\ r \in Seq(Queued) /\ Len(r) <= last
            /\ \A i \in 1 .. Len(r) : i \in 1 .. last /\ i # last /\ r[i] = q[i]
        BY <1>4
      <3>2. vms' = [vms EXCEPT ![v].inbox = r]
        BY <2>3
      <3> HIDE DEF r
      <3>3. /\ vms' \in [VMs -> VmStates]
            /\ \A w \in VMs : w # v => vms'[w] = vms[w]
            /\ vms'[v].agent = vms[v].agent /\ vms'[v].inbox = r
            /\ vms'[v].fc = vms[v].fc
        BY <1>4, <3>1, <3>2 DEF Inv, TypeOK, VmStates
      <3>4. \A i \in 1 .. Len(r) : ~r[i].open
        BY <2>1, <3>1
      <3>5. QED
        BY <3>1, <3>3, <3>4
    <2>4. QED
      BY <1>1, <2>2, <2>3
  <1> HIDE DEF last, q
  <1>6. \A w \in VMs : Lesser(w)
    <2>1. \A w \in VMs : w # v => Lesser(w)
      BY <1>5, IsLesser
    <2>2. Lesser(v)
      BY <1>5 DEF Lesser, last, q
    <2>3. QED
      BY <2>1, <2>2
  <1>7. Called'
    <2>1. UNCHANGED <<todo, code>>
      BY DEF program
    <2>2. \A w \in VMs : w # v => ~Waiting(w)
      BY <1>1 DEF Waiting
    <2>3. \A w \in VMs : \A i \in 1 .. Len(vms'[w].inbox) : ~vms'[w].inbox[i].open
      BY <1>5, <2>2 DEF Inv, Called
    <2>4. QED
      BY <1>2, <1>3, <2>1, <2>3 DEF Inv, Called, Running, Target
  <1>8. \A w \in VMs : /\ vms'[w].agent = vms[w].agent
                       /\ vms[w] = NoVm => vms'[w] = NoVm
    <2>1. ASSUME vms[v] = NoVm PROVE vms'[v] = NoVm
      <3>1. last = 0 /\ vms'[v] \in VmStates
        BY <1>5, <2>1 DEF last, NoVm
      <3>2. Len(vms'[v].inbox) \in Nat /\ vms'[v].inbox \in Seq(Queued)
        BY <3>1 DEF VmStates
      <3>3. vms'[v].inbox = <<>>
        BY <1>5, <3>1, <3>2
      <3>4. QED
        BY <1>5, <2>1, <3>1, <3>3 DEF NoVm, VmStates
    <2>2. QED
      BY <1>5, <2>1
  <1>9. deaths' \in Nat
    BY <1>1 DEF Inv, TypeOK
  <1>10. QED
    BY <1>1, <1>2, <1>3, <1>5, <1>6, <1>7, <1>8, <1>9, LesserStep

\* A reply that is lost preserves the invariant.
LEMMA ReplyLostStep ==
  ASSUME Inv, ReplyIsLost, UNCHANGED <<carriers, program>>
  PROVE  Inv'
  <1>1. /\ call # None /\ call.status # "waiting"
        /\ call' = [call EXCEPT !.status = "failed"]
        /\ UNCHANGED <<vms, pkg, attempts, snap, deaths, sent>>
    BY DEF ReplyIsLost
  <1>2. /\ call \in CallRecords /\ call' \in CallRecords
        /\ call'.status = "failed" /\ call'.vm = call.vm /\ call'.op = call.op
    BY <1>1 DEF Inv, TypeOK, CallRecords
  <1>3. call # None /\ call' # None /\ ~Replied'
    BY <1>1, <1>2, ThoughtIsPackage DEF Replied
  <1>4. Called'
    <2>1. UNCHANGED <<todo, code>>
      BY DEF program
    <2>2. \A w \in VMs : ~Waiting(w)
      BY <1>1 DEF Waiting
    <2>3. QED
      BY <1>1, <1>2, <1>3, <2>1, <2>2 DEF Inv, Called, Running, Target
  <1>5. \A w \in VMs : Lesser(w)
    BY <1>1, IsLesser
  <1>6. vms' \in [VMs -> VmStates] /\ deaths' \in Nat
    BY <1>1 DEF Inv, TypeOK
  <1>7. QED
    BY <1>1, <1>2, <1>3, <1>4, <1>5, <1>6, LesserStep

\* A VM that dies preserves the invariant.
LEMMA DiesStep ==
  ASSUME Inv, NEW v \in VMs, VmDies(v), UNCHANGED <<carriers, program>>
  PROVE  Inv'
  <1>1. /\ vms' = [vms EXCEPT ![v] = NoVm]
        /\ deaths' = deaths + 1
        /\ call' = IF Waiting(v) THEN [call EXCEPT !.status = "failed"] ELSE call
        /\ UNCHANGED <<pkg, snap, sent>>
    BY DEF VmDies
  <1>2. deaths' \in Nat /\ deaths' # 0
    <2>1. deaths \in Nat
      BY DEF Inv, TypeOK
    <2>2. deaths' = deaths + 1
      BY <1>1
    <2>3. QED
      BY <2>1, <2>2
  <1>3. /\ call' \in CallRecords \cup {None}
        /\ call' = None <=> call = None
        /\ call # None => call'.vm = call.vm /\ call'.op = call.op /\ call'.reply = call.reply
        /\ call # None => call'.status = IF Waiting(v) THEN "failed" ELSE call.status
    <2>1. CASE Waiting(v)
      <3>1. call \in CallRecords
        BY <2>1 DEF Waiting, Inv, TypeOK
      <3>2. /\ call' \in CallRecords /\ call'.vm = call.vm /\ call'.op = call.op
            /\ call'.reply = call.reply /\ call'.status = "failed"
        BY <1>1, <2>1, <3>1 DEF CallRecords
      <3>3. QED
        BY <2>1, <3>1, <3>2, ThoughtIsPackage
    <2>2. CASE ~Waiting(v)
      BY <1>1, <2>2 DEF Inv, TypeOK
    <2>3. QED
      BY <2>1, <2>2
  <1>4. \A w \in VMs : vms'[w] = IF w = v THEN NoVm ELSE vms[w]
    BY <1>1 DEF Inv, TypeOK
  <1>5. vms' \in [VMs -> VmStates]
    BY <1>1, VmTyped DEF Inv, TypeOK
  <1>6. \A w \in VMs : Lesser(w)
    BY <1>4, IsLesser DEF NoVm
  <1>7. Called'
    <2>1. UNCHANGED <<todo, code>>
      BY DEF program
    <2>2. \A w \in VMs : w # v => (Waiting(w)' <=> Waiting(w))
      BY <1>3 DEF Waiting
    <2>3. Len(NoVm.inbox) = 0
      BY DEF NoVm
    <2>4. \A w \in VMs : \A i \in 1 .. Len(vms'[w].inbox) :
            vms'[w].inbox[i].open =>
              i = Len(vms'[w].inbox) /\ Waiting(w)' /\ vms'[w].inbox[i].op = call'.op
      <3> SUFFICES ASSUME NEW w \in VMs, NEW i \in 1 .. Len(vms'[w].inbox),
                          vms'[w].inbox[i].open
                   PROVE  i = Len(vms'[w].inbox) /\ Waiting(w)' /\ vms'[w].inbox[i].op = call'.op
        OBVIOUS
      <3>1. w # v /\ vms'[w] = vms[w]
        BY <1>4, <2>3
      <3>2. QED
        BY <1>3, <2>2, <3>1 DEF Inv, Called, Waiting
    <2>5. QED
      BY <1>3, <2>1, <2>4 DEF Inv, Called, Running, Target
  <1>8. Replied' => Replied
    BY <1>3 DEF Replied
  <1>9. QED
    BY <1>1, <1>2, <1>3, <1>4, <1>5, <1>6, <1>7, <1>8, LesserStep

\* The runner serves the request at the head of its queue.
LEMMA ServesStep ==
  ASSUME Inv, NEW v \in VMs, GuestServes(v), UNCHANGED <<carriers, program>>
  PROVE  Inv'
  <1> DEFINE q == vms[v].inbox
             request == Head(q)
             agent == IF request.op = "deploy" THEN Thought(request.package)
                      ELSE vms[v].agent
             ok == request.op = "checkpoint" => agent # None
             left == Tail(q)
  <1>1. /\ vms[v].fc = "running" /\ q # <<>>
        /\ vms' = [vms EXCEPT ![v] =
                     IF request.op = "shutdown" THEN NoVm
                     ELSE [fc |-> "running", agent |-> agent, inbox |-> left]]
        /\ call' = IF request.open
                   THEN [call EXCEPT !.status = IF ok THEN "ok" ELSE "err",
                                     !.reply = agent]
                   ELSE call
        /\ UNCHANGED <<pkg, snap, deaths, sent>>
    BY DEF GuestServes, Deployed
  <1>2. /\ q \in Seq(Queued) /\ request = q[1] /\ request \in Queued
        /\ Len(q) \in Nat \ {0} /\ 1 \in 1 .. Len(q)
        /\ left \in Seq(Queued) /\ Len(left) = Len(q) - 1
        /\ \A i \in 1 .. Len(left) : left[i] = q[i + 1] /\ i + 1 \in 1 .. Len(q)
    BY <1>1, VmTyped, TailFacts DEF Inv
  <1>3. /\ agent \in Packages
        /\ request.op = "deploy" => agent = Thought(sent[v]) /\ agent \in Nat
        /\ request.op # "deploy" => agent = vms[v].agent
    <2>1. CASE request.op = "deploy"
      <3>1. request.package = sent[v] /\ sent[v] \in Nat
        BY <1>2, <2>1 DEF Inv, Carried
      <3>2. QED
        BY <2>1, <3>1, ThoughtIsPackage DEF Packages
    <2>2. CASE request.op # "deploy"
      BY <2>2, VmTyped DEF Inv
    <2>3. QED
      BY <2>1, <2>2
  <1>4. request.open => /\ Waiting(v) /\ Len(q) = 1 /\ request.op = call.op
                        /\ call \in CallRecords
    <2>1. request.open => Waiting(v) /\ 1 = Len(q) /\ request.op = call.op
      BY <1>2 DEF Inv, Called
    <2>2. Waiting(v) => call \in CallRecords
      BY DEF Waiting, Inv, TypeOK
    <2>3. QED
      BY <2>1, <2>2
  <1> HIDE DEF agent, ok, left, q, request
  <1>5. \A w \in VMs : vms'[w] = IF w # v THEN vms[w]
                                 ELSE IF request.op = "shutdown" THEN NoVm
                                 ELSE [fc |-> "running", agent |-> agent, inbox |-> left]
    BY <1>1 DEF Inv, TypeOK
  <1>6. UNCHANGED <<file, process, node, wire, hosted, job, todo, code, jobs>>
    BY DEF carriers, program
  <1>7. /\ call' \in CallRecords \cup {None}
        /\ call' = None <=> call = None
        /\ call # None => call'.vm = call.vm /\ call'.op = call.op
        /\ request.open => call'.status = (IF ok THEN "ok" ELSE "err") /\ call'.reply = agent
        /\ ~request.open => call' = call
    <2>1. CASE request.open
      <3>1. call \in CallRecords /\ agent \in Nat \cup {None}
        BY <1>3, <1>4, <2>1 DEF Packages
      <3>2. (IF ok THEN "ok" ELSE "err") \in {"waiting", "ok", "err", "failed"}
        OBVIOUS
      <3>3. /\ call' \in CallRecords /\ call'.vm = call.vm /\ call'.op = call.op
            /\ call'.status = (IF ok THEN "ok" ELSE "err") /\ call'.reply = agent
        BY <1>1, <2>1, <3>1, <3>2 DEF CallRecords
      <3>4. QED
        BY <2>1, <3>1, <3>3, ThoughtIsPackage
    <2>2. CASE ~request.open
      BY <1>1, <2>2 DEF Inv, TypeOK
    <2>3. QED
      BY <2>1, <2>2
  <1>8. TypeOK'
    <2>1. [fc |-> "running", agent |-> agent, inbox |-> left] \in VmStates
      BY <1>2, <1>3 DEF VmStates
    <2>2. vms' \in [VMs -> VmStates]
      BY <1>1, <2>1, VmTyped DEF Inv, TypeOK
    <2>3. QED
      BY <1>1, <1>6, <1>7, <2>2 DEF Inv, TypeOK
  <1>9. Called'
    <2>1. call' # None =>
            /\ Running' /\ todo' # <<>>
            /\ call'.vm = Target' /\ call'.op = OpOf(Head(todo').op)
      BY <1>6, <1>7 DEF Inv, Called, Running, Target
    <2>2. call' # None /\ call'.op = "checkpoint" /\ call'.status = "ok" => call'.reply \in Nat
      <3>1. CASE request.open
        BY <1>3, <1>4, <1>7, <3>1 DEF ok, Packages
      <3>2. CASE ~request.open
        BY <1>7, <3>2 DEF Inv, Called
      <3>3. QED
        BY <3>1, <3>2
    <2>3. ASSUME NEW w \in VMs, NEW i \in 1 .. Len(vms'[w].inbox), vms'[w].inbox[i].open
          PROVE  i = Len(vms'[w].inbox) /\ Waiting(w)' /\ vms'[w].inbox[i].op = call'.op
      <3>1. CASE w # v
        <4>1. vms'[w] = vms[w]
          BY <1>5, <3>1
        <4>2. Waiting(w) /\ i = Len(vms[w].inbox) /\ vms[w].inbox[i].op = call.op
          BY <2>3, <4>1 DEF Inv, Called
        <4>3. ~request.open
          BY <1>4, <3>1, <4>2 DEF Waiting
        <4>4. QED
          BY <1>7, <4>1, <4>2, <4>3 DEF Waiting
      <3>2. CASE w = v
        <4>1. vms'[v].inbox = left
          BY <1>5, <2>3, <3>2 DEF NoVm
        <4>2. left[i] = q[i + 1] /\ i + 1 \in 1 .. Len(q) /\ i \in 1 .. Len(left)
          BY <1>2, <2>3, <3>2, <4>1
        <4>3. i + 1 = Len(q) /\ Waiting(v) /\ q[i + 1].op = call.op
          BY <2>3, <3>2, <4>1, <4>2 DEF Inv, Called, q
        <4>4. ~request.open
          BY <1>2, <1>4, <4>2
        <4>5. QED
          BY <1>2, <1>7, <3>2, <4>1, <4>2, <4>3, <4>4 DEF Waiting
      <3>3. QED
        BY <3>1, <3>2
    <2>4. QED
      BY <2>1, <2>2, <2>3 DEF Called
  <1>10. \A w \in VMs : /\ \A op : Asked(w, op)' => Asked(w, op)
                        /\ Undeployed(w) => Undeployed(w)'
                        /\ Carried(w)'
    <2>1. \A w \in VMs : w # v => Lesser(w) /\ Carried(w)
      BY <1>5, IsLesser DEF Inv
    <2>2. \A w \in VMs : w # v => /\ \A op : Asked(w, op)' => Asked(w, op)
                                  /\ Undeployed(w) => Undeployed(w)'
                                  /\ Carried(w)'
      BY <1>1, <2>1, LesserKeeps
    <2>3. \A i \in 1 .. Len(vms'[v].inbox) :
            \E k \in 1 .. Len(q) : vms'[v].inbox[i] = q[k]
      <3>1. CASE request.op = "shutdown"
        BY <1>5, <3>1 DEF NoVm
      <3>2. CASE request.op # "shutdown"
        <4>1. vms'[v].inbox = left
          BY <1>5, <3>2
        <4>2. QED
          BY <1>2, <4>1
      <3>3. QED
        BY <3>1, <3>2
    <2>4. ASSUME NEW op, Asked(v, op)' PROVE Asked(v, op)
      BY <2>3, <2>4 DEF Asked, q
    <2>5. ASSUME Undeployed(v) PROVE Undeployed(v)'
      <3>1. request.op # "deploy"
        BY <1>2, <2>5 DEF Undeployed, q
      <3>2. vms'[v].agent = None
        BY <1>3, <1>5, <2>5, <3>1 DEF Undeployed, NoVm
      <3>3. QED
        BY <2>3, <2>5, <3>2 DEF Undeployed, q
    <2>6. Carried(v)'
      <3>1. vms'[v].agent # None => vms'[v].agent = Thought(sent[v])
        BY <1>3, <1>5 DEF Inv, Carried, NoVm
      <3>2. Carried(v)
        BY DEF Inv
      <3>3. QED
        BY <1>1, <2>3, <3>1, <3>2 DEF Carried, q, Thought
    <2>7. QED
      BY <2>2, <2>4, <2>5, <2>6
  <1>11. Ended'
    <2>1. vms[v] # NoVm
      BY <1>1 DEF NoVm
    <2>2. QED
      BY <1>6, <1>7, <2>1 DEF Inv, Ended, Running
  <1>12. Fresh'
    BY <1>1, <1>6, <1>10 DEF Inv, Fresh
  <1>13. Prepared'
    BY <1>1, <1>6 DEF Inv, Prepared, SnapCarried, Thought
  <1>14. Restarted'
    BY <1>1, <1>6 DEF Inv, Restarted, Thought
  <1>15. Shipped'
    BY <1>1, <1>6 DEF Inv, Shipped, Running, Now
  <1>16. Moved'
    <2> SUFFICES ASSUME Running, job = "fcMigrate"
                 PROVE  Moved'
      BY <1>6 DEF Moved, Running
    <2>1. /\ Len(todo) <= Len(FcMigrate)
          /\ \A i \in 1 .. Len(todo) : todo[i] = FcMigrate[i + Len(FcMigrate) - Len(todo)]
      BY DEF Inv, Moved
    <2> SUFFICES ASSUME deaths = 0
                 PROVE  /\ Len(todo) >= 3 => ~Asked(a, "shutdown")'
                        /\ Len(todo) >= 2 => ~Asked(b, "shutdown")'
                        /\ Len(todo) \in 3 .. 6 \/ (Len(todo) = 7 /\ Replied') => vms'[a].agent # None
                        /\ Len(todo) \in 2 .. 3 \/ (Len(todo) = 4 /\ Replied') => vms'[b].agent # None
                        /\ Len(todo) \in 1 .. 3 => sent[b] = pkg
                        /\ Len(todo) = 1 /\ call' = None =>
                             /\ vms'[b].agent # None /\ vms'[a] = NoVm
                             /\ ~Asked(b, "shutdown")'
      BY <1>1, <1>6, <2>1 DEF Moved, Progress, Running
    <2>2. a \in VMs /\ b \in VMs
      BY MigrationAssumption
    <2>3. /\ Len(todo) >= 3 => ~Asked(a, "shutdown")
          /\ Len(todo) >= 2 => ~Asked(b, "shutdown")
          /\ Len(todo) \in 3 .. 6 \/ (Len(todo) = 7 /\ Replied) => vms[a].agent # None
          /\ Len(todo) \in 2 .. 3 \/ (Len(todo) = 4 /\ Replied) => vms[b].agent # None
          /\ Len(todo) \in 1 .. 3 => sent[b] = pkg
          /\ Len(todo) = 1 /\ call = None =>
               /\ vms[b].agent # None /\ vms[a] = NoVm /\ ~Asked(b, "shutdown")
      BY DEF Inv, Moved, Progress
    \* An agent stays until its VM is asked to shut down.
    <2>4. ASSUME NEW w \in VMs, ~Asked(w, "shutdown"), vms[w].agent # None
          PROVE  vms'[w].agent # None
      <3>1. CASE w # v
        BY <1>5, <2>4, <3>1
      <3>2. CASE w = v
        <4>1. request.op # "shutdown"
          BY <1>2, <2>4, <3>2 DEF Asked, q
        <4>2. QED
          BY <1>3, <1>5, <2>4, <3>2, <4>1, ThoughtIsPackage
      <3>3. QED
        BY <3>1, <3>2
    \* A deployment that is answered has put one there.
    <2>5. ASSUME NEW w \in VMs, Replied', ~Replied, Head(todo) = Step("deploy", w)
          PROVE  vms'[w].agent # None
      <3>1. request.open
        BY <1>7, <2>5 DEF Replied
      <3>2. request.op = "deploy" /\ w = v
        <4>1. call # None /\ call.vm = v /\ request.op = call.op
          BY <1>4, <3>1 DEF Waiting
        <4>2. call.vm = Head(todo).vm /\ call.op = OpOf(Head(todo).op)
          BY <4>1 DEF Inv, Called, Target
        <4>3. QED
          BY <2>5, <4>1, <4>2 DEF Step, OpOf
      <3>3. QED
        BY <1>3, <1>5, <3>2, ThoughtIsPackage
    <2>6. Len(todo) = 7 => Head(todo) = Step("deploy", a) /\ todo # <<>>
      <3>1. todo = <<>> => Len(todo) = 0
        OBVIOUS
      <3>2. QED
        BY <3>1, MovedAt DEF Inv
    <2>7. Len(todo) = 4 => Head(todo) = Step("deploy", b) /\ todo # <<>>
      <3>1. todo = <<>> => Len(todo) = 0
        OBVIOUS
      <3>2. QED
        BY <3>1, MovedAt DEF Inv
    <2>8. vms[a] = NoVm => vms'[a] = NoVm
      BY <1>1, <1>5, <2>2 DEF NoVm
    <2> DEFINE n == Len(todo)
    <2>9. /\ n >= 3 => ~Asked(a, "shutdown")
          /\ n >= 2 => ~Asked(b, "shutdown")
          /\ n \in 3 .. 6 \/ (n = 7 /\ Replied) => vms[a].agent # None
          /\ n \in 2 .. 3 \/ (n = 4 /\ Replied) => vms[b].agent # None
          /\ n = 7 => Head(todo) = Step("deploy", a)
          /\ n = 4 => Head(todo) = Step("deploy", b)
      BY <2>3, <2>6, <2>7
    <2> HIDE DEF n
    <2>10. n \in 3 .. 6 \/ (n = 7 /\ Replied') => vms'[a].agent # None
      BY <2>2, <2>4, <2>5, <2>9
    <2>11. n \in 2 .. 3 \/ (n = 4 /\ Replied') => vms'[b].agent # None
      BY <2>2, <2>4, <2>5, <2>9
    <2>12. n = 1 /\ call' = None =>
             vms'[b].agent # None /\ vms'[a] = NoVm /\ ~Asked(b, "shutdown")'
      BY <1>7, <1>10, <2>2, <2>3, <2>4, <2>8 DEF n
    <2>13. QED
      BY <1>10, <2>2, <2>3, <2>10, <2>11, <2>12 DEF n
  <1>17. QED
    BY <1>8, <1>9, <1>10, <1>11, <1>12, <1>13, <1>14, <1>15, <1>16 DEF Inv

\* Whatever befalls them.
LEMMA WorldStep ==
  ASSUME Inv, World, UNCHANGED <<carriers, program>>
  PROVE  Inv'
  BY BootsStep, ServesStep, BreakStep, DiesStep, ReplyLostStep DEF World

----------------------------------------------------------------------------
\* The calls of the program.

\* What is known of the step at the head.
LEMMA HeadFacts ==
  ASSUME TypeOK, todo # <<>>
  PROVE  /\ Head(todo) = todo[1] /\ 1 \in 1 .. Len(todo) /\ Len(todo) \in Nat \ {0}
         /\ Head(todo) \in Steps /\ Target \in VMs
         /\ Head(todo) = Step(Head(todo).op, Target)
  <1>1. todo \in Seq(Steps)
    BY DEF TypeOK
  <1>2. /\ Head(todo) = todo[1] /\ Len(todo) \in Nat \ {0} /\ 1 \in 1 .. Len(todo)
        /\ Head(todo) \in Steps
    BY <1>1, TailFacts
  <1>3. Target \in VMs /\ Head(todo) = Step(Head(todo).op, Target)
    BY <1>2 DEF Target, Step, Steps
  <1>4. QED
    BY <1>2, <1>3

\* A step that is no call is taken between calls.
LEMMA NoCall ==
  ASSUME TypeOK, Called,
         Running => todo = <<>> \/ OpOf(Head(todo).op) \notin Requests
  PROVE  call = None
  <1>1. call # None => call \in CallRecords /\ call.op = OpOf(Head(todo).op)
                       /\ Running /\ todo # <<>>
    BY DEF TypeOK, Called
  <1>2. QED
    BY <1>1 DEF CallRecords

\* Nothing is awaited between calls, nor once a call is answered.
LEMMA NothingOpen ==
  ASSUME Called, call = None \/ call.status # "waiting"
  PROVE  \A v \in VMs : \A i \in 1 .. Len(vms[v].inbox) : ~vms[v].inbox[i].open
  BY DEF Called, Waiting

\* No program has more than nine steps; a position is one of them.
LEMMA UpToNine == \A n \in 1 .. 9 : n \in {1, 2, 3, 4, 5, 6, 7, 8, 9}
  OBVIOUS

\* What a migration between VMs does when n of its steps are left, and to whom.
LEMMA MovedOps ==
  ASSUME TypeOK, Moved, Running, job = "fcMigrate", todo # <<>>,
         NEW n \in 1 .. 9, n = Len(todo)
  PROVE  /\ n = 9 => Head(todo).op = "launch" /\ Target = a
         /\ n = 8 => Head(todo).op = "demo" /\ Target = a
         /\ n = 7 => Head(todo).op = "deploy" /\ Target = a
         /\ n = 6 => Head(todo).op = "checkpoint" /\ Target = a
         /\ n = 5 => Head(todo).op = "launch" /\ Target = b
         /\ n = 4 => Head(todo).op = "deploy" /\ Target = b
         /\ n = 3 => Head(todo).op = "health" /\ Target = b
         /\ n = 2 => Head(todo).op = "shutdown" /\ Target = a
         /\ n = 1 => Head(todo).op = "shutdown" /\ Target = b
  <1> DEFINE head == Head(todo)
  <1>1. /\ n = 9 => head = Step("launch", a)
        /\ n = 8 => head = Step("demo", a)
        /\ n = 7 => head = Step("deploy", a)
        /\ n = 6 => head = Step("checkpoint", a)
        /\ n = 5 => head = Step("launch", b)
        /\ n = 4 => head = Step("deploy", b)
        /\ n = 3 => head = Step("health", b)
        /\ n = 2 => head = Step("shutdown", a)
        /\ n = 1 => head = Step("shutdown", b)
    BY MovedAt
  <1>2. Target = head.vm
    BY DEF Target
  <1> HIDE DEF head
  <1>3. \A op, v : Step(op, v).op = op /\ Step(op, v).vm = v
    BY DEF Step
  <1>4. /\ n = 9 => head.op = "launch" /\ Target = a
        /\ n = 8 => head.op = "demo" /\ Target = a
        /\ n = 7 => head.op = "deploy" /\ Target = a
    BY <1>1, <1>2, <1>3
  <1>5. /\ n = 6 => head.op = "checkpoint" /\ Target = a
        /\ n = 5 => head.op = "launch" /\ Target = b
        /\ n = 4 => head.op = "deploy" /\ Target = b
    BY <1>1, <1>2, <1>3
  <1>6. /\ n = 3 => head.op = "health" /\ Target = b
        /\ n = 2 => head.op = "shutdown" /\ Target = a
        /\ n = 1 => head.op = "shutdown" /\ Target = b
    BY <1>1, <1>2, <1>3
  <1>7. QED
    BY <1>4, <1>5, <1>6 DEF head

\* The step at the head of a migration between VMs of which n steps are left.
LEMMA MovedHead ==
  ASSUME TypeOK, Moved, Running, job = "fcMigrate", todo # <<>>,
         NEW n \in 1 .. 9, n = Len(todo)
  PROVE  /\ Head(todo).op \in {"launch", "demo", "deploy", "checkpoint", "health", "shutdown"}
         /\ Head(todo).op = "launch" => n = 9 \/ (n = 5 /\ Target = b)
         /\ Head(todo).op = "demo" => n = 8
         /\ Head(todo).op = "deploy" => n = 7 \/ (n = 4 /\ Head(todo) = Step("deploy", b))
         /\ Head(todo).op = "checkpoint" => n = 6
         /\ Head(todo).op = "health" => n = 3
         /\ Head(todo).op = "shutdown" => n = 1 \/ (n = 2 /\ Target = a)
  <1> DEFINE op == Head(todo).op
  <1>1. /\ n = 9 => op = "launch"
        /\ n = 8 => op = "demo"
        /\ n = 7 => op = "deploy"
        /\ n = 6 => op = "checkpoint"
        /\ n = 5 => op = "launch" /\ Target = b
        /\ n = 4 => op = "deploy"
        /\ n = 3 => op = "health"
        /\ n = 2 => op = "shutdown" /\ Target = a
        /\ n = 1 => op = "shutdown"
    BY MovedOps
  <1>2. n = 4 => Head(todo) = Step("deploy", b)
    BY MovedAt
  <1>3. n \in {1, 2, 3, 4, 5, 6, 7, 8, 9}
    BY UpToNine
  <1> HIDE DEF op
  <1>4. op \in {"launch", "demo", "deploy", "checkpoint", "health", "shutdown"}
    BY <1>1, <1>3
  <1>5. /\ op = "launch" => n = 9 \/ (n = 5 /\ Target = b)
        /\ op = "demo" => n = 8
        /\ op = "deploy" => n = 7 \/ n = 4
    BY <1>1, <1>3
  <1>6. /\ op = "checkpoint" => n = 6
        /\ op = "health" => n = 3
        /\ op = "shutdown" => n = 1 \/ (n = 2 /\ Target = a)
    BY <1>1, <1>3
  <1>7. QED
    BY <1>2, <1>4, <1>5, <1>6 DEF op

\* A call that begins preserves the invariant.
LEMMA CallStep ==
  ASSUME Inv, NEW v \in VMs, NEW op \in Requests, Running, todo # <<>>,
         v = Target, op = OpOf(Head(todo).op), CallBegins(v, op),
         UNCHANGED <<carriers, program>>
  PROVE  Inv'
  <1> DEFINE reached == vms[v].fc \in {"running", "paused"}
             request == [op |-> op, package |-> pkg, open |-> TRUE]
             q == vms[v].inbox
             r == Append(q, request)
  <1>1. /\ call = None
        /\ call' = [vm |-> v, op |-> op, reply |-> None,
                    status |-> IF reached THEN "waiting" ELSE "failed"]
        /\ vms' = IF reached THEN [vms EXCEPT ![v].inbox = r] ELSE vms
        /\ sent' = IF op = "deploy" THEN [sent EXCEPT ![v] = pkg] ELSE sent
        /\ UNCHANGED <<pkg, attempts, snap, breaks, deaths>>
    BY DEF CallBegins
  <1>2. UNCHANGED <<file, process, node, wire, hosted, job, todo, code, jobs>>
    BY DEF carriers, program
  <1>3. /\ call' \in CallRecords /\ call' # None
        /\ call'.vm = v /\ call'.op = op /\ call'.status \in {"waiting", "failed"}
        /\ reached => Waiting(v)'
    <2>1. call' \in CallRecords
      BY <1>1 DEF CallRecords
    <2>2. call' # None
      BY <2>1, ThoughtIsPackage
    <2>3. QED
      BY <1>1, <2>1, <2>2 DEF Waiting
  <1>4. /\ q \in Seq(Queued) /\ Len(q) \in Nat /\ vms[v] \in VmStates
        /\ pkg \in Packages
    BY VmTyped DEF Inv, TypeOK
  <1>5. /\ r \in Seq(Queued) /\ Len(r) = Len(q) + 1
        /\ \A i \in 1 .. Len(r) : \/ i \in 1 .. Len(q) /\ r[i] = q[i]
                                  \/ i = Len(r) /\ r[i] = request
    <2>1. request \in Queued
      BY <1>4 DEF Queued
    <2> HIDE DEF q, request
    <2>2. QED
      BY <1>4, <2>1, AppendFacts
  <1>6. op = "deploy" => /\ Head(todo) = Step("deploy", v) /\ pkg \in Nat
                         /\ Undeployed(v) \/ sent[v] = pkg
    <2> SUFFICES ASSUME op = "deploy"
                 PROVE  /\ Head(todo) = Step("deploy", v) /\ pkg \in Nat
                        /\ Undeployed(v) \/ sent[v] = pkg
      OBVIOUS
    <2>1. Head(todo).op = "deploy"
      BY DEF OpOf
    <2>2. Head(todo) = todo[1] /\ 1 \in 1 .. Len(todo) /\ todo[1] = Step("deploy", v)
          /\ Len(todo) \in Nat
      BY <2>1, HeadFacts DEF Inv
    <2>3. Undeployed(v) \/ sent[v] = pkg
      BY <2>2 DEF Inv, Fresh
    <2>4. UsesNow(todo, 1)
      BY <2>1, <2>2 DEF UsesNow, Uses
    <2>5. pkg \in Nat
      BY <2>2, <2>4 DEF Inv, Prepared
    <2>6. QED
      BY <2>2, <2>3, <2>5
  <1> HIDE DEF reached, request, q, r
  <1>7. /\ vms' \in [VMs -> VmStates]
        /\ \A w \in VMs : w # v => vms'[w] = vms[w] /\ sent'[w] = sent[w]
        /\ vms'[v].agent = vms[v].agent
        /\ vms'[v].inbox = IF reached THEN r ELSE q
        /\ ~reached => vms' = vms
        /\ sent' \in [VMs -> Packages]
        /\ sent'[v] = IF op = "deploy" THEN pkg ELSE sent[v]
        /\ op # "deploy" => sent' = sent
    BY <1>1, <1>4, <1>5 DEF Inv, TypeOK, VmStates, q
  <1>8. TypeOK'
    BY <1>1, <1>2, <1>3, <1>7 DEF Inv, TypeOK
  <1>9. Called'
    <2>1. \A w \in VMs : \A i \in 1 .. Len(vms[w].inbox) : ~vms[w].inbox[i].open
      BY <1>1, NothingOpen DEF Inv
    <2>2. ASSUME NEW w \in VMs, NEW i \in 1 .. Len(vms'[w].inbox), vms'[w].inbox[i].open
          PROVE  i = Len(vms'[w].inbox) /\ Waiting(w)' /\ vms'[w].inbox[i].op = call'.op
      <3>1. w = v /\ reached
        BY <1>7, <2>1, <2>2 DEF q
      <3>2. i = Len(r) /\ r[i] = request
        BY <1>5, <1>7, <2>1, <2>2, <3>1 DEF q
      <3>3. QED
        BY <1>3, <1>7, <3>1, <3>2 DEF request
    <2>3. Running' /\ todo' # <<>> /\ call'.vm = Target'
          /\ call'.op = OpOf(Head(todo').op) /\ call'.status # "ok"
      BY <1>2, <1>3 DEF Running, Target
    <2>4. QED
      BY <2>2, <2>3 DEF Called
  <1>10. Ended'
    BY <1>2 DEF Ended, Running
  <1>11. Fresh'
    <2> SUFFICES ASSUME NEW w \in VMs, NEW i \in 1 .. Len(todo), todo[i] = Step("deploy", w)
                 PROVE  Undeployed(w)' \/ (i = 1 /\ sent'[w] = pkg')
      BY <1>2 DEF Fresh
    <2>1. Undeployed(w) \/ (i = 1 /\ sent[w] = pkg)
      BY DEF Inv, Fresh
    <2>2. todo[1] = Head(todo) /\ 1 \in 1 .. Len(todo) /\ Len(todo) \in Nat
      BY HeadFacts DEF Inv
    <2>3. CASE w # v
      <3>1. Undeployed(w) => Undeployed(w)'
        BY <1>7, <2>3 DEF Undeployed
      <3>2. QED
        BY <1>1, <1>7, <2>1, <2>3, <3>1
    <2>4. CASE w = v /\ op = "deploy"
      <3>1. i = 1
        <4>1. todo[1] = todo[i]
          BY <1>6, <2>2, <2>4
        <4>2. ~(1 < i)
          BY <2>2, <2>4, <4>1 DEF Inv, Prepared, Ordered, Step
        <4>3. QED
          BY <4>2
      <3>2. QED
        BY <1>1, <1>7, <2>4, <3>1
    <2>5. CASE w = v /\ op # "deploy"
      <3>1. Undeployed(v) => Undeployed(v)'
        BY <1>5, <1>7, <2>5 DEF Undeployed, q, request
      <3>2. QED
        BY <1>1, <1>7, <2>1, <2>5, <3>1
    <2>6. QED
      BY <2>3, <2>4, <2>5
  <1>12. \A w \in VMs : Carried(w)'
    <2> SUFFICES ASSUME NEW w \in VMs PROVE Carried(w)'
      OBVIOUS
    <2>1. Carried(w)
      BY DEF Inv
    <2>2. CASE w # v
      BY <1>7, <2>1, <2>2 DEF Carried, Thought
    <2>3. CASE w = v /\ op # "deploy"
      <3>1. \A i \in 1 .. Len(vms'[v].inbox) : vms'[v].inbox[i].op = "deploy" =>
              vms'[v].inbox[i].package = sent[v] /\ sent[v] \in Nat
        <4>1. \A i \in 1 .. Len(q) :
                q[i].op = "deploy" => q[i].package = sent[v] /\ sent[v] \in Nat
          BY <2>1, <2>3 DEF Carried, q
        <4>2. request.op # "deploy"
          BY <2>3 DEF request
        <4>3. QED
          BY <1>5, <1>7, <4>1, <4>2
      <3>2. sent' = sent /\ vms'[v].agent = vms[v].agent
        BY <1>7, <2>3
      <3>3. QED
        BY <2>1, <2>3, <3>1, <3>2 DEF Carried, Thought
    <2>4. CASE w = v /\ op = "deploy"
      <3>1. sent'[v] = pkg /\ pkg \in Nat
        BY <1>6, <1>7, <2>4
      <3>2. CASE sent[v] = pkg
        <4>1. /\ vms[v].agent # None => vms[v].agent = Thought(sent[v])
              /\ \A i \in 1 .. Len(q) : q[i].op = "deploy" => q[i].package = pkg
          BY <2>1, <2>4, <3>2 DEF Carried, q
        <4>2. \A i \in 1 .. Len(vms'[v].inbox) :
                vms'[v].inbox[i].op = "deploy" => vms'[v].inbox[i].package = pkg
          BY <1>5, <1>7, <4>1 DEF request
        <4>3. sent'[v] = sent[v] /\ vms'[v].agent = vms[v].agent
          BY <1>7, <3>1, <3>2
        <4>4. QED
          BY <2>4, <3>1, <4>1, <4>2, <4>3 DEF Carried, Thought
      <3>3. CASE Undeployed(v)
        <4>1. vms'[v].agent = None
          BY <1>7, <3>3 DEF Undeployed
        <4>2. \A i \in 1 .. Len(q) : q[i].op # "deploy"
          BY <3>3 DEF Undeployed, q
        <4>3. \A i \in 1 .. Len(vms'[v].inbox) :
                vms'[v].inbox[i].op = "deploy" => vms'[v].inbox[i].package = pkg
          BY <1>5, <1>7, <4>2 DEF request
        <4>4. QED
          BY <2>4, <3>1, <4>1, <4>3 DEF Carried
      <3>4. QED
        BY <1>6, <2>4, <3>2, <3>3
    <2>5. QED
      BY <2>2, <2>3, <2>4
  <1>13. Prepared'
    <2>1. op # "deploy" => (SnapCarried => SnapCarried')
      BY <1>1, <1>7 DEF SnapCarried, Thought
    <2>2. ASSUME op = "deploy", NEW i \in 1 .. Len(todo), RestoresNow(todo, i) PROVE FALSE
      <3>1. todo[1].op = "deploy" /\ 1 \in 1 .. Len(todo) /\ Len(todo) \in Nat
        BY <1>6, <2>2, HeadFacts DEF Inv, Step
      <3>2. todo[i].op = "restore" /\ 1 < i
        BY <2>2, <3>1 DEF RestoresNow
      <3>3. QED
        BY <2>2, <3>1, <3>2 DEF Inv, Prepared, Ordered, RestoresNow
    <2>3. QED
      BY <1>1, <1>2, <2>1, <2>2 DEF Inv, Prepared
  <1>14. Restarted'
    BY <1>1, <1>2 DEF Inv, Restarted, Thought
  <1>15. Shipped'
    BY <1>1, <1>2 DEF Inv, Shipped, Running, Now
  <1>16. Moved'
    <2> SUFFICES ASSUME job = "fcMigrate" PROVE Moved'
      BY <1>2 DEF Moved
    <2>1. /\ Len(todo) <= Len(FcMigrate)
          /\ \A i \in 1 .. Len(todo) : todo[i] = FcMigrate[i + Len(FcMigrate) - Len(todo)]
          /\ deaths = 0 => Progress(Len(todo))
      BY DEF Inv, Moved
    <2>2. PICK n \in 1 .. 9 : n = Len(todo)
      BY MovedAt DEF Inv
    <2>3. ASSUME Progress(n) PROVE Progress(n)'
      <3>1. /\ n \in {4, 7} => op = "deploy"
            /\ n \in {1, 2} => op = "shutdown"
            /\ n = 2 => v = a
            /\ n \in 3 .. 9 => op # "shutdown"
            /\ n \in 1 .. 3 => op # "deploy"
        <4>1. /\ n \in {4, 7} => Head(todo).op = "deploy"
              /\ n \in {1, 2} => Head(todo).op = "shutdown"
              /\ n = 2 => Target = a
              /\ n \in {5, 9} => Head(todo).op = "launch"
              /\ n = 8 => Head(todo).op = "demo"
              /\ n = 6 => Head(todo).op = "checkpoint"
              /\ n = 3 => Head(todo).op = "health"
          <5>1. TypeOK /\ Moved
            BY DEF Inv
          <5>2. QED
            BY <2>2, <5>1, MovedOps
        <4>2. /\ n \in 3 .. 9 => n \in {3, 4, 5, 6, 7, 8, 9}
              /\ n \in 1 .. 3 => n \in {1, 2, 3}
          OBVIOUS
        <4>3. QED
          BY <4>1, <4>2 DEF OpOf
      <3>2. \A w \in VMs : Asked(w, "shutdown")' =>
              Asked(w, "shutdown") \/ (w = v /\ op = "shutdown")
        <4> SUFFICES ASSUME NEW w \in VMs, Asked(w, "shutdown")',
                            ~(w = v /\ op = "shutdown")
                     PROVE  Asked(w, "shutdown")
          OBVIOUS
        <4>1. CASE w # v
          BY <1>7, <4>1 DEF Asked
        <4>2. CASE w = v
          BY <1>5, <1>7, <4>2 DEF Asked, q, request
        <4>3. QED
          BY <4>1, <4>2
      <3>3. a \in VMs /\ b \in VMs /\ a # b
        BY MigrationAssumption
      <3>4. \A w \in VMs : vms'[w].agent = vms[w].agent
        BY <1>7
      <3>5. ~Replied' /\ pkg' = pkg /\ (n \in 1 .. 3 => sent' = sent)
        BY <1>1, <1>3, <1>7, <3>1 DEF Replied
      <3>6. QED
        BY <1>3, <2>3, <3>1, <3>2, <3>3, <3>4, <3>5 DEF Progress
    <2>4. QED
      BY <1>1, <1>2, <2>1, <2>2, <2>3 DEF Moved, Running
  <1>17. QED
    BY <1>8, <1>9, <1>10, <1>11, <1>12, <1>13, <1>14, <1>15, <1>16 DEF Inv

\* Each kind of call.
LEMMA CallsStep ==
  ASSUME Inv, Calls
  PROVE  Inv'
  <1>1. UNCHANGED <<carriers, program>> /\ Running /\ todo # <<>> /\ Target \in VMs
    BY HeadFacts DEF Calls, Now, Inv
  <1>2. PICK op \in Requests : op = OpOf(Head(todo).op) /\ CallBegins(Target, op)
    BY DEF Calls, Now, OpOf, Requests
  <1>3. QED
    BY <1>1, <1>2, CallStep

\* A deployment that failed is tried again, with the same package.
LEMMA RetryStep ==
  ASSUME Inv, Retries
  PROVE  Inv'
  <1>1. /\ Running /\ todo # <<>> /\ Head(todo).op = "deploy"
        /\ call # None /\ call.status # "waiting" /\ call' = None
        /\ UNCHANGED <<vms, pkg, snap, breaks, deaths, sent>>
    BY DEF Retries, Now, DeployRetries, Answered
  <1>2. UNCHANGED <<file, process, node, wire, hosted, job, todo, code, jobs>>
    BY DEF Retries, carriers, program
  <1>3. TypeOK'
    BY <1>1, <1>2 DEF Inv, TypeOK
  <1>4. Called'
    BY <1>1, NothingOpen DEF Inv, Called
  <1>5. Ended' /\ Fresh' /\ \A v \in VMs : Carried(v)'
    BY <1>1, <1>2 DEF Inv, Ended, Fresh, Carried, Undeployed, Thought, Running
  <1>6. Prepared' /\ Restarted' /\ Shipped'
    BY <1>1, <1>2 DEF Inv, Prepared, SnapCarried, Restarted, Shipped, Thought, Running, Now
  <1>7. Moved'
    <2> SUFFICES ASSUME job = "fcMigrate" PROVE Moved'
      BY <1>2 DEF Moved
    <2>1. /\ Len(todo) <= Len(FcMigrate)
          /\ \A i \in 1 .. Len(todo) : todo[i] = FcMigrate[i + Len(FcMigrate) - Len(todo)]
          /\ deaths = 0 => Progress(Len(todo))
      BY <1>1 DEF Inv, Moved
    <2>2. PICK n \in 1 .. 9 : n = Len(todo)
      BY <1>1, MovedAt DEF Inv
    <2>3. n # 1
      BY <1>1, <2>2, MovedAt DEF Inv, Step
    <2>4. Progress(n) => Progress(n)'
      BY <1>1, <2>3 DEF Progress, Replied, Asked
    <2>5. QED
      BY <1>1, <1>2, <2>1, <2>2, <2>4 DEF Moved, Running
  <1>8. QED
    BY <1>3, <1>4, <1>5, <1>6, <1>7 DEF Inv

----------------------------------------------------------------------------
\* The steps that go on to the next.

\* A step of the fc-migrate program leads from one of its stages to the next.
LEMMA MovedNext ==
  ASSUME TypeOK, Moved, Running, todo # <<>>, todo' = Tail(todo),
         UNCHANGED <<job, code, deaths>>,
         \A n \in 1 .. 9 : job = "fcMigrate" /\ n = Len(todo) /\ deaths = 0 /\ Progress(n)
                             => Progress(n - 1)'
  PROVE  Moved'
  <1> SUFFICES ASSUME job = "fcMigrate" PROVE Moved'
    BY DEF Moved
  <1>1. PICK n \in 1 .. 9 : n = Len(todo)
    BY MovedAt
  <1>2. /\ Len(todo') = n - 1 /\ Len(todo') <= Len(FcMigrate)
        /\ \A i \in 1 .. Len(todo') :
             todo'[i] = FcMigrate[i + Len(FcMigrate) - Len(todo')]
    BY <1>1, MovedOn
  <1>3. deaths = 0 => Progress(n)
    BY <1>1 DEF Moved
  <1>4. deaths = 0 => Progress(n - 1)'
    BY <1>1, <1>3
  <1>5. QED
    BY <1>2, <1>4 DEF Moved

\* A process is restored before it acts.
LEMMA NoActNext ==
  ASSUME TypeOK, Prepared, todo # <<>>, todo' = Tail(todo), Head(todo).op # "local"
  PROVE  todo' # <<>> => todo'[1].op # "act"
  <1>1. todo \in Seq(Steps)
    BY DEF TypeOK
  <1>2. /\ Len(todo) \in Nat \ {0} /\ Head(todo) = todo[1]
        /\ todo' \in Seq(Steps) /\ Len(todo') = Len(todo) - 1
        /\ \A i \in 1 .. Len(todo') : todo'[i] = todo[i + 1] /\ i + 1 \in 1 .. Len(todo)
    BY <1>1, TailFacts
  <1>3. todo' # <<>> => todo'[1] = todo[2] /\ {1, 2} \subseteq 1 .. Len(todo)
    BY <1>2
  <1>4. todo' # <<>> /\ todo[2].op = "act" => todo[2 - 1].op = "local"
    BY <1>3 DEF Prepared, Ordered
  <1>5. QED
    BY <1>2, <1>3, <1>4

\* A call answered, and the step after it, preserve the invariant.
LEMMA ContinueStep ==
  ASSUME Inv, Running, todo # <<>>, todo' = Tail(todo),
         UNCHANGED <<job, code, node, wire, hosted, sent, deaths>>,
         Head(todo).op # "send", Restarted',
         vms' \in [VMs -> VmStates], {pkg', snap', process'} \subseteq Packages,
         file' \in [package : Nat, framed : BOOLEAN] \cup {None},
         call' = None,
         \A v \in VMs : \A i \in 1 .. Len(vms'[v].inbox) : ~vms'[v].inbox[i].open,
         \A v \in VMs : Carried(v)',
         \A v \in VMs, i \in 2 .. Len(todo) :
            todo[i] = Step("deploy", v) /\ Undeployed(v) => Undeployed(v)',
         Head(todo).op \in Sets \/ pkg \in Nat => pkg' \in Nat,
         SnapCarried' \/ (Head(todo).op # "snapshot" /\ UNCHANGED <<snap, sent>>),
         \A n \in 1 .. 9 : job = "fcMigrate" /\ n = Len(todo) /\ deaths = 0 /\ Progress(n)
                             => Progress(n - 1)'
  PROVE  Inv'
  <1>1. Prepared' /\ todo' \in Seq(Steps)
    BY ContinuePrepared DEF Inv
  <1>2. Fresh'
    BY ContinueFresh DEF Inv
  <1>3. Shipped'
    BY ContinueShipped DEF Inv
  <1>4. Moved'
    BY MovedNext DEF Inv
  <1>5. TypeOK'
    BY <1>1 DEF Inv, TypeOK
  <1>6. Called'
    BY DEF Called
  <1>7. Ended'
    BY DEF Ended, Running
  <1>8. QED
    BY <1>1, <1>2, <1>3, <1>4, <1>5, <1>6, <1>7 DEF Inv

\* The common case: VMs lose agents and requests at most.
LEMMA LesserContinues ==
  ASSUME Inv, Running, todo # <<>>, todo' = Tail(todo),
         UNCHANGED <<job, code, process, node, wire, hosted, sent, deaths>>,
         Head(todo).op \notin {"send", "act", "local"},
         vms' \in [VMs -> VmStates], {pkg', snap'} \subseteq Packages,
         file' \in [package : Nat, framed : BOOLEAN] \cup {None},
         call = None \/ call.status # "waiting", call' = None,
         \A v \in VMs : Lesser(v),
         Head(todo).op \in Sets \/ pkg \in Nat => pkg' \in Nat,
         SnapCarried' \/ (Head(todo).op # "snapshot" /\ UNCHANGED <<snap, sent>>),
         \A n \in 1 .. 9 : job = "fcMigrate" /\ n = Len(todo) /\ deaths = 0 /\ Progress(n)
                             => Progress(n - 1)'
  PROVE  Inv'
  <1>1. \A v \in VMs : \A i \in 1 .. Len(vms[v].inbox) : ~vms[v].inbox[i].open
    BY NothingOpen DEF Inv
  <1>2. \A v \in VMs : /\ Carried(v)'
                       /\ Undeployed(v) => Undeployed(v)'
                       /\ \A i \in 1 .. Len(vms'[v].inbox) : ~vms'[v].inbox[i].open
    BY <1>1, LesserKeeps DEF Inv
  <1>3. Restarted' /\ process' \in Packages
    <2>1. process = None /\ process' = process
      BY BeforeTheEnd DEF Inv
    <2>2. todo' # <<>> => todo'[1].op # "act"
      BY NoActNext DEF Inv
    <2>3. QED
      BY <2>1, <2>2 DEF Restarted, Packages
  <1>4. {pkg', snap', process'} \subseteq Packages
    BY <1>3
  <1>5. QED
    BY <1>2, <1>3, <1>4, ContinueStep

\* A VM is started, dropped, paused and captured, or shut down.  A Firecracker
\* that has only been spawned has no agent and no requests.
LEMMA SpawnStep ==
  ASSUME Inv, Spawns
  PROVE  Inv'
  <1>1. /\ Running /\ todo # <<>> /\ Head(todo).op \in {"launch", "restore"}
        /\ vms' = [vms EXCEPT ![Target] = [NoVm EXCEPT !.fc = "spawned"]]
        /\ UNCHANGED <<job, todo, code, call, file, process, node, wire, hosted, pkg,
                       snap, sent, deaths>>
    BY DEF Spawns, Now, Spawned, carriers, program
  <1>2. Target \in VMs
    BY <1>1, HeadFacts DEF Inv
  <1>3. call = None /\ ~Replied'
    BY <1>1, NoCall DEF Inv, OpOf, Requests, Replied
  <1>4. [NoVm EXCEPT !.fc = "spawned"] \in VmStates
    <2>1. NoVm \in VmStates
      BY <1>2, VmTyped DEF Inv
    <2>2. QED
      BY <2>1 DEF VmStates
  <1>5. vms' \in [VMs -> VmStates]
    BY <1>1, <1>4 DEF Inv, TypeOK
  <1>6. \A v \in VMs : IF v = Target THEN vms'[v].agent = None /\ vms'[v].inbox = <<>>
                       ELSE vms'[v] = vms[v]
    BY <1>1, <1>2 DEF Inv, TypeOK, NoVm
  <1>7. \A v \in VMs : Lesser(v)
    BY <1>6, IsLesser
  <1>8. \A v \in VMs : \A i \in 1 .. Len(vms[v].inbox) : ~vms[v].inbox[i].open
    BY <1>3, NothingOpen DEF Inv
  <1>9. \A v \in VMs : /\ Carried(v)'
                       /\ Undeployed(v) => Undeployed(v)'
                       /\ \A op : Asked(v, op)' => Asked(v, op)
                       /\ \A i \in 1 .. Len(vms'[v].inbox) : ~vms'[v].inbox[i].open
    BY <1>1, <1>7, <1>8, LesserKeeps DEF Inv
  <1>10. TypeOK'
    BY <1>1, <1>5 DEF Inv, TypeOK
  <1>11. Called' /\ Ended'
    BY <1>1, <1>3, <1>9 DEF Called, Ended, Running
  <1>12. Fresh'
    BY <1>1, <1>9 DEF Inv, Fresh
  <1>13. Prepared' /\ Restarted'
    BY <1>1 DEF Inv, Prepared, SnapCarried, Restarted, Thought
  <1>14. Shipped'
    BY <1>1 DEF Inv, Shipped, Running, Now
  <1>15. ASSUME NEW n \in 1 .. 9, job = "fcMigrate", n = Len(todo), Progress(n)
         PROVE  Progress(n)'
    <2>1. n = 9 \/ (n = 5 /\ Target = b)
      BY <1>1, <1>15, MovedHead DEF Inv
    <2>2. a \in VMs /\ b \in VMs /\ a # b
      BY MigrationAssumption
    <2>3. n = 5 => vms'[a] = vms[a]
      BY <1>6, <2>1, <2>2
    <2>4. ASSUME n = 9 PROVE Progress(9)'
      BY <1>9, <1>15, <2>2, <2>4 DEF Progress
    <2>5. ASSUME n = 5 PROVE Progress(5)'
      BY <1>9, <1>15, <2>2, <2>3, <2>5 DEF Progress
    <2>6. QED
      BY <2>1, <2>4, <2>5
  <1>16. Moved'
    <2>1. Running' = Running
      BY <1>1 DEF Running
    <2>2. ASSUME job = "fcMigrate" PROVE Len(todo) \in 1 .. 9
      BY <1>1, <2>2, MovedAt DEF Inv
    <2>3. QED
      BY <1>1, <1>15, <2>1, <2>2 DEF Inv, Moved
  <1>17. QED
    BY <1>9, <1>10, <1>11, <1>12, <1>13, <1>14, <1>16 DEF Inv

LEMMA LaunchStep ==
  ASSUME Inv, Now("launch"), Launched(Target), Continue, UNCHANGED carriers
  PROVE  Inv'
  <1>1. /\ Running /\ todo # <<>> /\ todo' = Tail(todo) /\ Head(todo).op = "launch"
        /\ vms' = [vms EXCEPT ![Target].fc = "booting"]
        /\ UNCHANGED <<job, code, call, file, process, node, wire, hosted, pkg,
                       snap, sent, deaths>>
    BY DEF Now, Launched, Continue, carriers
  <1>2. Target \in VMs
    BY <1>1, HeadFacts DEF Inv
  <1>3. call = None
    BY <1>1, NoCall DEF Inv, OpOf, Requests
  <1>4. [vms[Target] EXCEPT !.fc = "booting"] \in VmStates
    <2>1. vms[Target] \in VmStates
      BY <1>2, VmTyped DEF Inv
    <2>2. QED
      BY <2>1 DEF VmStates
  <1>5. vms' \in [VMs -> VmStates]
    BY <1>1, <1>4 DEF Inv, TypeOK
  <1>6. \A v \in VMs : IF v = Target
                       THEN vms'[v].agent = vms[v].agent /\ vms'[v].inbox = vms[v].inbox
                       ELSE vms'[v] = vms[v]
    BY <1>1, <1>2 DEF Inv, TypeOK, VmStates
  <1>7. \A v \in VMs : Lesser(v)
    BY <1>6, IsLesser
  <1>8. ASSUME NEW n \in 1 .. 9, job = "fcMigrate", n = Len(todo), Progress(n)
        PROVE  Progress(n - 1)'
    <2>1. n = 9 \/ (n = 5 /\ Target = b)
      BY <1>1, <1>8, MovedHead DEF Inv
    <2>2. a \in VMs /\ b \in VMs /\ a # b
      BY MigrationAssumption
    <2>3. \A v \in VMs : Asked(v, "shutdown")' => Asked(v, "shutdown")
      BY <1>1, <1>7, LesserKeeps DEF Inv
    <2>4. ~Replied' /\ (n = 5 => vms'[a] = vms[a])
      BY <1>1, <1>3, <1>6, <2>1, <2>2 DEF Replied
    <2>5. ASSUME n = 9 PROVE Progress(8)'
      BY <1>8, <2>2, <2>3, <2>5 DEF Progress
    <2>6. ASSUME n = 5 PROVE Progress(4)'
      BY <1>8, <2>2, <2>3, <2>4, <2>6 DEF Progress
    <2>7. QED
      BY <2>1, <2>5, <2>6
  <1>9. /\ {pkg', snap'} \subseteq Packages
        /\ file' \in [package : Nat, framed : BOOLEAN] \cup {None}
    BY <1>1 DEF Inv, TypeOK
  <1>10. pkg' = pkg /\ Head(todo).op \notin Sets
    BY <1>1 DEF Sets
  <1>11. QED
    BY <1>1, <1>3, <1>5, <1>7, <1>8, <1>9, <1>10, LesserContinues

\* A snapshot preserves the invariant.
LEMMA SnapshotStep ==
  ASSUME Inv, Now("snapshot"), Snapshotted(Target), Continue, UNCHANGED carriers
  PROVE  Inv'
  <1>1. /\ Running /\ todo # <<>> /\ todo' = Tail(todo) /\ Head(todo).op = "snapshot"
        /\ vms' = [vms EXCEPT ![Target].fc = "paused"] /\ snap' = vms[Target].agent
        /\ UNCHANGED <<job, code, call, file, process, node, wire, hosted, pkg,
                       sent, deaths>>
    BY DEF Now, Snapshotted, Continue, carriers
  <1>2. Target \in VMs /\ Target = a
    BY <1>1, HeadFacts DEF Inv, Prepared, Ordered, Target
  <1>3. call = None
    BY <1>1, NoCall DEF Inv, OpOf, Requests
  <1>4. vms \in [VMs -> VmStates] /\ vms[a] \in VmStates
    BY <1>2 DEF Inv, TypeOK
  <1>5. [vms[a] EXCEPT !.fc = "paused"] \in VmStates
    BY <1>4 DEF VmStates
  <1>6. vms' \in [VMs -> VmStates]
    BY <1>1, <1>2, <1>4, <1>5
  <1>7. \A v \in VMs : vms'[v].agent = vms[v].agent /\ vms'[v].inbox = vms[v].inbox
    BY <1>1, <1>2, <1>4 DEF VmStates
  <1>8. \A v \in VMs : Lesser(v)
    BY <1>7, IsLesser
  <1>9. SnapCarried'
    BY <1>1, <1>2 DEF Inv, Carried, SnapCarried, Thought
  <1>10. /\ {pkg', snap'} \subseteq Packages
         /\ file' \in [package : Nat, framed : BOOLEAN] \cup {None}
    BY <1>1, <1>2, VmTyped DEF Inv, TypeOK
  <1>11. pkg' = pkg /\ Head(todo).op \notin Sets
    BY <1>1 DEF Sets
  <1>12. \A n \in 1 .. 9 : ~(job = "fcMigrate" /\ n = Len(todo))
    BY <1>1, MovedHead DEF Inv
  <1>13. QED
    BY <1>1, <1>3, <1>6, <1>8, <1>9, <1>10, <1>11, <1>12, LesserContinues

\* A handle that is dropped preserves the invariant.
LEMMA DropStep ==
  ASSUME Inv, Now("drop"), Dropped(Target), Continue, UNCHANGED carriers
  PROVE  Inv'
  <1>1. /\ Running /\ todo # <<>> /\ todo' = Tail(todo) /\ Head(todo).op = "drop"
        /\ vms' = [v \in VMs |-> IF v = Target THEN NoVm ELSE vms[v]]
        /\ UNCHANGED <<job, code, call, file, process, node, wire, hosted, pkg,
                       snap, sent, deaths>>
    BY DEF Now, Dropped, Killed, Continue, carriers
  <1>2. Target \in VMs
    BY <1>1, HeadFacts DEF Inv
  <1>3. call = None
    BY <1>1, NoCall DEF Inv, OpOf, Requests
  <1>4. vms' \in [VMs -> VmStates]
    BY <1>1, <1>2, VmTyped DEF Inv, TypeOK
  <1>5. \A v \in VMs : vms'[v] = IF v = Target THEN NoVm ELSE vms[v]
    BY <1>1
  <1>6. \A v \in VMs : Lesser(v)
    BY <1>5, IsLesser DEF NoVm
  <1>7. /\ {pkg', snap'} \subseteq Packages
        /\ file' \in [package : Nat, framed : BOOLEAN] \cup {None}
    BY <1>1 DEF Inv, TypeOK
  <1>8. pkg' = pkg /\ Head(todo).op \notin Sets
    BY <1>1 DEF Sets
  <1>9. \A n \in 1 .. 9 : ~(job = "fcMigrate" /\ n = Len(todo))
    BY <1>1, MovedHead DEF Inv
  <1>10. QED
    BY <1>1, <1>3, <1>4, <1>6, <1>7, <1>8, <1>9, LesserContinues

\* A restored VM goes on with the agent that the snapshot captured.
LEMMA RestoreStep ==
  ASSUME Inv, Now("restore"), Restored(Target), Continue, UNCHANGED carriers
  PROVE  Inv'
  <1> DEFINE s == [NoVm EXCEPT !.fc = "running", !.agent = snap]
  <1>1. /\ Running /\ todo # <<>> /\ todo' = Tail(todo) /\ Head(todo).op = "restore"
        /\ vms' = [vms EXCEPT ![Target] = s]
        /\ UNCHANGED <<job, code, call, file, process, node, wire, hosted, pkg,
                       snap, sent, deaths>>
    BY DEF Now, Restored, Continue, carriers
  <1>2. Target \in VMs /\ Target = a
    BY <1>1, HeadFacts DEF Inv, Prepared, Ordered, Target
  <1>3. call = None
    BY <1>1, NoCall DEF Inv, OpOf, Requests
  <1>4. s \in VmStates /\ s.agent = snap /\ s.inbox = <<>>
    <2>1. NoVm \in VmStates /\ NoVm.inbox = <<>>
      BY <1>2, VmTyped DEF Inv, NoVm
    <2>2. snap \in Packages
      BY DEF Inv, TypeOK
    <2>3. QED
      BY <2>1, <2>2 DEF VmStates
  <1> HIDE DEF s
  <1>5. vms' \in [VMs -> VmStates]
    BY <1>1, <1>2, <1>4 DEF Inv, TypeOK
  <1>6. \A v \in VMs : vms'[v] = IF v = a THEN s ELSE vms[v]
    BY <1>1, <1>2 DEF Inv, TypeOK
  <1>7. SnapCarried
    <2>1. RestoresNow(todo, 1) /\ 1 \in 1 .. Len(todo)
      BY <1>1, HeadFacts DEF Inv, RestoresNow
    <2>2. QED
      BY <2>1 DEF Inv, Prepared
  <1>8. \A v \in VMs : Carried(v)'
    <2>1. Carried(a)'
      BY <1>1, <1>2, <1>4, <1>6, <1>7 DEF Carried, SnapCarried, Thought
    <2>2. \A v \in VMs : v # a => Carried(v)'
      BY <1>1, <1>6 DEF Inv, Carried, Thought
    <2>3. QED
      BY <2>1, <2>2
  <1>9. \A v \in VMs : \A i \in 1 .. Len(vms'[v].inbox) : ~vms'[v].inbox[i].open
    <2>1. \A v \in VMs : \A i \in 1 .. Len(vms[v].inbox) : ~vms[v].inbox[i].open
      BY <1>3, NothingOpen DEF Inv
    <2>2. QED
      BY <1>4, <1>6, <2>1
  <1>10. \A i \in 2 .. Len(todo) : todo[i].op # "deploy"
    <2> SUFFICES ASSUME NEW i \in 2 .. Len(todo) PROVE todo[i].op # "deploy"
      OBVIOUS
    <2>1. /\ 1 \in 1 .. Len(todo) /\ i \in 1 .. Len(todo) /\ 1 < i
          /\ todo[1].op = "restore"
      BY <1>1, HeadFacts DEF Inv
    <2>2. QED
      BY <2>1 DEF Inv, Prepared, Ordered
  <1>11. Restarted' /\ {pkg', snap', process'} \subseteq Packages
         /\ file' \in [package : Nat, framed : BOOLEAN] \cup {None}
    <2>1. process = None
      BY <1>1, BeforeTheEnd DEF Inv
    <2>2. todo' # <<>> => todo'[1].op # "act"
      BY <1>1, NoActNext DEF Inv
    <2>3. Restarted'
      BY <1>1, <2>1, <2>2 DEF Restarted
    <2>4. QED
      BY <1>1, <2>1, <2>3 DEF Packages, Inv, TypeOK
  <1>12. pkg' = pkg /\ Head(todo).op \notin Sets
    BY <1>1 DEF Sets
  <1>13. \A n \in 1 .. 9 : ~(job = "fcMigrate" /\ n = Len(todo))
    BY <1>1, MovedHead DEF Inv
  <1>14. QED
    BY <1>1, <1>3, <1>5, <1>8, <1>9, <1>10, <1>11, <1>12, <1>13, ContinueStep DEF Step

\* A deployment is answered: the VM has the agent.
LEMMA DeployedStep ==
  ASSUME Inv, Now("deploy"), DeploySucceeds, Continue, UNCHANGED carriers
  PROVE  Inv'
  <1>1. /\ Running /\ todo # <<>> /\ todo' = Tail(todo) /\ Head(todo).op = "deploy"
        /\ call # None /\ call.status = "ok" /\ call' = None
        /\ UNCHANGED <<vms, job, code, file, process, node, wire, hosted, pkg,
                       snap, sent, deaths>>
    BY DEF Now, DeploySucceeds, Answered, Continue, carriers
  <1>2. \A v \in VMs : Lesser(v)
    BY <1>1, IsLesser
  <1>3. ASSUME NEW n \in 1 .. 9, job = "fcMigrate", n = Len(todo), Progress(n)
        PROVE  Progress(n - 1)'
    <2>1. n = 7 \/ (n = 4 /\ Head(todo) = Step("deploy", b))
      BY <1>1, <1>3, MovedHead DEF Inv
    <2>2. Replied /\ \A v \in VMs : \A op : Asked(v, op)' => Asked(v, op)
      BY <1>1 DEF Replied, Asked
    <2>3. a \in VMs /\ b \in VMs
      BY MigrationAssumption
    <2>4. ASSUME n = 7 PROVE Progress(6)'
      BY <1>1, <1>3, <2>2, <2>3, <2>4 DEF Progress
    <2>5. ASSUME n = 4 PROVE Progress(3)'
      <3>1. todo[1] = Step("deploy", b) /\ 1 \in 1 .. Len(todo)
        BY <1>1, <2>1, <2>5, HeadFacts DEF Inv
      <3>2. vms[b].agent # None
        BY <1>3, <2>2, <2>5 DEF Progress
      <3>3. sent[b] = pkg
        BY <2>3, <3>1, <3>2 DEF Inv, Fresh, Undeployed
      <3>4. QED
        BY <1>1, <1>3, <2>2, <2>3, <2>5, <3>2, <3>3 DEF Progress
    <2>6. QED
      BY <2>1, <2>4, <2>5
  <1>4. /\ vms' \in [VMs -> VmStates] /\ {pkg', snap'} \subseteq Packages
        /\ file' \in [package : Nat, framed : BOOLEAN] \cup {None}
    BY <1>1 DEF Inv, TypeOK
  <1>5. pkg' = pkg /\ Head(todo).op \notin Sets
    BY <1>1 DEF Sets
  <1>6. QED
    BY <1>1, <1>2, <1>3, <1>4, <1>5, LesserContinues

\* A call whose answer is only printed.
LEMMA PrintedStep ==
  ASSUME Inv, Running, todo # <<>>, Head(todo).op \in {"health", "look", "ask"},
         NEW op, Printed(op), Continue, UNCHANGED carriers
  PROVE  Inv'
  <1>1. /\ todo' = Tail(todo) /\ call.status # "waiting" /\ call' = None
        /\ UNCHANGED <<vms, job, code, file, process, node, wire, hosted, pkg,
                       snap, sent, deaths>>
    BY DEF Printed, Answered, Continue, carriers
  <1>2. \A v \in VMs : Lesser(v)
    BY <1>1, IsLesser
  <1>3. ASSUME NEW n \in 1 .. 9, job = "fcMigrate", n = Len(todo), Progress(n)
        PROVE  Progress(n - 1)'
    <2>1. n = 3
      BY <1>3, MovedHead DEF Inv
    <2>2. Progress(2)'
      BY <1>1, <1>3, <2>1 DEF Progress, Replied, Asked
    <2>3. QED
      BY <2>1, <2>2
  <1>4. /\ vms' \in [VMs -> VmStates] /\ {pkg', snap'} \subseteq Packages
        /\ file' \in [package : Nat, framed : BOOLEAN] \cup {None}
    BY <1>1 DEF Inv, TypeOK
  <1>5. pkg' = pkg /\ Head(todo).op \notin Sets
    BY <1>1 DEF Sets
  <1>6. QED
    BY <1>1, <1>2, <1>3, <1>4, <1>5, LesserContinues

\* A checkpoint is the agent of the VM, as a package.
LEMMA CheckpointedStep ==
  ASSUME Inv, Now("checkpoint"), CheckpointSucceeds, Continue, UNCHANGED carriers
  PROVE  Inv'
  <1>1. /\ Running /\ todo # <<>> /\ todo' = Tail(todo) /\ Head(todo).op = "checkpoint"
        /\ call # None /\ call.op = "checkpoint" /\ call.status = "ok"
        /\ call' = None /\ pkg' = call.reply
        /\ UNCHANGED <<vms, job, code, file, process, node, wire, hosted,
                       snap, sent, deaths>>
    BY DEF Now, CheckpointSucceeds, Answered, Continue, carriers
  <1>2. \A v \in VMs : Lesser(v)
    BY <1>1, IsLesser
  <1>3. ASSUME NEW n \in 1 .. 9, job = "fcMigrate", n = Len(todo), Progress(n)
        PROVE  Progress(n - 1)'
    <2>1. n = 6
      BY <1>1, <1>3, MovedHead DEF Inv
    <2>2. Progress(5)'
      BY <1>1, <1>3, <2>1 DEF Progress, Replied, Asked
    <2>3. QED
      BY <2>1, <2>2
  <1>4. pkg' \in Nat
    BY <1>1 DEF Inv, Called
  <1>5. /\ vms' \in [VMs -> VmStates] /\ {pkg', snap'} \subseteq Packages
        /\ file' \in [package : Nat, framed : BOOLEAN] \cup {None}
    BY <1>1, <1>4 DEF Inv, TypeOK, Packages
  <1>6. QED
    BY <1>1, <1>2, <1>3, <1>4, <1>5, LesserContinues

\* A shutdown preserves the invariant.
LEMMA ShutdownStep ==
  ASSUME Inv, Now("shutdown"), ShutdownReturns, Continue, UNCHANGED carriers
  PROVE  Inv'
  <1>1. /\ Running /\ todo # <<>> /\ todo' = Tail(todo) /\ Head(todo).op = "shutdown"
        /\ call # None /\ call.status # "waiting" /\ call' = None
        /\ vms' = [v \in VMs |-> IF v = call.vm THEN NoVm ELSE vms[v]]
        /\ UNCHANGED <<job, code, file, process, node, wire, hosted, pkg,
                       snap, sent, deaths>>
    BY DEF Now, ShutdownReturns, Killed, Answered, Continue, carriers
  <1>2. call.vm = Target /\ Target \in VMs
    BY <1>1, HeadFacts DEF Inv, Called
  <1>3. vms' \in [VMs -> VmStates]
    BY <1>1, <1>2, VmTyped DEF Inv, TypeOK
  <1>4. \A v \in VMs : vms'[v] = IF v = Target THEN NoVm ELSE vms[v]
    BY <1>1, <1>2
  <1>5. \A v \in VMs : Lesser(v)
    BY <1>4, IsLesser DEF NoVm
  <1>6. ASSUME NEW n \in 1 .. 9, job = "fcMigrate", n = Len(todo), Progress(n)
        PROVE  Progress(n - 1)'
    <2>1. n = 1 \/ (n = 2 /\ Target = a)
      BY <1>1, <1>6, MovedHead DEF Inv
    <2>2. a \in VMs /\ b \in VMs /\ a # b
      BY MigrationAssumption
    <2>3. \A v \in VMs : Asked(v, "shutdown")' => Asked(v, "shutdown")
      BY <1>1, <1>5, LesserKeeps DEF Inv
    <2>4. ASSUME n = 2 PROVE Progress(1)'
      <3>1. vms'[a] = NoVm /\ vms'[b] = vms[b]
        BY <1>4, <2>1, <2>2, <2>4
      <3>2. QED
        BY <1>1, <1>6, <2>2, <2>3, <2>4, <3>1 DEF Progress
    <2>5. Progress(0)'
      BY DEF Progress
    <2>6. QED
      BY <2>1, <2>4, <2>5
  <1>7. /\ {pkg', snap'} \subseteq Packages
        /\ file' \in [package : Nat, framed : BOOLEAN] \cup {None}
    BY <1>1 DEF Inv, TypeOK
  <1>8. pkg' = pkg /\ Head(todo).op \notin Sets
    BY <1>1 DEF Sets
  <1>9. QED
    BY <1>1, <1>3, <1>5, <1>6, <1>7, <1>8, LesserContinues

\* Whichever step it is on a handle.
LEMMA HandleKeeps ==
  ASSUME Inv, HandleStep
  PROVE  Inv'
  <1>1. Continue /\ UNCHANGED carriers
    BY DEF HandleStep
  <1>2. CASE \/ Now("launch")   /\ Launched(Target)
             \/ Now("snapshot") /\ Snapshotted(Target)
             \/ Now("drop")     /\ Dropped(Target)
             \/ Now("restore")  /\ Restored(Target)
    BY <1>1, <1>2, LaunchStep, SnapshotStep, DropStep, RestoreStep
  <1>3. CASE \/ Now("deploy")     /\ DeploySucceeds
             \/ Now("checkpoint") /\ CheckpointSucceeds
             \/ Now("shutdown")   /\ ShutdownReturns
    BY <1>1, <1>3, DeployedStep, CheckpointedStep, ShutdownStep
  <1>4. CASE \/ Now("health") /\ Printed("health")
             \/ Now("look")   /\ Printed("checkpoint")
             \/ Now("ask")    /\ Printed("shutdown")
    <2>1. Running /\ todo # <<>> /\ Head(todo).op \in {"health", "look", "ask"}
      BY <1>4 DEF Now
    <2>2. QED
      BY <1>1, <1>4, <2>1, PrintedStep
  <1>5. QED
    BY <1>2, <1>3, <1>4 DEF HandleStep

----------------------------------------------------------------------------
\* The steps of the program in its own process.

\* The program has a package when it needs one.
LEMMA HeadUses ==
  ASSUME Inv, Running, todo # <<>>, Head(todo).op \in Uses
  PROVE  pkg \in Nat
  <1>1. UsesNow(todo, 1) /\ 1 \in 1 .. Len(todo)
    BY HeadFacts DEF Inv, UsesNow
  <1>2. QED
    BY <1>1 DEF Inv, Prepared

\* A step that changes what the host process holds preserves the invariant.
LEMMA HoldsStep ==
  ASSUME Inv, Running, todo # <<>>, Continue, NEW p \in Nat, Holds(p),
         Head(todo).op \in {"demo", "think", "read", "mount"}
  PROVE  Inv'
  <1>1. /\ todo' = Tail(todo) /\ pkg' = p
        /\ UNCHANGED <<vms, call, job, code, file, process, node, wire, hosted,
                       snap, sent, deaths>>
    BY DEF Holds, Continue, carriers
  <1>2. call = None
    BY NoCall DEF Inv, OpOf, Requests
  <1>3. \A v \in VMs : Lesser(v)
    BY <1>1, IsLesser
  <1>4. ASSUME NEW n \in 1 .. 9, job = "fcMigrate", n = Len(todo), Progress(n)
        PROVE  Progress(n - 1)'
    <2>1. n = 8
      BY <1>4, MovedHead DEF Inv
    <2>2. Progress(7)'
      BY <1>1, <1>2, <1>4, <2>1 DEF Progress, Replied, Asked
    <2>3. QED
      BY <2>1, <2>2
  <1>5. /\ vms' \in [VMs -> VmStates] /\ {pkg', snap'} \subseteq Packages
        /\ file' \in [package : Nat, framed : BOOLEAN] \cup {None}
    BY <1>1 DEF Inv, TypeOK, Packages
  <1>6. QED
    BY <1>1, <1>2, <1>3, <1>4, <1>5, LesserContinues

\* A file that is written preserves the invariant.
LEMMA WritesStep ==
  ASSUME Inv, Writes, Continue
  PROVE  Inv'
  <1>1. /\ Running /\ todo # <<>> /\ todo' = Tail(todo)
        /\ Head(todo).op \in {"write", "burn"}
        /\ file' = [package |-> pkg, framed |-> Now("burn")]
        /\ UNCHANGED <<vms, call, job, code, process, node, wire, hosted, pkg,
                       snap, sent, deaths>>
    BY DEF Writes, Written, Now, Continue, microVm
  <1>2. call = None
    BY <1>1, NoCall DEF Inv, OpOf, Requests
  <1>3. \A v \in VMs : Lesser(v)
    BY <1>1, IsLesser
  <1>4. \A n \in 1 .. 9 : ~(job = "fcMigrate" /\ n = Len(todo))
    BY <1>1, MovedHead DEF Inv
  <1>5. pkg \in Nat /\ pkg' = pkg /\ Head(todo).op \notin Sets
    BY <1>1, HeadUses DEF Uses, Sets
  <1>6. file' \in [package : Nat, framed : BOOLEAN]
    <2>1. Now("burn") \in BOOLEAN
      BY DEF Now
    <2>2. QED
      BY <1>1, <1>5, <2>1
  <1>7. vms' \in [VMs -> VmStates] /\ {pkg', snap'} \subseteq Packages
    BY <1>1 DEF Inv, TypeOK
  <1>8. QED
    BY <1>1, <1>2, <1>3, <1>4, <1>5, <1>6, <1>7, LesserContinues

\* An agent is restored into the process, and acts there.
LEMMA ProcessStep ==
  ASSUME Inv, Running, todo # <<>>, Continue, Head(todo).op \in {"local", "act"},
         UNCHANGED <<microVm, file, node, wire, hosted>>,
         process' = IF Head(todo).op = "local" THEN pkg ELSE Thought(process)
  PROVE  Inv'
  <1>1. /\ todo' = Tail(todo)
        /\ UNCHANGED <<vms, call, job, code, file, node, wire, hosted, pkg,
                       snap, sent, deaths>>
    BY DEF Continue, microVm
  <1>2. call = None
    BY NoCall DEF Inv, OpOf, Requests
  <1>3. /\ todo[1] = Head(todo) /\ 1 \in 1 .. Len(todo) /\ Len(todo) \in Nat
        /\ \A i \in 1 .. Len(todo') : /\ todo'[i] = todo[i + 1] /\ i + 1 \in 1 .. Len(todo)
                                      /\ 1 < i + 1
        /\ todo' # <<>> => 1 \in 1 .. Len(todo')
    <2>1. todo \in Seq(Steps)
      BY DEF Inv, TypeOK
    <2>2. QED
      BY <1>1, <2>1, TailFacts
  <1>4. Ordered(todo)
    BY DEF Inv, Prepared
  <1>5. Restarted' /\ process' \in Packages
    <2>1. CASE Head(todo).op = "local"
      <3>1. pkg \in Nat /\ process' = pkg /\ process' # None
        BY <2>1, HeadUses, ThoughtIsPackage DEF Uses
      <3>2. \A i \in 1 .. Len(todo') : todo'[i].op = "act"
        BY <1>3, <1>4, <2>1 DEF Ordered
      <3>3. QED
        BY <1>1, <3>1, <3>2 DEF Restarted, Packages
    <2>2. CASE Head(todo).op = "act"
      <3>1. process \in Nat /\ process = pkg
        BY <1>3, <2>2 DEF Inv, Restarted, TypeOK, Packages
      <3>2. todo' = <<>>
        <4>1. \A i \in 1 .. Len(todo') : FALSE
          BY <1>3, <1>4, <2>2 DEF Ordered
        <4>2. QED
          BY <1>3, <4>1
      <3>3. process' = Thought(pkg') /\ process' \in Nat
        <4>1. process' = Thought(process)
          BY <2>2
        <4>2. QED
          BY <1>1, <3>1, <4>1, ThoughtIsPackage DEF Thought
      <3>4. Len(todo') = 0
        BY <3>2
      <3>5. QED
        BY <3>2, <3>3, <3>4 DEF Restarted, Packages
    <2>3. QED
      BY <2>1, <2>2
  <1>6. \A v \in VMs : Carried(v)'
    BY <1>1 DEF Inv, Carried, Thought
  <1>7. \A v \in VMs : \A i \in 1 .. Len(vms'[v].inbox) : ~vms'[v].inbox[i].open
    BY <1>1, <1>2, NothingOpen DEF Inv
  <1>8. \A v \in VMs : Undeployed(v) => Undeployed(v)'
    BY <1>1 DEF Undeployed
  <1>9. /\ vms' \in [VMs -> VmStates] /\ {pkg', snap', process'} \subseteq Packages
        /\ file' \in [package : Nat, framed : BOOLEAN] \cup {None}
    BY <1>1, <1>5 DEF Inv, TypeOK
  <1>10. \A n \in 1 .. 9 : ~(job = "fcMigrate" /\ n = Len(todo))
    BY MovedHead DEF Inv
  <1>11. pkg' = pkg /\ Head(todo).op \notin Sets /\ Head(todo).op # "snapshot"
         /\ Head(todo).op # "send" /\ call' = None
    BY <1>1, <1>2 DEF Sets
  <1>12. QED
    BY <1>1, <1>5, <1>6, <1>7, <1>8, <1>9, <1>10, <1>11, ContinueStep

\* What happens in the host's own process preserves the invariant.
LEMMA LocalKeeps ==
  ASSUME Inv, LocalStep
  PROVE  Inv'
  <1>1. Continue
    BY DEF LocalStep
  <1>2. CASE Now("demo") /\ Holds(Demo)
    <2>1. Demo \in Nat
      BY DEF Demo
    <2>2. QED
      BY <1>1, <1>2, <2>1, HoldsStep DEF Now
  <1>3. CASE Now("think") /\ Holds(Thought(pkg))
    <2>1. pkg \in Nat
      BY <1>3, HeadUses DEF Now, Uses
    <2>2. Thought(pkg) \in Nat
      BY <2>1, ThoughtIsPackage
    <2>3. QED
      BY <1>1, <1>3, <2>2, HoldsStep DEF Now
  <1>4. CASE Reads
    <2>1. file.package \in Nat
      BY <1>4 DEF Reads, Readable, Inv, TypeOK
    <2>2. Running /\ todo # <<>> /\ Head(todo).op \in {"read", "mount"}
      BY <1>4 DEF Reads, Readable, Now
    <2>3. QED
      BY <1>1, <1>4, <2>1, <2>2, HoldsStep DEF Reads
  <1>5. CASE Writes
    BY <1>1, <1>5, WritesStep
  <1>6. CASE /\ Now("local") /\ process' = pkg
             /\ UNCHANGED <<microVm, file, node, wire, hosted>>
    BY <1>1, <1>6, ProcessStep DEF Now
  <1>7. CASE /\ Now("act") /\ process' = Thought(process)
             /\ UNCHANGED <<microVm, file, node, wire, hosted>>
    BY <1>1, <1>7, ProcessStep DEF Now
  <1>8. QED
    BY <1>2, <1>3, <1>4, <1>5, <1>6, <1>7 DEF LocalStep

----------------------------------------------------------------------------
\* The end of a program.

\* A program that exits preserves the invariant: its handles take their VMs along.
LEMMA ExitKeeps ==
  ASSUME Inv, Running, NEW c \in {"success", "failure"}, Exit(c),
         call = None \/ call.status # "waiting",
         c = "success" /\ job = "netMigrate" => wire.client = "accepted",
         file' \in [package : Nat, framed : BOOLEAN] \cup {None}
  PROVE  Inv'
  <1>1. /\ code' = c /\ todo' = <<>> /\ call' = None
        /\ vms' = Killed(held)
        /\ UNCHANGED <<job, process, node, wire, hosted, pkg, snap, deaths, sent>>
    BY DEF Exit
  <1>2. ~Running' /\ Len(todo') = 0 /\ todo' \in Seq(Steps)
    BY <1>1 DEF Running
  <1>3. \A v \in VMs : IF v \in held THEN vms'[v] = NoVm ELSE vms'[v] = vms[v]
    BY <1>1 DEF Killed
  <1>4. \A v \in VMs : Lesser(v)
    BY <1>3, IsLesser DEF NoVm
  <1>5. \A v \in VMs : \A i \in 1 .. Len(vms[v].inbox) : ~vms[v].inbox[i].open
    BY NothingOpen DEF Inv
  <1>6. \A v \in VMs : /\ Carried(v)'
                       /\ \A i \in 1 .. Len(vms'[v].inbox) : ~vms'[v].inbox[i].open
    BY <1>1, <1>4, <1>5, LesserKeeps DEF Inv
  <1>7. vms' \in [VMs -> VmStates]
    <2>1. \A v \in VMs : NoVm \in VmStates
      BY VmTyped DEF Inv
    <2>2. QED
      BY <1>1, <2>1 DEF Killed, Inv, TypeOK
  <1>8. TypeOK'
    BY <1>1, <1>2, <1>7 DEF Inv, TypeOK
  <1>9. Called'
    BY <1>1, <1>6 DEF Called
  <1>10. Ended'
    BY <1>1 DEF Ended
  <1>11. Fresh' /\ Prepared' /\ Moved'
    BY <1>2 DEF Fresh, Prepared, Ordered, Moved
  <1>12. Restarted'
    BY <1>1, <1>2 DEF Inv, Restarted, Thought
  <1>13. Shipped'
    BY <1>1, <1>2 DEF Inv, Shipped
  <1>14. QED
    BY <1>6, <1>8, <1>9, <1>10, <1>11, <1>12, <1>13 DEF Inv

\* A program that fails has no call under way.
LEMMA FailsKeeps ==
  ASSUME Inv, Fails
  PROVE  Inv'
  <1>1. Running /\ todo # <<>> /\ Exit("failure")
    BY DEF Fails, WriteFails, Now
  <1>2. call = None \/ call.status # "waiting"
    <2>1. CASE Head(todo).op \in {"launch", "snapshot", "restore", "write", "burn",
                                  "read", "mount", "act", "send"}
      BY <2>1, NoCall DEF Inv, OpOf, Requests
    <2>2. CASE DeployGivesUp \/ CheckpointFails
      BY <2>2 DEF DeployGivesUp, CheckpointFails, Answered
    <2>3. QED
      BY <2>1, <2>2 DEF Fails, WriteFails, Now
  <1>3. file' \in [package : Nat, framed : BOOLEAN] \cup {None}
    <2>1. CASE WriteFails
      <3>1. pkg \in Nat
        BY <1>1, <2>1, HeadUses DEF WriteFails, Now, Uses
      <3>2. Written \in [package : Nat, framed : BOOLEAN]
        <4>1. Now("burn") \in BOOLEAN
          BY DEF Now
        <4>2. QED
          BY <3>1, <4>1 DEF Written
      <3>3. file' \in {file, None, Written}
        BY <2>1 DEF WriteFails
      <3>4. QED
        BY <3>2, <3>3 DEF Inv, TypeOK
    <2>2. CASE UNCHANGED file
      BY <2>2 DEF Inv, TypeOK
    <2>3. QED
      BY <2>1, <2>2 DEF Fails
  <1>4. QED
    BY <1>1, <1>2, <1>3, ExitKeeps

\* Nor has one that succeeds; and a migration over TCP has been accepted then.
LEMMA FinishesKeeps ==
  ASSUME Inv, Finishes
  PROVE  Inv'
  <1>1. /\ Running /\ Exit("success")
        /\ todo = <<>> \/ (Head(todo).op = "send" /\ wire.client = "accepted")
    BY DEF Finishes, Now
  <1>2. call = None
    BY <1>1, NoCall DEF Inv, OpOf, Requests
  <1>3. job = "netMigrate" => wire.client = "accepted"
    BY <1>1 DEF Inv, Shipped
  <1>4. file' \in [package : Nat, framed : BOOLEAN] \cup {None}
    BY DEF Finishes, Inv, TypeOK
  <1>5. QED
    BY <1>1, <1>2, <1>3, <1>4, ExitKeeps

----------------------------------------------------------------------------
\* The migration over TCP.

\* A step on the wire touches no VM, and preserves the invariant.
LEMMA WireKeeps ==
  ASSUME Inv, UNCHANGED <<vms, call, pkg, snap, deaths, sent, program, file, process>>,
         node' \in [phase : {"off", "serving", "received", "gaveUp"},
                    agent : Packages, polls : Nat],
         wire' \in [client : {"closed", "waiting", "accepted", "rejected", "failed"},
                    server : {"closed", "reading", "accepting", "rejecting"},
                    package : Packages],
         hosted' \in Packages, Shipped'
  PROVE  Inv'
  <1>1. UNCHANGED <<job, todo, code, jobs>>
    BY DEF program
  <1>2. TypeOK'
    BY <1>1 DEF Inv, TypeOK
  <1>3. Called' /\ Ended'
    BY <1>1 DEF Inv, Called, Ended, Waiting, Running, Target
  <1>4. Fresh' /\ \A v \in VMs : Carried(v)'
    <2>1. Fresh'
      BY <1>1 DEF Inv, Fresh, Undeployed
    <2>2. \A v \in VMs : Carried(v)'
      BY DEF Inv, Carried, Thought
    <2>3. QED
      BY <2>1, <2>2
  <1>5. Prepared' /\ Restarted'
    BY <1>1 DEF Inv, Prepared, SnapCarried, Restarted, Thought
  <1>6. Moved'
    <2>1. \A n : Progress(n) => Progress(n)'
      BY DEF Progress, Asked, Replied
    <2>2. QED
      BY <1>1, <2>1 DEF Inv, Moved, Running
  <1>7. QED
    BY <1>2, <1>3, <1>4, <1>5, <1>6 DEF Inv

\* A client that sends its package preserves the invariant.
LEMMA SendsKeeps ==
  ASSUME Inv, Sends
  PROVE  Inv'
  <1>1. /\ Now("send") /\ Running /\ wire.client = "closed" /\ wire.server = "closed"
        /\ node.agent = None
        /\ wire' = [client |-> "waiting", server |-> "reading", package |-> pkg]
        /\ UNCHANGED <<vms, call, pkg, snap, deaths, sent, file, process, node, hosted>>
        /\ UNCHANGED <<job, todo, code, jobs>>
    BY DEF Sends, Now, microVm, program, Inv, Shipped
  <1>2. Shipped'
    BY <1>1 DEF Inv, Shipped, Running, Now
  <1>3. /\ wire' \in [client : {"closed", "waiting", "accepted", "rejected", "failed"},
                      server : {"closed", "reading", "accepting", "rejecting"},
                      package : Packages]
        /\ hosted' \in Packages
        /\ node' \in [phase : {"off", "serving", "received", "gaveUp"},
                      agent : Packages, polls : Nat]
    BY <1>1 DEF Inv, TypeOK
  <1>4. QED
    BY <1>1, <1>2, <1>3, WireKeeps DEF program

\* A node that deploys what it received preserves the invariant.
LEMMA NodeDeploysKeeps ==
  ASSUME Inv, NodeDeploys
  PROVE  Inv'
  <1>1. /\ wire.server = "reading"
        /\ \/ /\ wire' = [wire EXCEPT !.server = "accepting"]
              /\ node' = [node EXCEPT !.agent = wire.package]
              /\ hosted' = wire.package
           \/ /\ wire' = [wire EXCEPT !.server = "rejecting"]
              /\ UNCHANGED <<node, hosted>>
        /\ UNCHANGED <<vms, call, pkg, snap, deaths, sent, file, process>>
        /\ UNCHANGED <<job, todo, code, jobs>>
    BY DEF NodeDeploys, microVm, program
  <1>2. wire.package = pkg /\ wire.client \notin {"closed", "accepted"}
    BY <1>1 DEF Inv, Shipped
  <1>3. /\ wire \in [client : {"closed", "waiting", "accepted", "rejected", "failed"},
                     server : {"closed", "reading", "accepting", "rejecting"},
                     package : Packages]
        /\ node \in [phase : {"off", "serving", "received", "gaveUp"},
                     agent : Packages, polls : Nat]
        /\ hosted \in Packages
    BY DEF Inv, TypeOK
  <1>4. /\ wire' \in [client : {"closed", "waiting", "accepted", "rejected", "failed"},
                      server : {"closed", "reading", "accepting", "rejecting"},
                      package : Packages]
        /\ wire'.client = wire.client /\ wire'.package = wire.package
        /\ wire'.server \in {"accepting", "rejecting"}
    BY <1>1, <1>3
  <1>5. /\ node' \in [phase : {"off", "serving", "received", "gaveUp"},
                      agent : Packages, polls : Nat]
        /\ hosted' \in Packages
        /\ node'.agent \in {node.agent, pkg}
        /\ wire'.server = "accepting" => hosted' = pkg
    BY <1>1, <1>2, <1>3
  <1>6. Shipped'
    BY <1>1, <1>2, <1>4, <1>5 DEF Inv, Shipped, Running, Now
  <1>7. QED
    BY <1>1, <1>4, <1>5, <1>6, WireKeeps DEF program

\* A node that acknowledges preserves the invariant.
LEMMA NodeAnswersKeeps ==
  ASSUME Inv, NodeAnswers
  PROVE  Inv'
  <1> DEFINE client == IF wire.client # "waiting" THEN wire.client
                       ELSE IF wire.server = "accepting" THEN "accepted" ELSE "rejected"
  <1>1. /\ wire.server \in {"accepting", "rejecting"}
        /\ wire' = [wire EXCEPT !.server = "closed", !.client = client]
        /\ UNCHANGED <<vms, call, pkg, snap, deaths, sent, file, process, node, hosted>>
        /\ UNCHANGED <<job, todo, code, jobs>>
    BY DEF NodeAnswers, microVm, program
  <1>2. /\ wire \in [client : {"closed", "waiting", "accepted", "rejected", "failed"},
                     server : {"closed", "reading", "accepting", "rejecting"},
                     package : Packages]
        /\ node \in [phase : {"off", "serving", "received", "gaveUp"},
                     agent : Packages, polls : Nat]
        /\ hosted \in Packages
    BY DEF Inv, TypeOK
  <1>3. wire.client \notin {"closed", "accepted"} /\ wire.package = pkg
    BY <1>1 DEF Inv, Shipped
  <1>4. client \in {"closed", "waiting", "accepted", "rejected", "failed"}
        /\ client # "closed" /\ (client = "accepted" => wire.server = "accepting")
    BY <1>2, <1>3
  <1> HIDE DEF client
  <1>5. /\ wire' \in [client : {"closed", "waiting", "accepted", "rejected", "failed"},
                      server : {"closed", "reading", "accepting", "rejecting"},
                      package : Packages]
        /\ wire'.client = client /\ wire'.package = pkg /\ wire'.server = "closed"
    BY <1>1, <1>2, <1>3, <1>4
  <1>6. Shipped'
    BY <1>1, <1>3, <1>4, <1>5 DEF Inv, Shipped, Running, Now
  <1>7. QED
    BY <1>1, <1>2, <1>5, <1>6, WireKeeps DEF program

\* A look of the poller at the node preserves the invariant.
LEMMA NodeLooksKeeps ==
  ASSUME Inv, NodeLooks
  PROVE  Inv'
  <1>1. /\ node' = IF node.polls = 0 THEN [NoNode EXCEPT !.phase = "gaveUp"]
                   ELSE IF node.agent # None THEN [node EXCEPT !.phase = "received"]
                   ELSE [node EXCEPT !.polls = @ - 1]
        /\ wire' = wire \/ (wire.client = "waiting" /\ wire' = [wire EXCEPT !.client = "failed"])
        /\ UNCHANGED <<vms, call, pkg, snap, deaths, sent, file, process, hosted>>
        /\ UNCHANGED <<job, todo, code, jobs>>
    BY DEF NodeLooks, microVm, program
  <1>2. /\ wire \in [client : {"closed", "waiting", "accepted", "rejected", "failed"},
                     server : {"closed", "reading", "accepting", "rejecting"},
                     package : Packages]
        /\ node \in [phase : {"off", "serving", "received", "gaveUp"},
                     agent : Packages, polls : Nat]
        /\ hosted' \in Packages
    BY <1>1 DEF Inv, TypeOK
  <1>3. /\ node' \in [phase : {"off", "serving", "received", "gaveUp"},
                      agent : Packages, polls : Nat]
        /\ node'.agent \in {None, node.agent}
    <2>1. None \in Packages
      BY DEF Packages
    <2>2. CASE node.polls = 0
      BY <1>1, <2>1, <2>2 DEF NoNode
    <2>3. CASE node.polls # 0
      <3>1. PICK polls \in Nat : polls = node.polls
        BY <1>2
      <3>2. polls - 1 \in Nat
        BY <2>3, <3>1
      <3>3. \/ node' = [node EXCEPT !.phase = "received"]
            \/ node' = [node EXCEPT !.polls = polls - 1]
        BY <1>1, <2>3, <3>1
      <3>4. QED
        BY <1>2, <3>2, <3>3
    <2>4. QED
      BY <2>2, <2>3
  <1>4. /\ wire' \in [client : {"closed", "waiting", "accepted", "rejected", "failed"},
                      server : {"closed", "reading", "accepting", "rejecting"},
                      package : Packages]
        /\ wire'.package = wire.package /\ wire'.server = wire.server
        /\ wire'.client = wire.client \/ (wire.client = "waiting" /\ wire'.client = "failed")
    BY <1>1, <1>2
  <1>5. Shipped'
    BY <1>1, <1>3, <1>4 DEF Inv, Shipped, Running, Now
  <1>6. QED
    BY <1>1, <1>2, <1>3, <1>4, <1>5, WireKeeps DEF program

\* A connection between nodes that breaks preserves the invariant.
LEMMA WireBreaksKeeps ==
  ASSUME Inv, WireBreaks
  PROVE  Inv'
  <1>1. PICK server \in {wire.server, "closed"} :
          wire' = [wire EXCEPT !.client = "failed", !.server = server]
    BY DEF WireBreaks
  <1>2. /\ wire.client = "waiting"
        /\ UNCHANGED <<vms, call, pkg, snap, deaths, sent, file, process, node, hosted>>
        /\ UNCHANGED <<job, todo, code, jobs>>
    BY DEF WireBreaks, program
  <1>3. /\ wire \in [client : {"closed", "waiting", "accepted", "rejected", "failed"},
                     server : {"closed", "reading", "accepting", "rejecting"},
                     package : Packages]
        /\ node' \in [phase : {"off", "serving", "received", "gaveUp"},
                      agent : Packages, polls : Nat]
        /\ hosted' \in Packages
    BY <1>2 DEF Inv, TypeOK
  <1>4. /\ wire' \in [client : {"closed", "waiting", "accepted", "rejected", "failed"},
                      server : {"closed", "reading", "accepting", "rejecting"},
                      package : Packages]
        /\ wire'.package = wire.package /\ wire'.server \in {wire.server, "closed"}
        /\ wire'.client = "failed"
    BY <1>1, <1>3
  <1>5. Shipped'
    BY <1>2, <1>4 DEF Inv, Shipped, Running, Now
  <1>6. QED
    BY <1>2, <1>3, <1>4, <1>5, WireKeeps DEF program

----------------------------------------------------------------------------
\* A program begins.

\* The programs there are.
LEMMA ProgramsAre ==
  ASSUME NEW j \in DOMAIN Programs
  PROVE  /\ WellFormed(Programs[j])
         /\ j = "fcMigrate" => Programs[j] = FcMigrate
         /\ j = "netMigrate" => Programs[j][Len(Programs[j])].op = "send"
  <1>1. WellFormed(Programs[j])
    BY ProgramsWellFormed DEF Programs
  <1>2. j = "fcMigrate" => Programs[j] = FcMigrate
    BY DEF Programs
  <1>3. NetMigrate[Len(NetMigrate)].op = "send"
    BY DEF NetMigrate, Step
  <1>4. j = "netMigrate" => Programs[j] = NetMigrate
    BY DEF Programs
  <1>5. QED
    BY <1>1, <1>2, <1>3, <1>4

\* A program that starts preserves the invariant.
LEMMA StartKeeps ==
  ASSUME Inv, NEW j \in DOMAIN Programs, StartJob(j)
  PROVE  Inv'
  <1> DEFINE fresh(v) == [NoVm EXCEPT !.fc = IF j = "host" /\ v = a THEN "booting" ELSE "none"]
  <1>1. /\ ~Running /\ job' = j /\ todo' = Programs[j] /\ code' = "running"
        /\ pkg' = None /\ process' = None /\ hosted' = None /\ wire' = NoWire
        /\ \/ node' = NoNode
           \/ node' = [phase |-> "serving", agent |-> None, polls |-> MaxPolls]
        /\ vms' = [v \in VMs |-> fresh(v)]
        /\ UNCHANGED <<call, snap, deaths, sent, file>>
    BY DEF StartJob
  <1>2. call = None /\ call' = None
    BY <1>1 DEF Inv, Ended
  <1>3. /\ todo' \in Seq(Steps) /\ todo' # <<>> /\ todo'[1].op # "act" /\ Ordered(todo')
        /\ \A i \in 1 .. Len(todo') : ~UsesNow(todo', i) /\ ~RestoresNow(todo', i)
        /\ j = "fcMigrate" => todo' = FcMigrate
        /\ j = "netMigrate" => todo'[Len(todo')].op = "send"
    <2>1. \A s : s = <<>> => ~(Len(s) > 0)
      OBVIOUS
    <2>2. QED
      BY <1>1, <2>1, ProgramsAre DEF WellFormed
  <1>4. \A v \in VMs : fresh(v) \in VmStates /\ fresh(v).agent = None /\ fresh(v).inbox = <<>>
    <2>1. \A v \in VMs : NoVm \in VmStates
      BY VmTyped DEF Inv
    <2>2. NoVm.agent = None /\ NoVm.inbox = <<>>
      BY DEF NoVm
    <2>3. QED
      BY <2>1, <2>2 DEF VmStates
  <1> HIDE DEF fresh
  <1>5. \A v \in VMs : vms'[v].agent = None /\ vms'[v].inbox = <<>>
    BY <1>1, <1>4
  <1>6. \A v \in VMs : Len(vms'[v].inbox) = 0
    BY <1>5
  <1>7. TypeOK'
    <2>1. vms' \in [VMs -> VmStates]
      BY <1>1, <1>4
    <2>2. node' \in [phase : {"off", "serving", "received", "gaveUp"},
                     agent : Packages, polls : Nat]
      <3>1. None \in Packages /\ MaxPolls \in Nat
        BY MigrationAssumption DEF Packages
      <3>2. NoNode \in [phase : {"off", "serving", "received", "gaveUp"},
                        agent : Packages, polls : Nat]
        BY <3>1 DEF NoNode
      <3>3. [phase |-> "serving", agent |-> None, polls |-> MaxPolls]
              \in [phase : {"off", "serving", "received", "gaveUp"},
                   agent : Packages, polls : Nat]
        BY <3>1
      <3>4. QED
        BY <1>1, <3>2, <3>3
    <2>3. wire' \in [client : {"closed", "waiting", "accepted", "rejected", "failed"},
                     server : {"closed", "reading", "accepting", "rejecting"},
                     package : Packages]
      BY <1>1 DEF NoWire, Packages
    <2>4. {pkg', snap', process', hosted'} \subseteq Packages
      BY <1>1 DEF Inv, TypeOK, Packages
    <2>5. QED
      BY <1>1, <1>2, <1>3, <2>1, <2>2, <2>3, <2>4 DEF Inv, TypeOK
  <1>8. Called' /\ Ended'
    BY <1>1, <1>2, <1>6 DEF Called, Ended, Running
  <1>9. Fresh' /\ \A v \in VMs : Carried(v)'
    BY <1>5, <1>6 DEF Fresh, Undeployed, Carried
  <1>10. Prepared' /\ Restarted'
    BY <1>1, <1>3 DEF Prepared, Restarted
  <1>11. Shipped'
    BY <1>1, <1>3 DEF Shipped, NoWire, NoNode
  <1>12. Moved'
    <2> SUFFICES ASSUME j = "fcMigrate" PROVE Moved'
      BY <1>1 DEF Moved
    <2>1. todo' = FcMigrate /\ Len(FcMigrate) = 9
      BY <1>3, FcMigrateSteps
    <2>2. \A i \in 1 .. 9 : i + 9 - 9 = i
      OBVIOUS
    <2>3. Progress(9)'
      BY <1>2, <1>6, MigrationAssumption DEF Progress, Asked
    <2>4. QED
      BY <2>1, <2>2, <2>3 DEF Moved
  <1>13. QED
    BY <1>7, <1>8, <1>9, <1>10, <1>11, <1>12 DEF Inv

----------------------------------------------------------------------------
\* The invariant.

\* The invariant holds before any program has run.
LEMMA InitInv == Init => Inv
  <1> SUFFICES ASSUME Init PROVE Inv
    OBVIOUS
  <1>1. /\ vms = [v \in VMs |-> NoVm] /\ call = None /\ pkg = None /\ snap = None
        /\ deaths = 0 /\ sent = [v \in VMs |-> None]
        /\ job = "none" /\ todo = <<>> /\ code = "success" /\ file = None
        /\ process = None /\ node = NoNode /\ wire = NoWire /\ hosted = None
    BY DEF Init, MicroVmInit
  <1>2. Len(todo) = 0 /\ todo \in Seq(Steps) /\ ~Running
    BY <1>1 DEF Running
  <1>3. NoVm \in VmStates /\ NoVm.agent = None /\ Len(NoVm.inbox) = 0
    BY DEF NoVm, VmStates, Packages
  <1>4. TypeOK
    <2>1. vms \in [VMs -> VmStates] /\ sent \in [VMs -> Packages]
      BY <1>1, <1>3 DEF Packages
    <2>2. /\ node \in [phase : {"off", "serving", "received", "gaveUp"},
                       agent : Packages, polls : Nat]
          /\ wire \in [client : {"closed", "waiting", "accepted", "rejected", "failed"},
                       server : {"closed", "reading", "accepting", "rejecting"},
                       package : Packages]
      BY <1>1 DEF NoNode, NoWire, Packages
    <2>3. QED
      BY <1>1, <1>2, <2>1, <2>2 DEF TypeOK, Packages
  <1>5. Called /\ Ended
    BY <1>1, <1>3 DEF Called, Ended
  <1>6. Fresh /\ Prepared /\ Moved
    BY <1>2 DEF Fresh, Prepared, Ordered, Moved
  <1>7. \A v \in VMs : Carried(v)
    <2>1. \A v \in VMs : vms[v].agent = None /\ Len(vms[v].inbox) = 0
      BY <1>1, <1>3
    <2> SUFFICES ASSUME NEW v \in VMs PROVE Carried(v)
      OBVIOUS
    <2>2. \A i \in 1 .. Len(vms[v].inbox) : FALSE
      BY <2>1
    <2>3. QED
      BY <2>1, <2>2 DEF Carried
  <1>8. Restarted /\ Shipped
    BY <1>1, <1>2 DEF Restarted, Shipped, NoNode, NoWire
  <1>9. QED
    BY <1>4, <1>5, <1>6, <1>7, <1>8 DEF Inv

\* Every step preserves the invariant.
LEMMA NextInv == Inv /\ [Next]_vars => Inv'
  <1> SUFFICES ASSUME Inv, [Next]_vars PROVE Inv'
    OBVIOUS
  <1>1. ASSUME NEW j \in DOMAIN Programs, StartJob(j) PROVE Inv'
    BY <1>1, StartKeeps
  <1>2. CASE HostStep
    BY <1>2, SpawnStep, CallsStep, RetryStep, HandleKeeps, LocalKeeps, FailsKeeps,
       FinishesKeeps, SendsKeeps DEF HostStep
  <1>3. CASE World /\ UNCHANGED <<carriers, program>>
    BY <1>3, WorldStep
  <1>4. CASE NodeStep
    BY <1>4, NodeDeploysKeeps, NodeAnswersKeeps, NodeLooksKeeps DEF NodeStep
  <1>5. CASE WireBreaks
    BY <1>5, WireBreaksKeeps
  <1>6. CASE UNCHANGED vars
    <2>1. UNCHANGED <<vms, call, pkg, snap, deaths, sent, program, file, process,
                      node, wire, hosted>>
      BY <1>6 DEF vars, microVm, carriers
    <2>2. UNCHANGED <<job, todo, code, jobs>>
      BY <2>1 DEF program
    <2>3. Shipped'
      BY <2>1, <2>2 DEF Inv, Shipped, Running, Now
    <2>4. QED
      BY <2>1, <2>3, WireKeeps DEF Inv, TypeOK
  <1>7. QED
    BY <1>1, <1>2, <1>3, <1>4, <1>5, <1>6 DEF Next

\* Whatever programs run, break off or lose their VMs, the inductive invariant
\* holds: what a VM, a package, a file or a request under way carries of the
\* agent, at each step of each program.
THEOREM MigrationInv == Spec => []Inv
  BY InitInv, NextInv, PTL DEF Spec

\* "Continued, not reset" (RFC-0006): wherever an agent runs, in whichever VM,
\* in the program's process or on a node, it goes on from the package that moved
\* it, however often its deployment was tried again.
THEOREM AgentsGoOn == Spec => []CarriesState
  <1>1. Inv => CarriesState
    BY DEF Inv, Carried, Restarted, Shipped, CarriesState
  <1>2. QED
    BY <1>1, MigrationInv, PTL

\* RFC-0005 section 3, cutover: while no VM dies of itself, a migration between
\* VMs always has a VM that runs the agent, and it drains the source only when
\* the target has the state captured there.
THEOREM CutoverKeepsTheAgent == Spec => []CutoverIsSafe
  <1>1. Inv => CutoverIsSafe
    <2> SUFFICES ASSUME Inv, Running, job = "fcMigrate", deaths = 0
                 PROVE  LET left    == Len(todo)
                            drained == left = 1 /\ call = None
                        IN  /\ left \in 2 .. 6 \/ drained => \E v \in VMs : vms[v].agent # None
                            /\ drained => vms[b].agent = Thought(pkg) /\ vms[a] = NoVm
      BY DEF CutoverIsSafe
    <2>1. Progress(Len(todo)) /\ Len(todo) \in Nat
      <3>1. Progress(Len(todo))
        BY DEF Inv, Moved
      <3>2. todo \in Seq(Steps)
        BY DEF Inv, TypeOK
      <3>3. QED
        BY <3>1, <3>2
    <2>2. PICK n \in Nat : n = Len(todo)
      BY <2>1
    <2>3. a \in VMs /\ b \in VMs
      BY MigrationAssumption
    <2>4. Progress(n)
      BY <2>1, <2>2
    <2>5. n \in 2 .. 6 => n \in 3 .. 6 \/ n \in 2 .. 3
      OBVIOUS
    <2>6. n \in 2 .. 6 => \E v \in VMs : vms[v].agent # None
      BY <2>3, <2>4, <2>5 DEF Progress
    <2>7. n = 1 /\ call = None =>
            vms[b].agent # None /\ vms[a] = NoVm /\ vms[b].agent = Thought(pkg)
      BY <2>3, <2>4 DEF Progress, Inv, Carried
    <2>8. QED
      BY <2>2, <2>3, <2>6, <2>7
  <1>2. QED
    BY <1>1, MigrationInv, PTL

\* A step that starts no Firecracker and releases no handle.
LEMMA NothingStarted ==
  ASSUME NoOrphans, UNCHANGED <<job, code, held>>,
         \A v \in VMs : vms'[v].fc # "none" => vms[v].fc # "none"
  PROVE  NoOrphans'
  BY DEF NoOrphans, Running

\* Handles that are dropped take their VMs along, and no other VM.
LEMMA DroppedTogether ==
  ASSUME NoOrphans, NEW handles, vms' = Killed(handles), held' = held \ handles,
         UNCHANGED job, code' = code \/ (job # "host" => held \subseteq handles)
  PROVE  NoOrphans'
  <1>1. \A v \in VMs : IF v \in handles THEN vms'[v].fc = "none" ELSE vms'[v] = vms[v]
    BY DEF Killed, NoVm
  <1>2. ASSUME job # "host", NEW v \in VMs, vms'[v].fc # "none"
        PROVE  Running' /\ v \in held'
    <2>1. v \notin handles /\ vms[v].fc # "none"
      BY <1>1, <1>2
    <2>2. Running /\ v \in held
      BY <1>2, <2>1 DEF NoOrphans
    <2>3. QED
      BY <1>2, <2>1, <2>2 DEF Running
  <1>3. QED
    BY <1>2 DEF NoOrphans

\* Every step of the host program leaves each Firecracker with its handle.
LEMMA HostOrphansNone ==
  ASSUME TypeOK, NoOrphans, HostStep
  PROVE  NoOrphans'
  <1>1. CASE Spawns
    <2>1. /\ Running /\ Spawned(Target) /\ UNCHANGED <<job, code>>
      BY <1>1 DEF Spawns, Now, program
    <2>2. \A v \in VMs : v # Target => vms'[v] = vms[v]
      BY <2>1 DEF Spawned, TypeOK
    <2>3. QED
      BY <2>1, <2>2 DEF Spawned, NoOrphans, Running
  <1>2. CASE Calls
    <2>1. PICK op : CallBegins(Target, op)
      BY <1>2 DEF Calls
    <2>2. UNCHANGED <<job, code, held>>
      BY <1>2, <2>1 DEF Calls, CallBegins, program
    <2>3. \A v \in VMs : vms'[v].fc = vms[v].fc
      BY <2>1 DEF CallBegins, TypeOK, VmStates
    <2>4. QED
      BY <2>2, <2>3, NothingStarted
  <1>3. CASE Retries
    BY <1>3, NothingStarted DEF Retries, DeployRetries, program
  <1>4. CASE HandleStep
    <2>1. Running /\ UNCHANGED <<job, code>>
      BY <1>4 DEF HandleStep, Now, Continue
    <2>2. CASE Launched(Target) \/ Restored(Target)
      <3>1. /\ Target \in held /\ UNCHANGED held
            /\ \A v \in VMs : v # Target => vms'[v] = vms[v]
        BY <2>2 DEF Launched, Restored, TypeOK
      <3>2. QED
        BY <2>1, <3>1 DEF NoOrphans, Running
    <2>3. CASE Snapshotted(Target)
      <3>1. UNCHANGED held /\ \A v \in VMs : vms'[v].fc # "none" => vms[v].fc # "none"
        BY <2>3 DEF Snapshotted, TypeOK, VmStates
      <3>2. QED
        BY <2>1, <3>1, NothingStarted
    <2>4. CASE Dropped(Target)
      BY <2>1, <2>4, DroppedTogether DEF Dropped
    <2>5. CASE ShutdownReturns
      BY <2>1, <2>5, DroppedTogether DEF ShutdownReturns
    <2>6. CASE DeploySucceeds \/ CheckpointSucceeds \/ (\E op : Printed(op))
      BY <2>1, <2>6, NothingStarted DEF DeploySucceeds, CheckpointSucceeds, Printed
    <2>7. QED
      BY <1>4, <2>2, <2>3, <2>4, <2>5, <2>6 DEF HandleStep
  <1>5. CASE LocalStep
    <2>1. UNCHANGED <<vms, held, job, code>>
      BY <1>5 DEF LocalStep, Continue, Holds, Reads, Writes, microVm
    <2>2. QED
      BY <2>1, NothingStarted
  <1>6. CASE Fails \/ Finishes
    <2>1. PICK c : Exit(c)
      BY <1>6 DEF Fails, Finishes
    <2>2. vms' = Killed(held) /\ held' = held \ held /\ UNCHANGED job
      BY <2>1 DEF Exit
    <2>3. QED
      BY <2>2, DroppedTogether
  <1>7. CASE Sends
    BY <1>7, NothingStarted DEF Sends, microVm, program
  <1>8. QED
    BY <1>1, <1>2, <1>3, <1>4, <1>5, <1>6, <1>7 DEF HostStep

\* The guests, the connections and the node start no Firecracker.
LEMMA WorldOrphansNone ==
  ASSUME TypeOK, NoOrphans, World, UNCHANGED program
  PROVE  NoOrphans'
  <1>1. UNCHANGED <<job, code, held>>
    BY Zenon DEF World, Boots, GuestServes, ConnectionBreaks, VmDies, ReplyIsLost,
       program
  <1>2. ASSUME NEW v \in VMs, Boots(v) \/ GuestServes(v) \/ ConnectionBreaks(v) \/ VmDies(v)
        PROVE  \A w \in VMs : vms'[w].fc # "none" => vms[w].fc # "none"
    <2>1. vms \in [VMs -> VmStates] /\ vms[v] \in VmStates
      BY DEF TypeOK
    <2>2. CASE Boots(v) \/ GuestServes(v)
      <3>1. vms[v].fc # "none" /\ \A w \in VMs : w # v => vms'[w] = vms[w]
        BY <2>1, <2>2 DEF Boots, GuestServes
      <3>2. QED
        BY <3>1
    <2>3. CASE ConnectionBreaks(v)
      <3>1. \/ vms' = [vms EXCEPT ![v].inbox[Len(vms[v].inbox)].open = FALSE]
            \/ vms' = [vms EXCEPT ![v].inbox = SubSeq(@, 1, Len(vms[v].inbox) - 1)]
        BY <2>3 DEF ConnectionBreaks
      <3>2. PICK q : vms' = [vms EXCEPT ![v].inbox = q]
        BY <3>1
      <3>3. \A w \in VMs : vms'[w].fc = vms[w].fc
        BY <2>1, <3>2 DEF VmStates
      <3>4. QED
        BY <3>3
    <2>4. CASE VmDies(v)
      BY <2>1, <2>4 DEF VmDies
    <2>5. QED
      BY <1>2, <2>2, <2>3, <2>4
  <1>3. ReplyIsLost => UNCHANGED vms
    BY DEF ReplyIsLost
  <1>4. QED
    BY <1>1, <1>2, <1>3, NothingStarted DEF World

\* No Firecracker is ever left without a handle that kills it, and so none
\* outlives the program that spawned it, whichever step of a launch, of a restore
\* or of the program failed and whatever had become of its calls by then.
THEOREM NoVmIsOrphaned == Spec => []NoOrphans
  <1>1. Init => NoOrphans
    BY DEF Init, MicroVmInit, NoVm, NoOrphans
  <1>2. ASSUME TypeOK, NoOrphans, [Next]_vars PROVE NoOrphans'
    <2>1. ASSUME NEW j \in DOMAIN Programs, StartJob(j) PROVE NoOrphans'
      BY <2>1 DEF StartJob, NoOrphans, NoVm
    <2>2. CASE HostStep
      BY <1>2, <2>2, HostOrphansNone
    <2>3. CASE World /\ UNCHANGED <<carriers, program>>
      BY <1>2, <2>3, WorldOrphansNone
    <2>4. CASE NodeStep \/ WireBreaks \/ UNCHANGED vars
      <3>1. UNCHANGED <<vms, held, job, code>>
        BY <2>4 DEF NodeStep, NodeDeploys, NodeAnswers, NodeLooks, WireBreaks, vars,
           microVm, program
      <3>2. QED
        BY <1>2, <3>1, NothingStarted
    <2>5. QED
      BY <1>2, <2>1, <2>2, <2>3, <2>4 DEF Next
  <1>3. Inv => TypeOK
    BY DEF Inv
  <1>4. QED
    BY <1>1, <1>2, <1>3, MigrationInv, PTL DEF Spec

\* A client that is told that its package was accepted is told the truth: the
\* node has put the very state that was sent in a host of its own.
THEOREM AcceptedMeansHosted == Spec => []AcceptedWasHosted
  <1>1. Inv => AcceptedWasHosted
    BY DEF Inv, Shipped, AcceptedWasHosted
  <1>2. QED
    BY <1>1, MigrationInv, PTL

=============================================================================
