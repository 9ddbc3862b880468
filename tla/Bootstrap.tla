------------------------------- MODULE Bootstrap -------------------------------
(***************************************************************************)
(* The bootstrap of a cluster: the orchestrate runner on the salt master   *)
(* walks the steps of Prog (kubernetes.sls in Orchestrations.tla) while    *)
(* every minion also applies its highstate on its own, at start-up and on  *)
(* a schedule, and publishes its mine data in the background.              *)
(*                                                                         *)
(* What a step of salt itself does (targeting, requisites, the refusal of  *)
(* a second state run on a busy minion, batches, what counts as failure)   *)
(* is the behaviour of the Salt 3003 the repository pins; what the state   *)
(* runs do to a node is taken from the formulas and roles.                 *)
(***************************************************************************)
EXTENDS Naturals, Sequences, FiniteSets

CONSTANTS
  Node,       \* the minions
  Roles,      \* the grain `roles' of every minion
  Prog,       \* the orchestration: a sequence of steps (see Orchestrations)
  Prompt,     \* a refreshed pillar is in place before the next step comes up
  MaxRuns,    \* bound: how often the operator starts the orchestration
  MaxKills,   \* bound: how often the runner dies before its last step
  MaxDowns    \* bound: how often a host goes down

Steps  == 1..Len(Prog)
Ids    == {Prog[s].id : s \in Steps}

\* The ids that step s or a later one requires.
Pending(s) == UNION {Prog[t].require : t \in s..Len(Prog)}

\* The pieces of a state run, in the order a run executes them.
Chunk  == {"pki", "sakey", "cert", "unit", "etcd", "services", "listen", "minion",
           "wait", "other"}
Secret == {"ca", "sa"}

With(role) == {n \in Node : role \in Roles[n]}
Etcd       == With("etcd")
Master     == With("kube-master")
Worker     == With("kube-minion")

ASSUME NodeAssumption == IsFiniteSet(Node) /\ Roles \in [Node -> SUBSET STRING]

\* ca-cert.sls and the certs macro take the first minion of roles:ca: the
\* deployment has one.
ASSUME OneCA == \E c \in Node : With("ca") = {c}
CA == CHOOSE c \in Node : With("ca") = {c}

StepRecord ==
  [id : STRING, kind : {"function", "state", "runner"}, fun : STRING,
   by : {"all", "roles", "flag"}, roles : SUBSET STRING, batch : Nat,
   require : SUBSET STRING]

ASSUME ProgAssumption ==
  /\ Prog \in Seq(StepRecord)
  /\ \A s \in Steps : Prog[s].require \subseteq {Prog[t].id : t \in 1..(s-1)}

ASSUME PromptAssumption == Prompt \in BOOLEAN

ASSUME BoundAssumption ==
  MaxRuns \in Nat /\ MaxKills \in Nat /\ MaxDowns \in Nat

VARIABLES
  \* the orchestrate runner
  step,       \* the step being run, 0 when no orchestration is running
  passed,     \* the steps of the run that succeeded and may still be required
  failed,     \* some step of the run, or of the last one, did not succeed
  job,        \* what the current state step knows of each minion
  \* the minions
  minion,     \* "up", "reload" (a restart is pending), "starting" or "down"
  task,       \* the chunks left of the state run in progress, <<>> when idle
  clean,      \* the minions whose part in the step has had no failure so far
  pillar,     \* the minions whose in-memory pillar is current
  asked,      \* those that were asked to refresh it and have not done so yet
  conf,       \* the minions whose configuration salt.minion has written
  policy,     \* those whose signing policies cert/require.sls has written
  flag,       \* the grain bootstrap_in_progress
  complete,   \* the grain bootstrap_complete
  \* what the state runs leave on the nodes
  pki,        \* the secrets on the CA node
  cert,       \* the nodes with a certificate signed by the CA
  unit,       \* --initial-cluster in etcd.service, {} when there is no unit
  wal,        \* the initial cluster etcd has bootstrapped with, {} before
  installed,  \* the nodes whose Kubernetes services have been brought up
  \* the master's mine cache
  mine,
  runs, kills, downs

engine  == <<step, passed, failed, runs, kills>>
grains  == <<flag, complete>>
disk    == <<policy, pki, cert, unit, wal, installed>>
process == <<minion, pillar, asked, conf>>
vars == <<step, passed, failed, job, minion, task, clean, pillar, asked, conf, flag,
          complete, policy, pki, cert, unit, wal, installed, mine, runs, kills, downs>>

TypeOK ==
  /\ step \in 0..Len(Prog)
  /\ passed \subseteq Ids /\ failed \in BOOLEAN
  /\ job \in [Node -> {"none", "wait", "run", "ok", "fail"}]
  /\ minion \in [Node -> {"up", "reload", "starting", "down"}]
  /\ task \in [Node -> Seq(Chunk)]
  /\ clean \subseteq Node /\ pillar \subseteq Node /\ asked \subseteq Node
  /\ conf \subseteq Node /\ policy \subseteq Node
  /\ flag \subseteq Node /\ complete \subseteq Node
  /\ pki \subseteq Secret /\ cert \subseteq Node /\ installed \subseteq Node
  /\ unit \in [Node -> SUBSET Etcd] /\ wal \in [Node -> SUBSET Etcd]
  /\ mine \in [addr : SUBSET Node, pki : SUBSET Secret]
  /\ runs \in 0..MaxRuns /\ kills \in 0..MaxKills /\ downs \in 0..MaxDowns

\* Minions that were booted before their pillar was in place start with a
\* stale one; those of the Vagrantfile start with a current one.
Init ==
  /\ step = 0
  /\ passed = {} /\ failed = FALSE
  /\ job = [n \in Node |-> "none"]
  /\ minion = [n \in Node |-> "up"]
  /\ task = [n \in Node |-> <<>>]
  /\ clean = {}
  /\ pillar \in {{}, Node} /\ asked = {}
  /\ conf = {} /\ policy = {}
  /\ flag = {} /\ complete = {}
  /\ pki = {} /\ cert = {} /\ installed = {}
  /\ unit = [n \in Node |-> {}] /\ wal = [n \in Node |-> {}]
  /\ mine = [addr |-> {}, pki |-> {}]
  /\ runs = 0 /\ kills = 0 /\ downs = 0

-------------------------------------------------------------------------------
(* Nodes and services *)

Answers(n) == minion[n] \in {"up", "reload"}
HostUp(n)  == minion[n] # "down"
Idle(n)    == task[n] = <<>>

\* The salt master and the runner live on the host with the role salt.  While it
\* is down no minion can be reached, start, render a state run or publish.
MasterUp == \A n \in With("salt") : HostUp(n)

\* A member of etcd serves when a majority of the cluster it bootstrapped with
\* bootstrapped with that same cluster: any other peer is refused.
Serving(n) ==
  LET peers == {m \in wal[n] : HostUp(m) /\ wal[m] = wal[n]}
  IN  /\ HostUp(n)
      /\ wal[n] # {}
      /\ 2 * Cardinality(peers) > Cardinality(wal[n])

EtcdAvailable == \E n \in Etcd : Serving(n)

ApiAvailable == EtcdAvailable /\ \E m \in Master : HostUp(m) /\ m \in installed

\* The minions a step is sent to.
Target(s) ==
  CASE Prog[s].by = "all"   -> Node
    [] Prog[s].by = "flag"  -> flag
    [] Prog[s].by = "roles" -> {n \in Node : Roles[n] \cap Prog[s].roles # {}}

\* Mutant of Renders: what cannot be looked up is rendered as nothing.
RendersAnyway(n, sls) == sls = "highstate" => mine.pki \subseteq Secret

\* The secrets of the CA that a node's highstate looks up in the mine.  Jinja
\* is strict about undefined values: a lookup that fails, fails the rendering
\* and with it the whole run.
Needs(n) ==
  (IF Roles[n] \cap {"etcd", "kube-master", "kube-minion"} # {} THEN {"ca"} ELSE {})
    \cup (IF n \in Master THEN {"sa"} ELSE {})

Renders(n, sls) == sls = "highstate" => Needs(n) \subseteq mine.pki

\* cert/require.sls, which every use of a certificate includes: the listener of
\* the signing policies acts at the end of the run that has written them.
Listen(n) == IF n \in policy THEN <<>> ELSE <<"listen">>

\* The CA's minion signs with the policies it has read when it started.
CAReady ==
  /\ Answers(CA) /\ "ca" \in pki /\ CA \in policy
  /\ ~(~Idle(CA) /\ task[CA][Len(task[CA])] = "listen")

\* top.sls: what the highstate of a node with these roles consists of.
Highstate(n) ==
  (IF n = CA THEN <<"pki">> ELSE <<>>)
    \o (IF Needs(n) # {} THEN <<"cert">> ELSE <<>>)
    \o (IF n \in Etcd THEN <<"unit", "etcd">> ELSE <<>>)
    \o <<"services">>
    \o (IF n = CA \/ Needs(n) # {} THEN Listen(n) ELSE <<>>)

Chunks(n, sls) ==
  CASE sls = "highstate"       -> Highstate(n)
    [] sls = "caserver.initca" -> <<"pki">> \o Listen(n)
    [] sls = "caserver.generate-serviceaccount-key" -> <<"sakey">> \o Listen(n)
    [] sls = "etcd"            -> <<"unit", "etcd">>
    [] sls = "salt.minion"     -> <<"minion">>
    [] sls = "coredns.deployment-wait" -> <<"wait">>
    [] OTHER                   -> <<"other">>

\* mine.update run by the minions N: their addresses, and the CA's secrets.
Mined(N) ==
  LET M == N \cap pillar
  IN  [addr |-> mine.addr \cup M,
       pki  |-> IF CA \in M THEN mine.pki \cup pki ELSE mine.pki]

-------------------------------------------------------------------------------
(* The orchestrate runner *)

NoJobs == [n \in Node |-> "none"]

\* Mutant of Conclude: the runner does not stop after the last step.
ConcludeWithoutEnd(ok) ==
  /\ passed' = (IF ok THEN passed \cup {Prog[step].id} ELSE passed) \cap Pending(step + 1)
  /\ failed' = (failed \/ ~ok)
  /\ step' = step + 1

\* The step ends, well or not, and the next one comes up.
Conclude(ok) ==
  /\ passed' = (IF ok THEN passed \cup {Prog[step].id} ELSE passed) \cap Pending(step + 1)
  /\ failed' = (failed \/ ~ok)
  /\ step' = IF step = Len(Prog) THEN 0 ELSE step + 1

Runnable(s) == Prog[s].require \subseteq passed

\* The operator starts the orchestration, for the first time or again.
Start ==
  /\ step = 0 /\ MasterUp
  /\ runs < MaxRuns /\ Prog # <<>>
  /\ step' = 1
  /\ runs' = runs + 1
  /\ passed' = {} /\ failed' = FALSE
  /\ UNCHANGED <<job, task, clean, process, grains, disk, mine, kills, downs>>

\* A step one of whose requisites did not succeed is failed without being run.
Skip ==
  /\ step # 0 /\ ~Runnable(step)
  /\ Conclude(FALSE)
  /\ UNCHANGED <<job, task, clean, process, grains, disk, mine, runs, kills, downs>>

\* salt.function: minions that do not answer are left out (expect_minions is
\* off) and the step fails only when nobody answers.  salt.runner runs on the
\* master.  saltutil.refresh_pillar returns when it has told the minion to compile
\* its pillar; whether that is over before the next step is a matter of timing.
CallFunction ==
  /\ step # 0 /\ Runnable(step)
  /\ Prog[step].kind \in {"function", "runner"}
  /\ LET fun == Prog[step].fun
         T   == {n \in Target(step) : Answers(n)}
     IN  /\ Conclude(Prog[step].kind = "runner" \/ T # {})
         /\ pillar' = IF fun = "refresh_pillar" /\ Prompt THEN pillar \cup T ELSE pillar
         /\ asked' = IF fun = "refresh_pillar" /\ ~Prompt THEN asked \cup (T \ pillar)
                                                         ELSE asked
         /\ mine' = IF fun = "mine.update" THEN Mined(T) ELSE mine
         /\ complete' = IF fun = "setComplete" THEN complete \cup T ELSE complete
         /\ flag' = CASE fun = "setInProgress" -> flag \cup T
                      [] fun = "delInProgress" -> flag \ T
                      [] OTHER -> flag
  /\ UNCHANGED <<job, minion, task, clean, conf, disk, runs, kills, downs>>

\* salt.state: the run is published to the targets.  With a batch, the minions
\* that do not answer the ping that precedes it are left out; without one they
\* count as failed.
Dispatch ==
  /\ step # 0 /\ Runnable(step) /\ Prog[step].kind = "state"
  /\ job = NoJobs
  /\ \E n \in Target(step) : Answers(n)
  /\ job' = [n \in Node |->
               CASE n \notin Target(step) -> "none"
                 [] n \in Target(step) /\ Answers(n) -> "wait"
                 [] OTHER -> IF Prog[step].batch > 0 THEN "none" ELSE "fail"]
  /\ UNCHANGED <<engine, task, clean, process, grains, disk, mine, downs>>

\* salt.state with no minion to send it to: "No minions returned".
DispatchNobody ==
  /\ step # 0 /\ Runnable(step) /\ Prog[step].kind = "state"
  /\ job = NoJobs
  /\ \A n \in Target(step) : ~Answers(n)
  /\ Conclude(FALSE)
  /\ UNCHANGED <<job, task, clean, process, grains, disk, mine, runs, kills, downs>>

\* A minion receives the run it was sent.  One that is gone never returns, one
\* that is busy with another state run refuses (the steps do not queue), and
\* one that cannot render the run returns the errors.
StartJob(n) ==
  /\ job[n] = "wait"
  /\ LET b   == Prog[step].batch
         sls == Prog[step].fun
         go  == Answers(n) /\ Idle(n) /\ Renders(n, sls)
     IN  /\ b > 0 => Cardinality({m \in Node : job[m] = "run"}) < b
         /\ job'   = [job EXCEPT ![n] = IF go THEN "run" ELSE "fail"]
         /\ task'  = IF go THEN [task EXCEPT ![n] = Chunks(n, sls)] ELSE task
         /\ clean' = IF go THEN clean \cup {n} ELSE clean
  /\ UNCHANGED <<engine, process, grains, disk, mine, downs>>

\* Every minion has returned or is known not to: the step succeeds unless one
\* of them failed.
Collect ==
  /\ step # 0 /\ Prog[step].kind = "state" /\ job # NoJobs
  /\ \A n \in Node : job[n] \notin {"wait", "run"}
  /\ Conclude(\A n \in Node : job[n] # "fail")
  /\ job' = NoJobs
  /\ UNCHANGED <<task, clean, process, grains, disk, mine, runs, kills, downs>>

-------------------------------------------------------------------------------
(* State runs on the minions *)

Working(n, c) == Answers(n) /\ MasterUp /\ ~Idle(n) /\ Head(task[n]) = c

\* The chunk at the head of n's run ends, well or not.  A failed state does
\* not stop the run: it only makes its outcome a failure.
Finish(n, ok) ==
  /\ task'  = [task EXCEPT ![n] = Tail(@)]
  /\ clean' = IF ok /\ Len(task[n]) > 1 THEN clean ELSE clean \ {n}
  /\ job'   = IF job[n] = "run" /\ Len(task[n]) = 1
              THEN [job EXCEPT ![n] = IF ok /\ n \in clean THEN "ok" ELSE "fail"]
              ELSE job

\* caserver.initca (which includes generate-serviceaccount-key).
CreatePki(n) ==
  /\ Working(n, "pki")
  /\ pki' = {"ca", "sa"}
  /\ policy' = policy \cup {n}
  /\ Finish(n, TRUE)
  /\ UNCHANGED <<engine, process, grains, cert, unit, wal, installed, mine, downs>>

CreateSaKey(n) ==
  /\ Working(n, "sakey")
  /\ pki' = pki \cup {"sa"}
  /\ policy' = policy \cup {n}
  /\ Finish(n, TRUE)
  /\ UNCHANGED <<engine, process, grains, cert, unit, wal, installed, mine, downs>>

\* The certs macro: the CA minion signs on request.  Several attempts are made;
\* when the CA cannot sign they fail, or find the certificate still good.
SignCert(n) ==
  /\ Working(n, "cert")
  /\ policy' = policy \cup {n}
  /\ \/ /\ CAReady
        /\ cert' = cert \cup {n}
        /\ Finish(n, TRUE)
     \/ /\ ~CAReady
        /\ \E ok \in BOOLEAN : (ok => n \in cert) /\ Finish(n, ok)
        /\ UNCHANGED cert
  /\ UNCHANGED <<engine, process, grains, pki, unit, wal, installed, mine, downs>>

\* etcd.service is rendered while the run executes, from the addresses the
\* master has cached at that time.
WriteUnit(n) ==
  /\ Working(n, "unit")
  /\ unit' = [unit EXCEPT ![n] = mine.addr \cap Etcd]
  /\ Finish(n, TRUE)
  /\ UNCHANGED <<engine, process, grains, policy, pki, cert, wal, installed, mine, downs>>

\* etcd_running: the unit is Type=notify, so the start waits for a quorum until
\* systemd gives up.
StartEtcd(n) ==
  /\ Working(n, "etcd")
  /\ Finish(n, Serving(n))
  /\ UNCHANGED <<engine, process, grains, disk, mine, downs>>

\* The services of the node's Kubernetes roles.  A master waits for its own API
\* server, which needs etcd.  The services have certificates of their own, and ask
\* the CA for them again: when it cannot sign, that fails or finds them still good.
StartServices(n) ==
  /\ Working(n, "services")
  /\ LET able == /\ Needs(n) # {} => n \in cert
                 /\ n \in Master => EtcdAvailable
     IN  \E ok \in BOOLEAN :
           /\ ok => able
           /\ able /\ (Needs(n) = {} \/ CAReady) => ok
           /\ installed' = IF ok THEN installed \cup {n} ELSE installed
           /\ Finish(n, ok)
  /\ UNCHANGED <<engine, process, grains, policy, pki, cert, unit, wal, mine, downs>>

\* The listener of cert/require.sls restarts the minion that is applying it.  The
\* result of the run may or may not get out before the process is gone: here it
\* does, in RestartMinion it is lost.
Listening(n) == Answers(n) /\ ~Idle(n) /\ Head(task[n]) = "listen"

ActOnListen(n) ==
  /\ Listening(n)
  /\ minion' = IF n \in policy THEN [minion EXCEPT ![n] = "starting"] ELSE minion
  /\ Finish(n, TRUE)
  /\ UNCHANGED <<engine, pillar, asked, conf, grains, disk, mine, downs>>

\* salt.minion: the first time, the configuration changes and a restart of the
\* minion is left running in the background.
ConfigureMinion(n) ==
  /\ Working(n, "minion")
  /\ conf' = conf \cup {n}
  /\ minion' = IF n \in conf THEN minion ELSE [minion EXCEPT ![n] = "reload"]
  /\ Finish(n, TRUE)
  /\ UNCHANGED <<engine, pillar, asked, grains, disk, mine, downs>>

\* Mutant of WaitForCoredns: it has no last attempt.
WaitForever(n) ==
  /\ Working(n, "wait")
  /\ ApiAvailable /\ \E w \in Worker : HostUp(w) /\ w \in installed
  /\ Finish(n, TRUE)
  /\ UNCHANGED <<engine, process, grains, disk, mine, downs>>

\* wait-for-coredns-deployment polls the API a bounded number of times, and fails
\* after the last one; the replicas become available once a worker runs them.
WaitForCoredns(n) ==
  /\ Working(n, "wait")
  /\ Finish(n, ApiAvailable /\ \E w \in Worker : HostUp(w) /\ w \in installed)
  /\ UNCHANGED <<engine, process, grains, disk, mine, downs>>

\* salt.master and kube-cni: nothing the bootstrap depends on.
RunOther(n) ==
  /\ Working(n, "other")
  /\ Finish(n, TRUE)
  /\ UNCHANGED <<engine, process, grains, disk, mine, downs>>

\* Without the master no file and no template can be fetched: what is left of
\* the run fails state by state.
RunWithoutMaster(n) ==
  /\ Answers(n) /\ ~MasterUp /\ ~Idle(n) /\ ~Listening(n)
  /\ Finish(n, FALSE)
  /\ UNCHANGED <<engine, process, grains, disk, mine, downs>>

RunTask(n) ==
  \/ CreatePki(n) \/ CreateSaKey(n) \/ SignCert(n) \/ WriteUnit(n) \/ StartEtcd(n)
  \/ StartServices(n) \/ ActOnListen(n) \/ ConfigureMinion(n) \/ WaitForCoredns(n)
  \/ RunOther(n) \/ RunWithoutMaster(n)

-------------------------------------------------------------------------------
(* What the minions do on their own *)

\* The state run in progress on n is lost, and its result with it.
Abort(n) ==
  /\ task' = [task EXCEPT ![n] = <<>>]
  /\ clean' = clean \ {n}
  /\ job'  = IF job[n] = "run" THEN [job EXCEPT ![n] = "fail"] ELSE job

\* A highstate of the minion's own, which refuses to start on a busy minion and
\* ends at once when it cannot be rendered.
OwnHighstate(n) ==
  IF Idle(n) /\ Renders(n, "highstate")
  THEN task' = [task EXCEPT ![n] = Highstate(n)]
  ELSE UNCHANGED task

\* Mutant of ScheduledHighstate: it starts on a busy minion.
ScheduledOnBusy(n) ==
  /\ Answers(n) /\ MasterUp /\ n \in pillar
  /\ Renders(n, "highstate")
  /\ task' = [task EXCEPT ![n] = Highstate(n)]
  /\ UNCHANGED <<engine, job, clean, process, grains, disk, mine, downs>>

\* The schedule of the pillar: every ten minutes.
ScheduledHighstate(n) ==
  /\ Answers(n) /\ MasterUp /\ n \in pillar
  /\ Idle(n) /\ Renders(n, "highstate")
  /\ OwnHighstate(n)
  /\ UNCHANGED <<engine, job, clean, process, grains, disk, mine, downs>>

\* mine_interval, and the reactor's update-mine.sls after a minion starts.
MinePush(n) ==
  /\ Answers(n) /\ MasterUp
  /\ mine' = Mined({n})
  /\ mine' # mine
  /\ UNCHANGED <<engine, job, task, clean, process, grains, disk, downs>>

\* A minion that was told to refresh its pillar gets to it, and keeps the old one
\* when the master is gone by then.
RefreshPillar(n) ==
  /\ n \in asked /\ Answers(n)
  /\ asked' = asked \ {n}
  /\ pillar' = IF MasterUp THEN pillar \cup {n} ELSE pillar
  /\ UNCHANGED <<engine, job, minion, task, clean, conf, grains, disk, mine, downs>>

\* The restart that salt.minion left in the background happens, or the one the
\* listener of cert/require.sls asks for, and the run in progress is lost.
RestartMinion(n) ==
  /\ minion[n] = "reload" \/ (Listening(n) /\ n \in policy)
  /\ minion' = [minion EXCEPT ![n] = "starting"]
  /\ Abort(n)
  /\ asked' = asked \ {n}
  /\ UNCHANGED <<engine, pillar, conf, grains, disk, mine, downs>>

\* Mutant of StartMinion: the minion keeps the pillar it had.
StartWithOldPillar(n) ==
  /\ minion[n] \in {"starting", "down"}
  /\ MasterUp \/ "salt" \in Roles[n]
  /\ minion' = [minion EXCEPT ![n] = "up"]
  /\ pillar' = pillar /\ UNCHANGED asked
  /\ OwnHighstate(n)
  /\ UNCHANGED <<engine, job, clean, conf, grains, disk, mine, downs>>

\* startup_states: a minion that starts compiles its pillar and applies its
\* highstate.
StartMinion(n) ==
  /\ minion[n] \in {"starting", "down"}
  /\ MasterUp \/ "salt" \in Roles[n]
  /\ minion' = [minion EXCEPT ![n] = "up"]
  /\ pillar' = pillar \cup {n} /\ asked' = asked \ {n}
  /\ OwnHighstate(n)
  /\ UNCHANGED <<engine, job, clean, conf, grains, disk, mine, downs>>

\* systemd keeps starting the unit (Restart=on-failure).  The first start that
\* finds a certificate and its own name in the list fixes the membership.
BootEtcd(n) ==
  /\ HostUp(n) /\ n \in cert
  /\ wal[n] = {} /\ n \in unit[n]
  /\ wal' = [wal EXCEPT ![n] = unit[n]]
  /\ UNCHANGED <<engine, job, task, clean, process, grains, policy, pki, cert, unit,
                 installed, mine, downs>>

\* The run is over before its last step; nobody waits for its state runs now.
Interrupt ==
  /\ step' = 0
  /\ passed' = {} /\ failed' = TRUE
  /\ job' = NoJobs
  /\ clean' = {}

\* The runner is killed.  The state runs it has published go on.
Kill ==
  /\ step # 0 /\ kills < MaxKills
  /\ kills' = kills + 1
  /\ Interrupt
  /\ UNCHANGED <<task, process, grains, disk, mine, runs, downs>>

HostDown(n) ==
  /\ downs < MaxDowns /\ HostUp(n)
  /\ downs' = downs + 1
  /\ minion' = [minion EXCEPT ![n] = "down"]
  /\ asked' = asked \ {n}
  /\ IF "salt" \in Roles[n] /\ step # 0
     THEN Interrupt /\ task' = [task EXCEPT ![n] = <<>>]
     ELSE Abort(n) /\ UNCHANGED <<step, passed, failed>>
  /\ UNCHANGED <<pillar, conf, grains, disk, mine, runs, kills>>

Runner == Skip \/ CallFunction \/ Dispatch \/ DispatchNobody \/ Collect

Next ==
  \/ Start \/ Runner \/ Kill
  \/ \E n \in Node : \/ StartJob(n) \/ RunTask(n) \/ ScheduledHighstate(n)
                     \/ MinePush(n) \/ RefreshPillar(n) \/ RestartMinion(n) \/ StartMinion(n)
                     \/ BootEtcd(n) \/ HostDown(n)

Spec == Init /\ [][Next]_vars

\* The runner and the minions make progress; a host that went down comes back;
\* the schedule and the mine timer keep firing.  Nothing makes the operator
\* start a run, the runner die or a host go down.
Fairness ==
  /\ WF_vars(Runner)
  /\ \A n \in Node :
       /\ WF_vars(StartJob(n)) /\ WF_vars(RunTask(n))
       /\ WF_vars(ScheduledHighstate(n)) /\ WF_vars(MinePush(n))
       /\ WF_vars(RefreshPillar(n)) /\ WF_vars(RestartMinion(n)) /\ WF_vars(StartMinion(n))
       /\ WF_vars(BootEtcd(n))

FairSpec == Spec /\ Fairness

-------------------------------------------------------------------------------
(* What the bootstrap promises *)

\* The minions are at work for the step called id.
Active(id) == step # 0 /\ Prog[step].id = id /\ job # NoJobs

\* A majority of some initial cluster has bootstrapped with it.
Formed ==
  \E n \in Etcd :
    /\ wal[n] # {}
    /\ 2 * Cardinality({m \in wal[n] : wal[m] = wal[n]}) > Cardinality(wal[n])

\* The orchestration applies the highstate of a worker (kube-minion-setup,
\* running-all-state-apply) only once the CA and the service account key exist,
\* etcd has formed a cluster and an API server has come up: what the chain of
\* requires from ca-setup to kube-master-setup is for.
WorkersLast ==
  Active("kube-minion-setup") \/ Active("running-all-state-apply") =>
    /\ pki = Secret
    /\ Formed
    /\ Master \cap installed # {}

\* In a bootstrap during which no host fails and every minion has its pillar by the
\* time update-mine asks for its address, every etcd member bootstraps with the
\* same initial cluster, however the minions' restarts and highstates interleave
\* with the runner: update-mine has collected every address before ca-setup makes
\* a certificate possible.  A CA host that is nothing else could create the CA in
\* a highstate of its own, before that.
OneEtcdCluster ==
  Prompt /\ downs = 0 /\ Needs(CA) # {} =>
    \A m, n \in Etcd : wal[m] # {} /\ wal[n] # {} => wal[m] = wal[n]

\* In a bootstrap during which no host fails, the secrets are in the mine when a
\* highstate is sent out, although the CA's minion may be restarting while one
\* of the two mine updates that follow ca-setup runs, and may not have refreshed
\* its pillar by then.
SecretsPublished ==
  downs = 0 /\ job # NoJobs /\ Prog[step].fun = "highstate" => mine.pki = Secret

\* A run all of whose steps succeeded has brought up every node, those that were
\* down for part of it included.
SuccessMeansInstalled ==
  runs > 0 /\ step = 0 /\ ~failed => installed = Node

\* However the run went, when it ends no minion that answers is still marked as
\* being bootstrapped: "we must remove this flag even if the orchestration
\* fails" (kubernetes.sls:207).
FlagCleared ==
  [][step = Len(Prog) /\ step' = 0 /\ kills' = kills /\ MasterUp' =>
       \A n \in flag' : ~Answers(n)]_vars

\* While a step waits for its minions, what is known of one of them only ever comes
\* nearer to a result, which stays and belongs to this step; nothing a minion does on
\* its own takes the place of the run that the step is waiting for.
JobsSettle ==
  [][job # NoJobs /\ job' # NoJobs =>
       /\ step' = step
       /\ \A n \in Node :
            /\ job[n] \notin {"wait", "run"} => job'[n] = job[n]
            /\ job'[n] = "wait" => job[n] = "wait"
            /\ job[n] = "run" /\ job'[n] = "run" =>
                 task'[n] = task[n] \/ (~Idle(n) /\ task'[n] = Tail(task[n]))]_vars

\* The runner never waits for ever, whatever happens to the minions.
RunEnds == (step # 0) ~> (step = 0)

\* Two members have bootstrapped with different initial clusters: nothing in the
\* formulas ever repairs that.
Split == \E m, n \in Etcd : wal[m] # {} /\ wal[n] # {} /\ wal[m] # wal[n]

AllUp == installed = Node /\ \A n \in Etcd : Serving(n)

\* Once the CA has been created the cluster comes up and stays up without
\* anybody's help, even though the first orchestrated run usually fails: the
\* scheduled highstates and the mine timer finish the work.
Converges == (pki = Secret) ~> [](AllUp \/ Split)

\* Whatever crashes, restarts or runs at the same time, the nodes come up in the
\* order of their dependencies and stay up (see BringUp).
Goal == INSTANCE BringUp WITH
  Required <- [n \in Node |-> Needs(n)],
  created <- pki, published <- mine.pki, known <- mine.addr,
  trusted <- cert, cluster <- wal, ready <- installed

DependenciesKept == Goal!Spec

\* kubernetes.sls:194-195: "Set the bootstrap complete in all the nodes where we
\* really succeeded".
CompleteWhereSucceeded == complete \subseteq installed
===============================================================================
