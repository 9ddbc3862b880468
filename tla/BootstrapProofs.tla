---------------------------- MODULE BootstrapProofs ----------------------------
(***************************************************************************)
(* Theorems about Bootstrap, for every set of minions, assignment of roles *)
(* and bounds, and for every orchestration with the few features of        *)
(* kubernetes.sls that each of them needs.                                 *)
(***************************************************************************)
EXTENDS Bootstrap, Orchestrations, FiniteSetTheorems, SequenceTheorems, TLAPS

-------------------------------------------------------------------------------
(* What the theorems need of the orchestration *)

\* kubernetes.sls:208-217: the last step removes the flag, whatever came before.
EndsByClearing(P) ==
  /\ Len(P) # 0
  /\ LET last == P[Len(P)]
     IN  /\ last.kind = "function" /\ last.fun = "delInProgress"
         /\ last.by = "flag" /\ last.require = {}

\* kubernetes.sls:142-162, 186-193: the masters get their highstate in a step of
\* their own, which those that apply a worker's highstate require.
MastersFirst(P) ==
  \A s \in 1..Len(P) :
    /\ P[s].id = "kube-master-setup" =>
         /\ P[s].kind = "state" /\ P[s].fun = "highstate"
         /\ P[s].by = "roles" /\ P[s].roles = {"kube-master"}
    /\ P[s].id \in {"kube-minion-setup", "running-all-state-apply"} =>
         "kube-master-setup" \in P[s].require

\* kubernetes.sls:186-193: a highstate sent to every minion, not in batches.
Everywhere(P, s) ==
  /\ s \in 1..Len(P)
  /\ P[s].kind = "state" /\ P[s].fun = "highstate"
  /\ P[s].by = "all" /\ P[s].batch = 0

-------------------------------------------------------------------------------
(* The inductive invariant *)

\* Jobs exist only while a state step whose requisites succeeded is run.
JobsInv ==
  job # NoJobs => step # 0 /\ Runnable(step) /\ Prog[step].kind = "state"

\* The services are among the chunks of a run.
Ahead(chunks) == \E i \in 1..Len(chunks) : chunks[i] = "services"

\* A minion that runs a job has chunks left; a highstate that has not failed so
\* far has brought up the node or is still to do so.
TaskInv ==
  \A n \in Node : job[n] = "run" =>
    /\ task[n] # <<>>
    /\ Prog[step].fun = "highstate" /\ n \in clean => n \in installed \/ Ahead(task[n])

\* Only the minions of a role have jobs in a step sent to that role.
RoleInv ==
  \A n \in Node : job[n] # "none" /\ Prog[step].by = "roles" =>
    Roles[n] \cap Prog[step].roles # {}

\* Without batches every minion is accounted for.
AllInv ==
  job # NoJobs /\ Prog[step].by = "all" /\ Prog[step].batch = 0 =>
    \A n \in Node : job[n] # "none"

\* A highstate that succeeded has brought up the node.
OkInv ==
  \A n \in Node : job[n] = "ok" /\ Prog[step].fun = "highstate" => n \in installed

\* The CA comes before the certificates, they and etcd before the masters.
PkiInv ==
  /\ "ca" \in pki => pki = Secret
  /\ cert # {} => "ca" \in pki
  /\ \A n \in Master \cap installed : n \in cert /\ Formed

JobInv == JobsInv /\ TaskInv /\ RoleInv /\ AllInv /\ OkInv

PassedInv == "kube-master-setup" \in passed => Master \cap installed # {}

IInv == TypeOK /\ JobInv /\ PkiInv /\ PassedInv

\* A run that has no failure so far is complete once it is past step s.
SuccessInv(s) ==
  ~failed /\ (step > s \/ (step = 0 /\ runs > 0)) => installed = Node

-------------------------------------------------------------------------------
(* What the operators return *)

\* Every step is a record of the form the assumption states.
LEMMA StepType ==
  ASSUME NEW s \in Steps
  PROVE  Prog[s] \in StepRecord
BY ProgAssumption DEF ProgAssumption, Steps

\* The chunks ahead are those of the tail, and the one at the head.
LEMMA TailAhead ==
  ASSUME NEW S, NEW s \in Seq(S), Ahead(s), Head(s) # "services"
  PROVE  Len(s) > 1 /\ Ahead(Tail(s))
<1>1. PICK i \in 1..Len(s) : s[i] = "services"  BY DEF Ahead
<1>2. Len(s) \in Nat /\ s # <<>> /\ Head(s) = s[1]  BY <1>1
<1>3. i # 1 /\ Len(s) > 1 /\ i - 1 \in 1..(Len(s) - 1) /\ (i - 1) + 1 = i  BY <1>1, <1>2
<1>4. Len(Tail(s)) = Len(s) - 1 /\ \A k \in 1..Len(Tail(s)) : Tail(s)[k] = s[k + 1]
  BY <1>2, HeadTailProperties
<1>5. i - 1 \in 1..Len(Tail(s)) /\ Tail(s)[i - 1] = "services"
  BY <1>1, <1>3, <1>4, Zenon
<1> QED  BY <1>3, <1>5 DEF Ahead

\* A step is sent to minions.
LEMMA TargetType ==
  ASSUME TypeOK, NEW s \in Steps
  PROVE  Target(s) \subseteq Node
<1>1. Prog[s].by \in {"all", "roles", "flag"}  BY StepType DEF StepRecord
<1>2. CASE Prog[s].by = "all"  BY <1>2 DEF Target
<1>3. CASE Prog[s].by = "flag"  BY <1>3 DEF Target, TypeOK
<1>4. CASE Prog[s].by = "roles"  BY <1>4 DEF Target
<1> QED  BY <1>1, <1>2, <1>3, <1>4

\* A state run is a sequence of chunks that is not empty; the services are among
\* those of a highstate.
LEMMA ChunksType ==
  ASSUME NEW n \in Node, NEW sls
  PROVE  /\ Chunks(n, sls) \in Seq(Chunk) /\ Chunks(n, sls) # <<>>
         /\ Highstate(n) \in Seq(Chunk) /\ Highstate(n) # <<>>
         /\ Ahead(Highstate(n))
         /\ sls = "highstate" => Chunks(n, sls) = Highstate(n)
<1> DEFINE before == (IF n = CA THEN <<"pki">> ELSE <<>>)
                       \o (IF Needs(n) # {} THEN <<"cert">> ELSE <<>>)
                       \o (IF n \in Etcd THEN <<"unit", "etcd">> ELSE <<>>)
           after == IF n = CA \/ Needs(n) # {} THEN Listen(n) ELSE <<>>
<1>0. Listen(n) \in Seq(Chunk)
  <2>1. <<>> \in Seq(Chunk) /\ <<"listen">> \in Seq(Chunk)  BY DEF Chunk
  <2> QED  BY <2>1, Zenon DEF Listen
<1>1. before \in Seq(Chunk) /\ after \in Seq(Chunk)
  <2> DEFINE ca    == IF n = CA THEN <<"pki">> ELSE <<>>
             certs == IF Needs(n) # {} THEN <<"cert">> ELSE <<>>
             etcd  == IF n \in Etcd THEN <<"unit", "etcd">> ELSE <<>>
  <2>1. /\ <<>> \in Seq(Chunk) /\ <<"pki">> \in Seq(Chunk)
        /\ <<"cert">> \in Seq(Chunk) /\ <<"unit", "etcd">> \in Seq(Chunk)
    BY DEF Chunk
  <2>2. ca \in Seq(Chunk) /\ certs \in Seq(Chunk) /\ etcd \in Seq(Chunk)
    BY <2>1, Zenon
  <2>3. after \in Seq(Chunk)  BY <1>0, <2>1, Zenon
  <2> HIDE DEF ca, certs, etcd
  <2>4. ca \o certs \o etcd \in Seq(Chunk)  BY <2>2
  <2> QED  BY <2>3, <2>4 DEF ca, certs, etcd
<1>2. Highstate(n) = before \o <<"services">> \o after  BY DEF Highstate
<1> HIDE DEF before, after
<1>3. /\ Highstate(n) \in Seq(Chunk) /\ Highstate(n) # <<>>
      /\ Ahead(Highstate(n))
  <2>1. <<"services">> \in Seq(Chunk)  BY DEF Chunk
  <2>2. Highstate(n) \in Seq(Chunk)  BY <1>1, <1>2, <2>1
  <2>3. /\ Len(before) + 1 \in 1..Len(Highstate(n))
        /\ Highstate(n)[Len(before) + 1] = "services"
    BY <1>1, <1>2
  <2> QED  BY <2>2, <2>3 DEF Ahead
<1>4. Chunks(n, sls) \in Seq(Chunk) /\ Chunks(n, sls) # <<>>
  <2>1. /\ <<"pki">> \in Seq(Chunk) /\ <<"sakey">> \in Seq(Chunk)
        /\ <<"unit", "etcd">> \in Seq(Chunk) /\ <<"minion">> \in Seq(Chunk)
        /\ <<"wait">> \in Seq(Chunk) /\ <<"other">> \in Seq(Chunk)
    BY DEF Chunk
  <2>2. /\ <<"unit", "etcd">> # <<>> /\ <<"minion">> # <<>> /\ <<"wait">> # <<>>
        /\ <<"other">> # <<>>
    OBVIOUS
  <2>3. ASSUME NEW c \in {"pki", "sakey"}
        PROVE  <<c>> \o Listen(n) \in Seq(Chunk) /\ <<c>> \o Listen(n) # <<>>
    <3>1. c \in Chunk  BY DEF Chunk
    <3> QED  BY <1>0, <3>1
  <2>4. /\ <<"pki">> \o Listen(n) \in Seq(Chunk) /\ <<"pki">> \o Listen(n) # <<>>
        /\ <<"sakey">> \o Listen(n) \in Seq(Chunk) /\ <<"sakey">> \o Listen(n) # <<>>
    BY <2>3
  <2> QED  BY <1>3, <2>1, <2>2, <2>4, Zenon DEF Chunks
<1>5. sls = "highstate" => Chunks(n, sls) = Highstate(n)  BY DEF Chunks
<1> QED  BY <1>3, <1>4, <1>5

\* The runner's own state keeps its type when a step ends.
LEMMA ConcludeType ==
  ASSUME TypeOK, step # 0, NEW ok \in BOOLEAN, Conclude(ok)
  PROVE  step' \in 0..Len(Prog) /\ passed' \subseteq Ids /\ failed' \in BOOLEAN
<1>1. step \in Steps /\ Len(Prog) \in Nat
  BY ProgAssumption DEF TypeOK, Steps
<1> QED  BY <1>1 DEF TypeOK, Conclude, Ids, Steps

\* So does what is known of the minions when one of their chunks ends.
LEMMA FinishType ==
  ASSUME TypeOK, NEW n \in Node, ~Idle(n), NEW ok \in BOOLEAN, Finish(n, ok)
  PROVE  /\ task' \in [Node -> Seq(Chunk)] /\ clean' \subseteq Node
         /\ job' \in [Node -> {"none", "wait", "run", "ok", "fail"}]
<1>1. Tail(task[n]) \in Seq(Chunk)  BY DEF TypeOK, Idle
<1>2. task' \in [Node -> Seq(Chunk)]  BY <1>1 DEF TypeOK, Finish
<1> QED  BY <1>2 DEF TypeOK, Finish

LEMMA AbortType ==
  ASSUME TypeOK, NEW n \in Node, Abort(n)
  PROVE  /\ task' \in [Node -> Seq(Chunk)] /\ clean' \subseteq Node
         /\ job' \in [Node -> {"none", "wait", "run", "ok", "fail"}]
<1>1. <<>> \in Seq(Chunk)  OBVIOUS
<1> QED  BY <1>1 DEF TypeOK, Abort

LEMMA OwnHighstateType ==
  ASSUME TypeOK, NEW n \in Node, OwnHighstate(n)
  PROVE  task' \in [Node -> Seq(Chunk)]
BY ChunksType DEF TypeOK, OwnHighstate

\* The mine holds addresses of minions and secrets of the CA.
LEMMA MinedType ==
  ASSUME TypeOK, NEW N
  PROVE  Mined(N) \in [addr : SUBSET Node, pki : SUBSET Secret]
BY DEF TypeOK, Mined

-------------------------------------------------------------------------------
(* Type correctness *)

LEMMA TypeInit == Init => TypeOK
<1> SUFFICES ASSUME Init PROVE TypeOK
  OBVIOUS
<1>1. Len(Prog) \in Nat /\ 0 \in 0..Len(Prog)  BY ProgAssumption DEF ProgAssumption
<1>2. <<>> \in Seq(Chunk)  OBVIOUS
<1>3. pillar \subseteq Node /\ mine \in [addr : SUBSET Node, pki : SUBSET Secret]
  BY DEF Init
<1>4. /\ task \in [Node -> Seq(Chunk)]
      /\ job \in [Node -> {"none", "wait", "run", "ok", "fail"}]
      /\ minion \in [Node -> {"up", "reload", "starting", "down"}]
      /\ unit \in [Node -> SUBSET Etcd] /\ wal \in [Node -> SUBSET Etcd]
  BY <1>2 DEF Init
<1>5. /\ step \in 0..Len(Prog)
      /\ runs \in 0..MaxRuns /\ kills \in 0..MaxKills /\ downs \in 0..MaxDowns
  BY <1>1, BoundAssumption DEF Init, BoundAssumption
<1>6. passed \subseteq Ids /\ failed \in BOOLEAN  BY Zenon DEF Init
<1> QED  BY <1>3, <1>4, <1>5, <1>6 DEF Init, TypeOK

\* The steps of the runner.
LEMMA TypeRunner ==
  ASSUME TypeOK, Start \/ Runner \/ Kill
  PROVE  TypeOK'
<1>0. NoJobs \in [Node -> {"none", "wait", "run", "ok", "fail"}]  BY DEF NoJobs
<1>1. CASE Start
  <2>1. 1 \in 0..Len(Prog)  BY <1>1, ProgAssumption DEF ProgAssumption, Start
  <2>2. runs' \in 0..MaxRuns  BY <1>1, BoundAssumption DEF Start, TypeOK, BoundAssumption
  <2> QED  BY <1>1, <2>1, <2>2 DEF Start, TypeOK, process, grains, disk
<1>2. CASE Skip
  BY <1>2, ConcludeType DEF Skip, TypeOK, process, grains, disk
<1>3. CASE CallFunction
  <2>1. step \in Steps  BY <1>3, ProgAssumption DEF CallFunction, TypeOK, Steps
  <2> DEFINE T == {n \in Target(step) : Answers(n)}
  <2>2. T \subseteq Node  BY <2>1, TargetType
  <2>3. step' \in 0..Len(Prog) /\ passed' \subseteq Ids /\ failed' \in BOOLEAN
    BY <1>3, ConcludeType DEF CallFunction
  <2>4. Mined(T) \in [addr : SUBSET Node, pki : SUBSET Secret]  BY MinedType
  <2>5. /\ pillar' \in {pillar, pillar \cup T} /\ asked' \in {asked, asked \cup (T \ pillar)}
        /\ mine' \in {mine, Mined(T)}
        /\ complete' \in {complete, complete \cup T}
        /\ flag' \in {flag, flag \cup T, flag \ T}
    BY <1>3, Zenon DEF CallFunction
  <2> HIDE DEF T
  <2>6. /\ pillar' \subseteq Node /\ asked' \subseteq Node
        /\ complete' \subseteq Node /\ flag' \subseteq Node
        /\ mine' \in [addr : SUBSET Node, pki : SUBSET Secret]
    BY <2>2, <2>4, <2>5 DEF TypeOK
  <2> QED  BY <1>3, <2>3, <2>6 DEF CallFunction, TypeOK, disk
<1>4. CASE Dispatch
  <2>1. job' \in [Node -> {"none", "wait", "run", "ok", "fail"}]
    BY <1>4 DEF Dispatch
  <2> QED  BY <1>4, <2>1 DEF Dispatch, TypeOK, engine, process, grains, disk
<1>5. CASE DispatchNobody
  BY <1>5, ConcludeType DEF DispatchNobody, TypeOK, process, grains, disk
<1>6. CASE Collect
  <2>1. (\A n \in Node : job[n] # "fail") \in BOOLEAN  OBVIOUS
  <2>2. step' \in 0..Len(Prog) /\ passed' \subseteq Ids /\ failed' \in BOOLEAN
    BY <1>6, <2>1, ConcludeType DEF Collect
  <2> QED  BY <1>0, <1>6, <2>2 DEF Collect, TypeOK, process, grains, disk
<1>7. CASE Kill
  <2>1. kills' \in 0..MaxKills  BY <1>7, BoundAssumption DEF Kill, TypeOK, BoundAssumption
  <2>2. 0 \in 0..Len(Prog)  BY ProgAssumption DEF ProgAssumption
  <2> QED  BY <1>0, <1>7, <2>1, <2>2 DEF Kill, Interrupt, TypeOK, process, grains, disk
<1> QED  BY <1>1, <1>2, <1>3, <1>4, <1>5, <1>6, <1>7 DEF Runner

\* What the steps of a state run have in common: the chunk at the head of a
\* run in progress ends, and no more than one thing changes on the node.
LEMMA TaskFrame ==
  ASSUME NEW n \in Node, RunTask(n)
  PROVE  /\ ~Idle(n) /\ \E ok \in BOOLEAN : Finish(n, ok)
         /\ UNCHANGED <<step, passed, failed, runs, kills, downs, flag, complete,
                        wal, pillar, asked, mine>>
         /\ pki' \in {pki, Secret, pki \cup {"sa"}}
         /\ cert' \in {cert, cert \cup {n}}
         /\ installed' \in {installed, installed \cup {n}}
         /\ unit' \in {unit, [unit EXCEPT ![n] = mine.addr \cap Etcd]}
         /\ conf' \in {conf, conf \cup {n}}
         /\ policy' \in {policy, policy \cup {n}}
         /\ minion' \in {minion, [minion EXCEPT ![n] = "reload"],
                        [minion EXCEPT ![n] = "starting"]}
<1>1. CASE RunWithoutMaster(n)
  BY <1>1 DEF RunWithoutMaster, engine, process, grains, disk
<1>2. CASE CreatePki(n)
  BY <1>2 DEF CreatePki, Working, engine, process, grains, disk, Secret
<1>3. CASE CreateSaKey(n)
  BY <1>3 DEF CreateSaKey, Working, engine, process, grains, disk
<1>4. CASE SignCert(n)
  BY <1>4 DEF SignCert, Working, engine, process, grains, disk
<1>5. CASE WriteUnit(n)
  BY <1>5 DEF WriteUnit, Working, engine, process, grains, disk
<1>6. CASE StartEtcd(n)
  <2>1. Serving(n) \in BOOLEAN  BY DEF Serving
  <2> QED  BY <1>6, <2>1 DEF StartEtcd, Working, engine, process, grains, disk
<1>7. CASE StartServices(n)
  BY <1>7 DEF StartServices, Working, engine, process, grains, disk
<1>8. CASE ConfigureMinion(n)
  BY <1>8 DEF ConfigureMinion, Working, engine, process, grains, disk
<1>9. CASE WaitForCoredns(n)
  BY <1>9 DEF WaitForCoredns, Working, engine, process, grains, disk
<1>10. CASE RunOther(n)
  BY <1>10 DEF RunOther, Working, engine, process, grains, disk
<1>11. CASE ActOnListen(n)
  BY <1>11 DEF ActOnListen, Listening, Working, engine, grains, disk
<1> QED
  BY <1>1, <1>2, <1>3, <1>4, <1>5, <1>6, <1>7, <1>8, <1>9, <1>10, <1>11 DEF RunTask

LEMMA TypeTask ==
  ASSUME TypeOK, NEW n \in Node, RunTask(n)
  PROVE  TypeOK'
<1>1. /\ task' \in [Node -> Seq(Chunk)] /\ clean' \subseteq Node
      /\ job' \in [Node -> {"none", "wait", "run", "ok", "fail"}]
  BY TaskFrame, FinishType
<1>2. pki' \subseteq Secret  BY TaskFrame DEF TypeOK, Secret
<1>3. /\ cert' \subseteq Node /\ installed' \subseteq Node
      /\ conf' \subseteq Node /\ policy' \subseteq Node
  <2>1. /\ cert' \in {cert, cert \cup {n}} /\ installed' \in {installed, installed \cup {n}}
        /\ conf' \in {conf, conf \cup {n}} /\ policy' \in {policy, policy \cup {n}}
    BY TaskFrame, Zenon
  <2>2. /\ cert \subseteq Node /\ installed \subseteq Node
        /\ conf \subseteq Node /\ policy \subseteq Node
    BY DEF TypeOK
  <2> QED  BY <2>1, <2>2
<1>4. unit' \in [Node -> SUBSET Etcd]
  <2>1. unit' \in {unit, [unit EXCEPT ![n] = mine.addr \cap Etcd]}  BY TaskFrame
  <2>2. mine.addr \cap Etcd \in SUBSET Etcd  OBVIOUS
  <2> QED  BY <2>1, <2>2 DEF TypeOK
<1>5. minion' \in [Node -> {"up", "reload", "starting", "down"}]
  <2>1. minion' \in {minion, [minion EXCEPT ![n] = "reload"],
                    [minion EXCEPT ![n] = "starting"]}
    BY TaskFrame
  <2> QED  BY <2>1 DEF TypeOK
<1> QED  BY <1>1, <1>2, <1>3, <1>4, <1>5, TaskFrame DEF TypeOK

\* What minions and hosts do on their own.
LEMMA TypeMinion ==
  ASSUME TypeOK, NEW n \in Node,
         \/ StartJob(n) \/ ScheduledHighstate(n) \/ MinePush(n) \/ RefreshPillar(n)
         \/ RestartMinion(n) \/ StartMinion(n) \/ BootEtcd(n) \/ HostDown(n)
  PROVE  TypeOK'
<1>1. CASE StartJob(n)
  <2>1. Chunks(n, Prog[step].fun) \in Seq(Chunk)  BY ChunksType
  <2>2. /\ job' \in [Node -> {"none", "wait", "run", "ok", "fail"}]
        /\ clean' \subseteq Node
    BY <1>1 DEF StartJob, TypeOK
  <2>3. task' \in {task, [task EXCEPT ![n] = Chunks(n, Prog[step].fun)]}
    BY <1>1 DEF StartJob
  <2>4. task' \in [Node -> Seq(Chunk)]  BY <2>1, <2>3 DEF TypeOK
  <2> QED  BY <1>1, <2>2, <2>4 DEF StartJob, TypeOK, engine, process, grains, disk
<1>2. CASE ScheduledHighstate(n)
  <2>1. task' \in [Node -> Seq(Chunk)]
    BY <1>2, OwnHighstateType DEF ScheduledHighstate
  <2> QED  BY <1>2, <2>1 DEF ScheduledHighstate, TypeOK, engine, process, grains, disk
<1>3. CASE MinePush(n)
  BY <1>3, MinedType DEF MinePush, TypeOK, engine, process, grains, disk
<1>4. CASE RestartMinion(n)
  BY <1>4, AbortType DEF RestartMinion, TypeOK, engine, grains, disk
<1>8. CASE RefreshPillar(n)
  BY <1>8 DEF RefreshPillar, TypeOK, engine, grains, disk
<1>5. CASE StartMinion(n)
  <2>1. task' \in [Node -> Seq(Chunk)]  BY <1>5, OwnHighstateType DEF StartMinion
  <2>2. pillar' \subseteq Node /\ asked' \subseteq Node  BY <1>5 DEF StartMinion, TypeOK
  <2>3. minion' \in [Node -> {"up", "reload", "starting", "down"}]
    BY <1>5 DEF StartMinion, TypeOK
  <2> QED  BY <1>5, <2>1, <2>2, <2>3 DEF StartMinion, TypeOK, engine, grains, disk
<1>6. CASE BootEtcd(n)
  BY <1>6 DEF BootEtcd, TypeOK, engine, process, grains
<1>7. CASE HostDown(n)
  <2>1. /\ downs' \in 0..MaxDowns
        /\ minion' \in [Node -> {"up", "reload", "starting", "down"}]
    BY <1>7, BoundAssumption DEF HostDown, TypeOK, BoundAssumption
  <2>2. NoJobs \in [Node -> {"none", "wait", "run", "ok", "fail"}]  BY DEF NoJobs
  <2>3. [task EXCEPT ![n] = <<>>] \in [Node -> Seq(Chunk)] /\ 0 \in 0..Len(Prog)
    BY ProgAssumption DEF TypeOK, ProgAssumption
  <2>4. /\ task' \in [Node -> Seq(Chunk)] /\ clean' \subseteq Node
        /\ job' \in [Node -> {"none", "wait", "run", "ok", "fail"}]
        /\ step' \in 0..Len(Prog) /\ passed' \subseteq Ids /\ failed' \in BOOLEAN
    BY <1>7, <2>2, <2>3, AbortType DEF HostDown, Interrupt, TypeOK
  <2> QED  BY <1>7, <2>1, <2>4 DEF HostDown, TypeOK, grains, disk
<1> QED  BY <1>1, <1>2, <1>3, <1>4, <1>5, <1>6, <1>7, <1>8

LEMMA TypeNext == TypeOK /\ [Next]_vars => TypeOK'
<1> SUFFICES ASSUME TypeOK, [Next]_vars PROVE TypeOK'
  OBVIOUS
<1>1. CASE UNCHANGED vars  BY <1>1 DEF vars, TypeOK
<1>2. CASE Next
  <2>1. CASE Start \/ Runner \/ Kill  BY <2>1, TypeRunner
  <2>2. ASSUME NEW n \in Node, RunTask(n) PROVE TypeOK'  BY <2>2, TypeTask
  <2>3. ASSUME NEW n \in Node,
               \/ StartJob(n) \/ ScheduledHighstate(n) \/ MinePush(n)
               \/ RefreshPillar(n) \/ RestartMinion(n) \/ StartMinion(n) \/ BootEtcd(n)
               \/ HostDown(n)
        PROVE  TypeOK'
    BY <2>3, TypeMinion
  <2> QED  BY <1>2, <2>1, <2>2, <2>3 DEF Next
<1> QED  BY <1>1, <1>2

\* Every variable of the bootstrap keeps its type, whatever the deployment and
\* the orchestration.
THEOREM TypeCorrect == Spec => []TypeOK
BY TypeInit, TypeNext, PTL DEF Spec

-------------------------------------------------------------------------------
(* The flag at the end of a run *)

\* A run reaches its end through the last step, unless its master goes down.
LEMMA LastStep ==
  ASSUME EndsByClearing(Prog), TypeOK, Next, step = Len(Prog), step' = 0, kills' = kills, MasterUp'
  PROVE  CallFunction
<1>1. step # 0 /\ step \in Steps /\ Runnable(step) /\ Prog[step].kind = "function"
  BY ProgAssumption DEF ProgAssumption, EndsByClearing, Steps, Runnable
<1>2. ~Start /\ ~Skip /\ ~DispatchNobody /\ ~Collect /\ ~Dispatch
  BY <1>1 DEF Start, Skip, DispatchNobody, Collect, Dispatch
<1>3. ~Kill  BY DEF Kill, TypeOK
<1>4. ASSUME NEW n \in Node, HostDown(n) PROVE FALSE
  <2>1. minion'[n] = "down"  BY <1>4 DEF HostDown, TypeOK
  <2>2. CASE "salt" \in Roles[n]
    <3>1. n \in With("salt") /\ ~HostUp(n)'  BY <2>1, <2>2 DEF With, HostUp
    <3> QED  BY <3>1 DEF MasterUp
  <2>3. CASE "salt" \notin Roles[n]  BY <1>1, <1>4, <2>3 DEF HostDown
  <2> QED  BY <2>2, <2>3
<1>5. ASSUME NEW n \in Node, RunTask(n) PROVE FALSE  BY <1>1, <1>5, TaskFrame
<1>6. ASSUME NEW n \in Node,
             \/ StartJob(n) \/ ScheduledHighstate(n) \/ MinePush(n)
             \/ RefreshPillar(n) \/ RestartMinion(n) \/ StartMinion(n) \/ BootEtcd(n)
      PROVE  FALSE
  BY <1>1, <1>6 DEF StartJob, ScheduledHighstate, MinePush, RefreshPillar, RestartMinion,
     StartMinion,
     BootEtcd, engine
<1> QED  BY <1>2, <1>3, <1>4, <1>5, <1>6 DEF Next, Runner

\* Whatever the other steps are and however they went, an orchestration whose
\* last step removes the flag, unconditionally, ends with no minion that answers
\* marked as being bootstrapped.
THEOREM FlagsAreCleared ==
  ASSUME EndsByClearing(Prog)
  PROVE  Spec => FlagCleared
<1>1. ASSUME TypeOK, [Next]_vars
      PROVE  [step = Len(Prog) /\ step' = 0 /\ kills' = kills /\ MasterUp' =>
                \A n \in flag' : ~Answers(n)]_vars
  <2>1. CASE UNCHANGED vars  BY <2>1
  <2>2. ASSUME Next, step = Len(Prog), step' = 0, kills' = kills, MasterUp'
        PROVE  \A n \in flag' : ~Answers(n)
    <3>1. CallFunction  BY <1>1, <2>2, LastStep
    <3>2. Prog[step].fun = "delInProgress" /\ Target(step) = flag
      BY <2>2 DEF EndsByClearing, Target
    <3>3. flag' = flag \ {n \in flag : Answers(n)}  BY <3>1, <3>2 DEF CallFunction
    <3> QED  BY <3>3
  <2> QED  BY <1>1, <2>1, <2>2
<1> QED  BY <1>1, TypeCorrect, PTL DEF Spec, FlagCleared

-------------------------------------------------------------------------------
(* The CA, the certificates, etcd and the masters *)

\* A member only serves in a cluster that a majority has bootstrapped with.
LEMMA ServingFormed ==
  ASSUME TypeOK, EtcdAvailable
  PROVE  Formed
<1>1. PICK n \in Etcd : Serving(n)  BY DEF EtcdAvailable
<1> DEFINE peers == {m \in wal[n] : HostUp(m) /\ wal[m] = wal[n]}
           all   == {m \in wal[n] : wal[m] = wal[n]}
<1>2. n \in Node /\ wal[n] \subseteq Node  BY DEF TypeOK, Etcd, With
<1>3. IsFiniteSet(wal[n]) /\ Cardinality(wal[n]) \in Nat
  BY <1>2, NodeAssumption, FS_Subset, FS_CardinalityType DEF NodeAssumption
<1>4. IsFiniteSet(all)  BY <1>3, FS_Subset
<1>5. Cardinality(peers) <= Cardinality(all)  BY <1>4, FS_Subset
<1>6. Cardinality(peers) \in Nat /\ Cardinality(all) \in Nat
  BY <1>3, <1>4, FS_Subset, FS_CardinalityType
<1>7. wal[n] # {} /\ 2 * Cardinality(peers) > Cardinality(wal[n])
  BY <1>1 DEF Serving
<1>8. wal[n] # {} /\ 2 * Cardinality(all) > Cardinality(wal[n])
  BY <1>3, <1>5, <1>6, <1>7
<1> QED  BY <1>8 DEF Formed

\* A cluster that has formed stays so: membership is fixed at the first start.
LEMMA FormedStable ==
  ASSUME TypeOK, Formed, \A n \in Node : wal[n] # {} => wal'[n] = wal[n]
  PROVE  Formed'
<1>1. PICK n \in Etcd : /\ wal[n] # {}
                        /\ 2 * Cardinality({m \in wal[n] : wal[m] = wal[n]})
                             > Cardinality(wal[n])
  BY DEF Formed
<1> DEFINE old == {m \in wal[n] : wal[m] = wal[n]}
           new == {m \in wal'[n] : wal'[m] = wal'[n]}
<1>2. n \in Node /\ wal[n] \subseteq Node /\ wal'[n] = wal[n]
  BY <1>1 DEF TypeOK, Etcd, With
<1>3. IsFiniteSet(wal[n]) /\ Cardinality(wal[n]) \in Nat
  BY <1>2, NodeAssumption, FS_Subset, FS_CardinalityType DEF NodeAssumption
<1>4. IsFiniteSet(new)  BY <1>2, <1>3, FS_Subset
<1>5. old \subseteq new  BY <1>1, <1>2
<1>6. Cardinality(old) <= Cardinality(new)  BY <1>4, <1>5, FS_Subset
<1>7. Cardinality(old) \in Nat /\ Cardinality(new) \in Nat
  BY <1>3, <1>4, FS_Subset, FS_CardinalityType
<1>8. wal'[n] # {} /\ 2 * Cardinality(new) > Cardinality(wal'[n])
  BY <1>1, <1>2, <1>3, <1>6, <1>7
<1>9. Etcd' = Etcd  BY DEF Etcd, With
<1> QED  BY <1>8, <1>9 DEF Formed

LEMMA PkiTask ==
  ASSUME TypeOK, PkiInv, NEW n \in Node, RunTask(n)
  PROVE  PkiInv'
<1>1. wal' = wal /\ (Formed => Formed')
  BY TaskFrame, FormedStable
<1>2. CASE UNCHANGED <<pki, cert, installed>>  BY <1>1, <1>2 DEF PkiInv
<1>3. CASE CreatePki(n)  BY <1>1, <1>3 DEF CreatePki, PkiInv, Secret
<1>4. CASE CreateSaKey(n)  BY <1>1, <1>4 DEF CreateSaKey, PkiInv, Secret
<1>5. CASE SignCert(n)  BY <1>1, <1>5 DEF SignCert, CAReady, PkiInv
<1>6. CASE StartServices(n)
  <2>1. UNCHANGED <<pki, cert>> /\ installed' \in {installed, installed \cup {n}}
    BY <1>6 DEF StartServices
  <2>2. n \in installed' /\ n \notin installed /\ n \in Master => n \in cert /\ Formed
    <3>1. n \in Master => Needs(n) # {}  BY DEF Master, With, Needs
    <3> QED  BY <1>6, <3>1, ServingFormed DEF StartServices
  <2> QED  BY <1>1, <2>1, <2>2 DEF PkiInv
<1> QED
  BY <1>2, <1>3, <1>4, <1>5, <1>6 DEF RunTask, RunWithoutMaster, WriteUnit, StartEtcd,
     ActOnListen, ConfigureMinion, WaitForCoredns, RunOther, disk

LEMMA PkiNext ==
  ASSUME TypeOK, PkiInv, Next
  PROVE  PkiInv' /\ installed \subseteq installed'
<1>1. CASE Start \/ Runner \/ Kill
  BY <1>1 DEF Start, Runner, Skip, CallFunction, Dispatch, DispatchNobody, Collect, Kill,
     disk, PkiInv, Formed
<1>2. ASSUME NEW n \in Node, RunTask(n)
      PROVE  PkiInv' /\ installed \subseteq installed'
  BY <1>2, PkiTask, TaskFrame
<1>3. ASSUME NEW n \in Node, BootEtcd(n)
      PROVE  PkiInv' /\ installed \subseteq installed'
  <2>1. \A m \in Node : wal[m] # {} => wal'[m] = wal[m]  BY <1>3 DEF BootEtcd, TypeOK
  <2>2. Formed => Formed'  BY <2>1, FormedStable
  <2> QED  BY <1>3, <2>2 DEF BootEtcd, PkiInv
<1>4. ASSUME NEW n \in Node,
             \/ StartJob(n) \/ ScheduledHighstate(n) \/ MinePush(n)
             \/ RefreshPillar(n) \/ RestartMinion(n) \/ StartMinion(n) \/ HostDown(n)
      PROVE  PkiInv' /\ installed \subseteq installed'
  BY <1>4 DEF StartJob, ScheduledHighstate, MinePush, RefreshPillar, RestartMinion,
     StartMinion,
     HostDown, disk, PkiInv, Formed
<1> QED  BY <1>1, <1>2, <1>3, <1>4 DEF Next

-------------------------------------------------------------------------------
(* The jobs of a state step *)

LEMMA NoJobsInv ==
  ASSUME job' = NoJobs
  PROVE  JobInv'
BY DEF JobInv, JobsInv, TaskInv, RoleInv, AllInv, OkInv, NoJobs

\* Between two steps there are no jobs.
LEMMA JobRunner ==
  ASSUME TypeOK, JobInv, Start \/ Skip \/ CallFunction \/ DispatchNobody \/ Collect \/ Kill
  PROVE  JobInv'
<1>1. job' = NoJobs
  BY DEF Start, Skip, CallFunction, DispatchNobody, Collect, Kill, Interrupt, JobInv, JobsInv
<1> QED  BY <1>1, NoJobsInv

LEMMA JobDispatch ==
  ASSUME TypeOK, JobInv, Dispatch
  PROVE  JobInv'
<1>1. step \in Steps /\ Runnable(step) /\ Prog[step].kind = "state"
      /\ UNCHANGED <<step, passed, installed, task>>
  BY ProgAssumption DEF Dispatch, engine, disk, ProgAssumption, TypeOK, Steps
<1>2. \A n \in Node : /\ job'[n] \in {"none", "wait", "fail"}
                      /\ job'[n] # "none" => n \in Target(step)
                      /\ n \in Target(step) /\ Prog[step].batch = 0 => job'[n] # "none"
  BY DEF Dispatch
<1>3. JobsInv'  BY <1>1 DEF JobsInv, Runnable, Steps
<1>4. TaskInv' /\ OkInv'  BY <1>2 DEF TaskInv, OkInv
<1>5. RoleInv'  BY <1>1, <1>2 DEF RoleInv, Target
<1>6. AllInv'  BY <1>1, <1>2 DEF AllInv, Target
<1> QED  BY <1>3, <1>4, <1>5, <1>6 DEF JobInv

\* The other steps are those of one minion n.  They leave the step alone and
\* the jobs of the other minions; n keeps its job or passes on to a later stage.
LEMMA JobFrame ==
  ASSUME TypeOK, JobInv, NEW n \in Node, NEW j, NEW t,
         UNCHANGED <<step, passed>>, installed \subseteq installed',
         job' = [job EXCEPT ![n] = j], task' = [task EXCEPT ![n] = t],
         job[n] = "none" <=> j = "none",
         \A m \in Node : m # n /\ m \in clean' => m \in clean,
         j = "run" => /\ t # <<>>
                      /\ Prog[step].fun = "highstate" /\ n \in clean' =>
                           n \in installed' \/ Ahead(t),
         j = "ok" /\ Prog[step].fun = "highstate" => n \in installed'
  PROVE  JobInv'
<1>1. \A m \in Node : /\ job'[m] = "none" <=> job[m] = "none"
                      /\ job'[m] = IF m = n THEN j ELSE job[m]
                      /\ task'[m] = IF m = n THEN t ELSE task[m]
  BY DEF TypeOK
<1>2. job' # NoJobs => job # NoJobs
  <2>1. SUFFICES ASSUME job = NoJobs PROVE job' = NoJobs
    OBVIOUS
  <2>2. j = "none"  BY <2>1 DEF NoJobs
  <2> QED  BY <2>1, <2>2 DEF NoJobs
<1>3. JobsInv'  BY <1>2 DEF JobInv, JobsInv, Runnable
<1>4. TaskInv'
  <2>1. \A m \in Node : m # n /\ job'[m] = "run" =>
          /\ job[m] = "run" /\ task'[m] = task[m]
          /\ m \in clean' => m \in clean
    BY <1>1
  <2>2. ASSUME NEW m \in Node, m # n, job'[m] = "run"
        PROVE  /\ task'[m] # <<>>
               /\ Prog[step'].fun = "highstate" /\ m \in clean' =>
                    m \in installed' \/ Ahead(task'[m])
    BY <2>1, <2>2 DEF JobInv, TaskInv
  <2>3. job'[n] = j /\ task'[n] = t  BY <1>1
  <2>4. ASSUME job'[n] = "run"
        PROVE  /\ task'[n] # <<>>
               /\ Prog[step'].fun = "highstate" /\ n \in clean' =>
                    n \in installed' \/ Ahead(task'[n])
    BY <2>3, <2>4
  <2>5. ASSUME NEW m \in Node, job'[m] = "run"
        PROVE  /\ task'[m] # <<>>
               /\ Prog[step'].fun = "highstate" /\ m \in clean' =>
                    m \in installed' \/ Ahead(task'[m])
    BY <2>2, <2>4, <2>5
  <2> QED  BY <2>5 DEF TaskInv, Ahead
<1>5. RoleInv'  BY <1>1 DEF JobInv, RoleInv
<1>6. AllInv'  BY <1>1, <1>2 DEF JobInv, AllInv
<1>7. OkInv'  BY <1>1 DEF JobInv, OkInv
<1> QED  BY <1>3, <1>4, <1>5, <1>6, <1>7 DEF JobInv

LEMMA JobStart ==
  ASSUME TypeOK, JobInv, NEW n \in Node, StartJob(n)
  PROVE  JobInv'
<1> DEFINE sls == Prog[step].fun
           go  == Answers(n) /\ Idle(n) /\ Renders(n, sls)
<1>1. /\ job' = [job EXCEPT ![n] = IF go THEN "run" ELSE "fail"]
      /\ task' = [task EXCEPT ![n] = IF go THEN Chunks(n, sls) ELSE task[n]]
      /\ UNCHANGED <<step, passed, installed>> /\ job[n] = "wait"
  BY DEF StartJob, engine, disk, TypeOK
<1>2. Chunks(n, sls) # <<>> /\ (sls = "highstate" => Ahead(Chunks(n, sls)))
  BY ChunksType
<1>3. \A m \in Node : m # n /\ m \in clean' => m \in clean  BY DEF StartJob
<1>4. CASE go  BY <1>1, <1>2, <1>3, <1>4, JobFrame
<1>5. CASE ~go  BY <1>1, <1>3, <1>5, JobFrame
<1> QED  BY <1>4, <1>5

\* The only chunk that ends with success and brings up the node.
LEMMA ServicesChunk ==
  ASSUME NEW n \in Node, RunTask(n), Head(task[n]) = "services"
  PROVE  \E ok \in BOOLEAN : Finish(n, ok) /\ (ok => n \in installed')
<1>1. CASE RunWithoutMaster(n)  BY <1>1 DEF RunWithoutMaster
<1>2. CASE StartServices(n)
  BY <1>2 DEF StartServices
<1> QED  BY <1>1, <1>2 DEF RunTask, CreatePki, CreateSaKey, SignCert, WriteUnit, StartEtcd,
            ActOnListen, Listening, ConfigureMinion, WaitForCoredns, RunOther, Working

LEMMA JobTask ==
  ASSUME TypeOK, JobInv, NEW n \in Node, RunTask(n)
  PROVE  JobInv'
<1>1. PICK ok \in BOOLEAN :
        Finish(n, ok) /\ (Head(task[n]) = "services" => (ok => n \in installed'))
  BY TaskFrame, ServicesChunk
<1>2. task[n] \in Seq(Chunk) /\ task[n] # <<>> /\ Len(task[n]) \in Nat
      /\ Len(task[n]) # 0
  BY TaskFrame DEF Idle, TypeOK
<1>3. UNCHANGED <<step, passed>> /\ installed \subseteq installed'  BY TaskFrame
<1>4. task' = [task EXCEPT ![n] = Tail(task[n])]  BY <1>1 DEF Finish
<1>5. /\ \A m \in Node : m \in clean' => m \in clean
      /\ n \in clean' => ok
  BY <1>1 DEF Finish
<1>6. ASSUME job[n] = "run", Prog[step].fun = "highstate", n \in clean, ok,
             n \notin installed'
      PROVE  Len(task[n]) > 1 /\ Ahead(Tail(task[n]))
  <2>1. Ahead(task[n])  BY <1>3, <1>6 DEF JobInv, TaskInv
  <2>2. Head(task[n]) # "services"  BY <1>1, <1>6
  <2> QED  BY <1>2, <2>1, <2>2, TailAhead
<1>7. CASE job[n] = "run" /\ Len(task[n]) = 1
  <2> DEFINE j == IF ok /\ n \in clean THEN "ok" ELSE "fail"
  <2>1. job' = [job EXCEPT ![n] = j]  BY <1>1, <1>7 DEF Finish
  <2>2. j = "ok" /\ Prog[step].fun = "highstate" => n \in installed'
    <3>1. ~(Len(task[n]) > 1)  BY <1>7
    <3> QED  BY <1>6, <1>7, <3>1
  <2>3. j # "run" /\ j # "none" /\ job[n] # "none"  BY <1>7
  <2> HIDE DEF j
  <2> QED  BY <1>3, <1>4, <1>5, <2>1, <2>2, <2>3, JobFrame
<1>8. CASE ~(job[n] = "run" /\ Len(task[n]) = 1)
  <2>1. job' = [job EXCEPT ![n] = job[n]]  BY <1>1, <1>8 DEF Finish, TypeOK
  <2>2. job[n] = "run" => Tail(task[n]) # <<>>
    <3>1. job[n] = "run" => Len(task[n]) # 1  BY <1>8
    <3>2. \A k \in Nat : k # 0 /\ k # 1 => k - 1 # 0  OBVIOUS
    <3>3. job[n] = "run" => Len(task[n]) - 1 # 0  BY <1>2, <3>1, <3>2, Zenon
    <3>4. Len(Tail(task[n])) = Len(task[n]) - 1  BY <1>2, HeadTailProperties
    <3>5. Len(<<>>) = 0  OBVIOUS
    <3> QED  BY <3>3, <3>4, <3>5, Zenon
  <2>3. job[n] = "run" /\ Prog[step].fun = "highstate" /\ n \in clean' =>
          n \in installed' \/ Ahead(Tail(task[n]))
    BY <1>5, <1>6
  <2>4. job[n] = "ok" /\ Prog[step].fun = "highstate" => n \in installed'
    BY <1>3 DEF JobInv, OkInv
  <2> QED  BY <1>3, <1>4, <1>5, <2>1, <2>2, <2>3, <2>4, JobFrame
<1> QED  BY <1>7, <1>8

LEMMA JobAbort ==
  ASSUME TypeOK, JobInv, NEW n \in Node, Abort(n), UNCHANGED <<step, passed, installed>>
  PROVE  JobInv'
<1>1. /\ job' = [job EXCEPT ![n] = IF job[n] = "run" THEN "fail" ELSE job[n]]
      /\ task' = [task EXCEPT ![n] = <<>>]
  BY DEF Abort, TypeOK
<1>2. \A m \in Node : m \in clean' => m \in clean  BY DEF Abort
<1>3. CASE job[n] = "run"  BY <1>1, <1>2, <1>3, JobFrame
<1>4. CASE job[n] # "run"  BY <1>1, <1>2, <1>4, JobFrame DEF JobInv, OkInv
<1> QED  BY <1>3, <1>4

\* A highstate of the minion's own never takes the place of a run in progress.
LEMMA JobOwn ==
  ASSUME TypeOK, JobInv, NEW n \in Node, OwnHighstate(n),
         UNCHANGED <<step, passed, installed, job, clean>>
  PROVE  JobInv'
<1>1. PICK t : /\ task' = [task EXCEPT ![n] = t]
               /\ job[n] = "run" => t = task[n]
  BY DEF OwnHighstate, Idle, JobInv, TaskInv, TypeOK
<1>2. job' = [job EXCEPT ![n] = job[n]]  BY DEF TypeOK
<1> QED  BY <1>1, <1>2, JobFrame DEF JobInv, TaskInv, OkInv

LEMMA JobNext ==
  ASSUME TypeOK, JobInv, Next
  PROVE  JobInv'
<1>1. CASE Start \/ Runner \/ Kill  BY <1>1, JobRunner, JobDispatch DEF Runner
<1>2. ASSUME NEW n \in Node, StartJob(n) PROVE JobInv'  BY <1>2, JobStart
<1>3. ASSUME NEW n \in Node, RunTask(n) PROVE JobInv'  BY <1>3, JobTask
<1>4. ASSUME NEW n \in Node, ScheduledHighstate(n) PROVE JobInv'
  BY <1>4, JobOwn DEF ScheduledHighstate, engine, disk
<1>5. ASSUME NEW n \in Node, StartMinion(n) PROVE JobInv'
  BY <1>5, JobOwn DEF StartMinion, engine, disk
<1>6. ASSUME NEW n \in Node, RestartMinion(n) PROVE JobInv'
  BY <1>6, JobAbort DEF RestartMinion, engine, disk
<1>7. ASSUME NEW n \in Node, MinePush(n) \/ RefreshPillar(n) \/ BootEtcd(n) PROVE JobInv'
  BY <1>7 DEF MinePush, RefreshPillar, BootEtcd, engine, disk, JobInv, JobsInv, TaskInv,
     RoleInv, AllInv,
     OkInv, Runnable
<1>8. ASSUME NEW n \in Node, HostDown(n) PROVE JobInv'
  <2>1. CASE job' = NoJobs  BY <2>1, NoJobsInv
  <2>2. CASE Abort(n) /\ UNCHANGED <<step, passed, failed>>
    BY <1>8, <2>2, JobAbort DEF HostDown, disk
  <2> QED  BY <1>8, <2>1, <2>2 DEF HostDown, Interrupt
<1> QED  BY <1>1, <1>2, <1>3, <1>4, <1>5, <1>6, <1>7, <1>8 DEF Next

\* What JobsSettle says of minion m.
Settles(m) ==
  /\ job[m] \notin {"wait", "run"} => job'[m] = job[m]
  /\ job'[m] = "wait" => job[m] = "wait"
  /\ job[m] = "run" /\ job'[m] = "run" =>
       task'[m] = task[m] \/ (~Idle(m) /\ task'[m] = Tail(task[m]))

LEMMA SettleNext ==
  ASSUME TypeOK, JobInv, Next, job # NoJobs, job' # NoJobs, NEW m \in Node
  PROVE  step' = step /\ Settles(m)
<1>0. job \in [Node -> {"none", "wait", "run", "ok", "fail"}] /\ task \in [Node -> Seq(Chunk)]
  BY DEF TypeOK
<1>1. ~(Start \/ Runner \/ Kill)
  BY DEF Start, Runner, Skip, CallFunction, Dispatch, DispatchNobody, Collect, Kill, Interrupt,
     JobInv, JobsInv
<1>2. ASSUME NEW n \in Node, StartJob(n) PROVE step' = step /\ Settles(m)
  <2>1. /\ job[n] = "wait" /\ job'[n] \in {"run", "fail"} /\ step' = step
        /\ m # n => job'[m] = job[m] /\ task'[m] = task[m]
    BY <1>0, <1>2 DEF StartJob, engine
  <2> QED  BY <2>1 DEF Settles
<1>3. ASSUME NEW n \in Node, RunTask(n) PROVE step' = step /\ Settles(m)
  <2>1. PICK ok \in BOOLEAN : Finish(n, ok)  BY <1>3, TaskFrame
  <2>2. /\ job'[n] = job[n] \/ (job[n] = "run" /\ job'[n] \in {"ok", "fail"})
        /\ task'[n] = Tail(task[n]) /\ ~Idle(n) /\ step' = step
        /\ m # n => job'[m] = job[m] /\ task'[m] = task[m]
    BY <1>0, <1>3, <2>1, TaskFrame DEF Finish
  <2> QED  BY <2>2 DEF Settles
<1>4. ASSUME NEW n \in Node, OwnHighstate(n), UNCHANGED <<step, job>>
      PROVE  step' = step /\ Settles(m)
  BY <1>0, <1>4 DEF OwnHighstate, Idle, JobInv, TaskInv, Settles
<1>5. ASSUME NEW n \in Node, Abort(n), UNCHANGED step PROVE step' = step /\ Settles(m)
  BY <1>0, <1>5 DEF Abort, Settles
<1>6. ASSUME NEW n \in Node, MinePush(n) \/ RefreshPillar(n) \/ BootEtcd(n)
      PROVE  step' = step /\ Settles(m)
  BY <1>6 DEF MinePush, RefreshPillar, BootEtcd, engine, Settles
<1>7. ASSUME NEW n \in Node, HostDown(n) PROVE Abort(n) /\ UNCHANGED step
  BY <1>7 DEF HostDown, Interrupt
<1> QED
  BY <1>1, <1>2, <1>3, <1>4, <1>5, <1>6, <1>7 DEF Next, ScheduledHighstate, StartMinion,
     RestartMinion, engine

-------------------------------------------------------------------------------
(* What it means that a step has succeeded *)

\* The only ways for a step to end: it fails, or it is not a state, or all its
\* jobs have come to an end.
LEMMA ConcludeCases ==
  ASSUME TypeOK, Next, ~Start, UNCHANGED <<step, passed, failed>> => FALSE
  PROVE  \/ failed' /\ passed' \subseteq passed
         \/ /\ step # 0 /\ Prog[step].kind # "state"
            /\ \E ok \in BOOLEAN : Conclude(ok)
         \/ /\ step # 0 /\ job # NoJobs
            /\ \A n \in Node : job[n] \in {"none", "ok", "fail"}
            /\ Conclude(\A n \in Node : job[n] # "fail")
<1>1. CASE Skip \/ DispatchNobody  BY <1>1 DEF Skip, DispatchNobody, Conclude
<1>2. CASE CallFunction
  <2>1. step # 0 /\ Prog[step].kind # "state"  BY <1>2 DEF CallFunction
  <2>2. PICK T : Conclude(Prog[step].kind = "runner" \/ T # {})
    BY <1>2 DEF CallFunction
  <2>3. (Prog[step].kind = "runner" \/ T # {}) \in BOOLEAN  OBVIOUS
  <2> QED  BY <2>1, <2>2, <2>3
<1>3. CASE Collect  BY <1>3 DEF Collect, TypeOK
<1>4. CASE Kill  BY <1>4 DEF Kill, Interrupt
<1>5. ASSUME NEW n \in Node, HostDown(n)
      PROVE  failed' /\ passed' \subseteq passed
  BY <1>5 DEF HostDown, Interrupt
<1>6. ~Dispatch  BY DEF Dispatch, engine
<1>7. ASSUME NEW n \in Node,
             \/ StartJob(n) \/ RunTask(n) \/ ScheduledHighstate(n) \/ MinePush(n)
             \/ RefreshPillar(n) \/ RestartMinion(n) \/ StartMinion(n) \/ BootEtcd(n)
      PROVE  FALSE
  BY <1>7, TaskFrame DEF StartJob, ScheduledHighstate, MinePush, RefreshPillar,
     RestartMinion,
     StartMinion, BootEtcd, engine
<1> QED  BY <1>1, <1>2, <1>3, <1>4, <1>5, <1>6, <1>7 DEF Next, Runner

\* Once the masters' highstate has succeeded an API server has come up.
LEMMA PassedNext ==
  ASSUME MastersFirst(Prog), TypeOK, JobInv, PkiInv, PassedInv, Next
  PROVE  PassedInv'
<1>1. installed \subseteq installed' /\ Master' = Master
  BY PkiNext DEF Master, With
<1>2. CASE passed' \subseteq passed  BY <1>1, <1>2 DEF PassedInv
<1>3. CASE Start  BY <1>3 DEF Start, PassedInv
<1>4. CASE ~(passed' \subseteq passed) /\ ~Start
  <2>1. SUFFICES ASSUME "kube-master-setup" \in passed', "kube-master-setup" \notin passed
                 PROVE  Master \cap installed # {}
    BY <1>1 DEF PassedInv
  <2>2. ~UNCHANGED <<step, passed, failed>>  BY <1>4
  <2>3. PICK ok : step # 0 /\ Conclude(ok)  BY <1>4, <2>2, ConcludeCases
  <2>4. Prog[step].id = "kube-master-setup" /\ ok  BY <2>1, <2>3 DEF Conclude
  <2>5. step \in Steps  BY <2>3, ProgAssumption DEF TypeOK, Steps, ProgAssumption
  <2>6. /\ Prog[step].kind = "state" /\ Prog[step].fun = "highstate"
        /\ Prog[step].by = "roles" /\ Prog[step].roles = {"kube-master"}
    BY <2>4, <2>5 DEF MastersFirst, Steps
  <2>7. /\ job # NoJobs /\ \A n \in Node : job[n] \in {"none", "ok", "fail"}
        /\ Conclude(\A n \in Node : job[n] # "fail")
    BY <1>4, <2>2, <2>6, ConcludeCases
  <2>8. \A n \in Node : job[n] # "fail"  BY <2>1, <2>7 DEF Conclude
  <2>9. PICK n \in Node : job[n] # "none"  BY <2>7 DEF TypeOK, NoJobs
  <2>10. job[n] = "ok"  BY <2>7, <2>8, <2>9
  <2>11. n \in installed  BY <2>6, <2>10 DEF JobInv, OkInv
  <2>12. n \in Master  BY <2>6, <2>9 DEF JobInv, RoleInv, Master, With
  <2> QED  BY <2>11, <2>12
<1> QED  BY <1>2, <1>3, <1>4

LEMMA InvInit == Init => JobInv /\ PkiInv /\ PassedInv
<1> SUFFICES ASSUME Init PROVE JobInv /\ PkiInv /\ PassedInv
  OBVIOUS
<1>1. job = NoJobs  BY DEF Init, NoJobs
<1>2. JobInv
  BY <1>1 DEF JobInv, JobsInv, TaskInv, RoleInv, AllInv, OkInv, NoJobs
<1>3. PkiInv /\ PassedInv  BY DEF Init, PkiInv, PassedInv
<1> QED  BY <1>2, <1>3

LEMMA InvNext ==
  ASSUME MastersFirst(Prog)
  PROVE  IInv /\ [Next]_vars => IInv'
<1> SUFFICES ASSUME IInv, [Next]_vars PROVE IInv'
  OBVIOUS
<1>1. TypeOK'  BY TypeNext DEF IInv
<1>2. CASE Next
  BY <1>1, <1>2, JobNext, PkiNext, PassedNext DEF IInv
<1>3. CASE UNCHANGED vars
  BY <1>1, <1>3 DEF vars, IInv, JobInv, JobsInv, TaskInv, RoleInv, AllInv, OkInv, PkiInv,
     PassedInv, Runnable, Formed
<1> QED  BY <1>2, <1>3

\* For every orchestration in which the masters' step comes before those of the
\* workers and is required by them, no worker is set up by a step before the CA
\* exists, etcd has formed a cluster and an API server has come up, whatever
\* fails, restarts or is run a second time.
THEOREM WorkersComeLast ==
  ASSUME MastersFirst(Prog)
  PROVE  Spec => []WorkersLast
<1>1. Init => IInv  BY TypeInit, InvInit DEF IInv
<1>2. IInv => WorkersLast
  <2>1. SUFFICES ASSUME IInv,
                        Active("kube-minion-setup") \/ Active("running-all-state-apply")
                 PROVE  pki = Secret /\ Formed /\ Master \cap installed # {}
    BY DEF WorkersLast
  <2>2. /\ Prog[step].id \in {"kube-minion-setup", "running-all-state-apply"}
        /\ step # 0 /\ job # NoJobs
    BY <2>1 DEF Active
  <2>3. step \in Steps
    BY <2>1, <2>2, ProgAssumption DEF IInv, TypeOK, Steps, ProgAssumption
  <2>4. "kube-master-setup" \in Prog[step].require  BY <2>2, <2>3 DEF MastersFirst, Steps
  <2>5. Runnable(step)  BY <2>1, <2>2 DEF IInv, JobInv, JobsInv
  <2>6. Master \cap installed # {}
    BY <2>1, <2>4, <2>5 DEF IInv, PassedInv, Runnable
  <2> QED  BY <2>1, <2>6 DEF IInv, PkiInv
<1> QED  BY <1>1, <1>2, InvNext, PTL DEF Spec

\* The result of a minion belongs to the step it was sent for, whatever the minions do
\* on their own: with as many chunks as a run has, this bounds what a step waits for.
THEOREM JobsAreSettled == Spec => JobsSettle
<1>1. TypeOK /\ JobInv /\ [Next]_vars =>
        (job # NoJobs /\ job' # NoJobs => step' = step /\ \A m \in Node : Settles(m))
  <2> SUFFICES ASSUME TypeOK, JobInv, [Next]_vars, job # NoJobs, job' # NoJobs
               PROVE  step' = step /\ \A m \in Node : Settles(m)
    OBVIOUS
  <2>1. CASE UNCHANGED vars  BY <2>1 DEF vars, Settles
  <2>2. CASE Next
    <3>1. step' = step
      <4>1. PICK m \in Node : TRUE  BY OneCA
      <4> QED  BY <2>2, <4>1, SettleNext
    <3> QED  BY <2>2, <3>1, SettleNext
  <2> QED  BY <2>1, <2>2
<1>2. (job # NoJobs /\ job' # NoJobs => step' = step /\ \A m \in Node : Settles(m)) =>
        (job # NoJobs /\ job' # NoJobs =>
           /\ step' = step
           /\ \A n \in Node :
                /\ job[n] \notin {"wait", "run"} => job'[n] = job[n]
                /\ job'[n] = "wait" => job[n] = "wait"
                /\ job[n] = "run" /\ job'[n] = "run" =>
                     task'[n] = task[n] \/ (~Idle(n) /\ task'[n] = Tail(task[n])))
  BY DEF Settles
<1>3. Init => TypeOK /\ JobInv  BY TypeInit, InvInit
<1>4. TypeOK /\ JobInv /\ [Next]_vars => TypeOK' /\ JobInv'
  <2> SUFFICES ASSUME TypeOK, JobInv, [Next]_vars PROVE TypeOK' /\ JobInv'
    OBVIOUS
  <2>1. CASE Next  BY <2>1, TypeNext, JobNext
  <2>2. CASE UNCHANGED vars
    BY <2>2, TypeNext
    DEF vars, JobInv, JobsInv, TaskInv, RoleInv, AllInv, OkInv, Runnable
  <2> QED  BY <2>1, <2>2
<1> QED  BY <1>1, <1>2, <1>3, <1>4, PTL DEF Spec, JobsSettle

\* A run that has passed a highstate sent to every minion without a failure has
\* brought up every node.
LEMMA SuccessNext ==
  ASSUME NEW s, Everywhere(Prog, s), TypeOK, JobInv, PkiInv, SuccessInv(s), Next
  PROVE  SuccessInv(s)'
<1>1. installed \subseteq installed' /\ installed' \subseteq Node
  BY PkiNext, TypeNext DEF TypeOK
<1>2. s \in Steps /\ s \in Nat /\ s >= 1 /\ step \in Nat /\ Len(Prog) \in Nat /\ s <= Len(Prog)
  BY ProgAssumption DEF Everywhere, Steps, TypeOK, ProgAssumption
<1>3. CASE Start  BY <1>2, <1>3 DEF Start, SuccessInv
<1>4. CASE ~Start /\ UNCHANGED <<step, passed, failed>>
  <2>1. runs' = runs
    BY <1>4, TaskFrame DEF Next, Runner, Skip, CallFunction, Dispatch, DispatchNobody, Collect,
       Kill, StartJob, ScheduledHighstate, MinePush, RefreshPillar, RestartMinion,
          StartMinion, BootEtcd,
       HostDown, engine
  <2> QED  BY <1>1, <1>4, <2>1 DEF SuccessInv
<1>5. CASE ~Start /\ ~UNCHANGED <<step, passed, failed>>
  <2>1. SUFFICES ASSUME ~failed', step' > s \/ step' = 0
                 PROVE  installed = Node
    BY <1>1 DEF SuccessInv
  <2>2. PICK ok : step # 0 /\ Conclude(ok)  BY <1>5, <2>1, ConcludeCases
  <2>3. ~failed /\ step >= s
    <3>1. ~failed  BY <2>1, <2>2, Zenon DEF Conclude
    <3>2. step' = IF step = Len(Prog) THEN 0 ELSE step + 1  BY <2>2 DEF Conclude
    <3>3. step = Len(Prog) => step >= s  BY <1>2
    <3>4. step # Len(Prog) => step >= s  BY <1>2, <2>1, <3>2
    <3> QED  BY <3>1, <3>3, <3>4
  <2>4. CASE step > s  BY <2>3, <2>4 DEF SuccessInv, TypeOK
  <2>5. CASE step = s
    <3>1. /\ Prog[step].kind = "state" /\ Prog[step].fun = "highstate"
          /\ Prog[step].by = "all" /\ Prog[step].batch = 0
      BY <2>5 DEF Everywhere
    <3>2. /\ job # NoJobs /\ \A n \in Node : job[n] \in {"none", "ok", "fail"}
          /\ Conclude(\A n \in Node : job[n] # "fail")
      BY <1>5, <2>1, <3>1, ConcludeCases
    <3>3. \A n \in Node : job[n] # "fail"  BY <2>1, <3>2 DEF Conclude
    <3>4. \A n \in Node : job[n] # "none"  BY <3>1, <3>2 DEF JobInv, AllInv
    <3>5. \A n \in Node : n \in installed  BY <3>1, <3>2, <3>3, <3>4 DEF JobInv, OkInv
    <3> QED  BY <3>5 DEF TypeOK
  <2> QED  BY <1>2, <2>3, <2>4, <2>5
<1> QED  BY <1>3, <1>4, <1>5

\* For every orchestration that has a step which applies the highstate to all
\* the minions and not in batches, a run without a failed step has brought up
\* every node.
THEOREM SuccessIsComplete ==
  ASSUME NEW CONSTANT s, Everywhere(Prog, s)
  PROVE  Spec => []SuccessMeansInstalled
<1> DEFINE Inv == TypeOK /\ JobInv /\ PkiInv /\ SuccessInv(s)
<1>1. Init => Inv
  <2>1. Init => SuccessInv(s)
    BY ProgAssumption DEF Init, SuccessInv, Everywhere, Steps, ProgAssumption
  <2> QED  BY <2>1, TypeInit, InvInit
<1>2. Inv /\ [Next]_vars => Inv'
  <2> SUFFICES ASSUME Inv, [Next]_vars PROVE Inv'
    OBVIOUS
  <2>1. TypeOK'  BY TypeNext
  <2>2. CASE Next  BY <2>1, <2>2, JobNext, PkiNext, SuccessNext
  <2>3. CASE UNCHANGED vars
    BY <2>1, <2>3 DEF vars, JobInv, JobsInv, TaskInv, RoleInv, AllInv, OkInv, PkiInv,
       SuccessInv, Runnable, Formed
  <2> QED  BY <2>2, <2>3
<1>3. Inv => SuccessMeansInstalled  BY DEF SuccessInv, SuccessMeansInstalled
<1> QED  BY <1>1, <1>2, <1>3, PTL DEF Spec

-------------------------------------------------------------------------------
(* kubernetes.sls has those features *)

\* The parts of the orchestration are sequences over some set of steps.
LEMMA PartsOfKubernetes ==
  \E S : /\ PrepareSteps \in Seq(S) /\ Len(PrepareSteps) = 9
         /\ PkiSteps \in Seq(S) /\ Len(PkiSteps) = 6
         /\ ClusterSteps \in Seq(S) /\ Len(ClusterSteps) = 6
         /\ FlagSteps \in Seq(S) /\ Len(FlagSteps) = 2
<1> DEFINE S1 == {PrepareSteps[i] : i \in 1..9}
           S2 == {PkiSteps[i] : i \in 1..6}
           S3 == {ClusterSteps[i] : i \in 1..6}
           S4 == {FlagSteps[i] : i \in 1..2}
           S  == S1 \cup S2 \cup S3 \cup S4
<1>1. PrepareSteps \in Seq(S1) /\ Len(PrepareSteps) = 9  BY DEF PrepareSteps
<1>2. PkiSteps \in Seq(S2) /\ Len(PkiSteps) = 6  BY DEF PkiSteps
<1>3. ClusterSteps \in Seq(S3) /\ Len(ClusterSteps) = 6  BY DEF ClusterSteps
<1>4. FlagSteps \in Seq(S4) /\ Len(FlagSteps) = 2  BY DEF FlagSteps
<1> HIDE DEF S1, S2, S3, S4
<1>5. /\ PrepareSteps \in Seq(S) /\ PkiSteps \in Seq(S)
      /\ ClusterSteps \in Seq(S) /\ FlagSteps \in Seq(S)
  BY <1>1, <1>2, <1>3, <1>4
<1> QED  BY <1>1, <1>2, <1>3, <1>4, <1>5

\* Where the elements of a concatenation come from.
LEMMA ConcatAt ==
  ASSUME NEW S, NEW p \in Seq(S), NEW q \in Seq(S)
  PROVE  /\ p \o q \in Seq(S) /\ Len(p \o q) = Len(p) + Len(q)
         /\ \A i \in 1..Len(p) : (p \o q)[i] = p[i]
         /\ \A i \in 1..Len(q) : (p \o q)[Len(p) + i] = q[i]
OBVIOUS

\* Steps put before or after keep the masters first.
LEMMA MastersFirstConcat ==
  ASSUME NEW S, NEW p \in Seq(S), NEW q \in Seq(S), MastersFirst(p), MastersFirst(q)
  PROVE  p \o q \in Seq(S) /\ MastersFirst(p \o q)
<1>1. \A s \in 1..Len(p \o q) :
        \/ \E i \in 1..Len(p) : (p \o q)[s] = p[i]
        \/ \E i \in 1..Len(q) : (p \o q)[s] = q[i]
  <2> SUFFICES ASSUME NEW s \in 1..Len(p \o q)
               PROVE  \/ s \in 1..Len(p)
                      \/ \E i \in 1..Len(q) : s = Len(p) + i
    BY ConcatAt
  <2>1. s \in 1..(Len(p) + Len(q)) /\ Len(p) \in Nat /\ Len(q) \in Nat  BY ConcatAt
  <2>2. s \notin 1..Len(p) => s - Len(p) \in 1..Len(q) /\ s = Len(p) + (s - Len(p))
    BY <2>1
  <2> QED  BY <2>2
<1> DEFINE Good(r) ==
             /\ r.id = "kube-master-setup" =>
                  /\ r.kind = "state" /\ r.fun = "highstate"
                  /\ r.by = "roles" /\ r.roles = {"kube-master"}
             /\ r.id \in {"kube-minion-setup", "running-all-state-apply"} =>
                  "kube-master-setup" \in r.require
<1>2. \A P : MastersFirst(P) <=> \A s \in 1..Len(P) : Good(P[s])  BY DEF MastersFirst
<1> HIDE DEF Good
<1>3. MastersFirst(p \o q)  BY <1>1, <1>2, Zenon
<1>4. p \o q \in Seq(S)  BY ConcatAt
<1> QED  BY <1>3, <1>4

\* The orchestration of the repository is one the theorems above apply to.
THEOREM KubernetesQualifies ==
  /\ EndsByClearing(KubernetesSls)
  /\ MastersFirst(KubernetesSls)
  /\ Everywhere(KubernetesSls, 21)
<1>1. PICK S : /\ PrepareSteps \in Seq(S) /\ Len(PrepareSteps) = 9
               /\ PkiSteps \in Seq(S) /\ Len(PkiSteps) = 6
               /\ ClusterSteps \in Seq(S) /\ Len(ClusterSteps) = 6
               /\ FlagSteps \in Seq(S) /\ Len(FlagSteps) = 2
  BY PartsOfKubernetes
<1>2. MastersFirst(PrepareSteps)
  <2>1. /\ PrepareSteps[1].id = "set-bootstrap-in-progress-flag"
        /\ PrepareSteps[2].id = "sync-pillar"
        /\ PrepareSteps[3].id = "update-pillar"
        /\ PrepareSteps[4].id = "update-grains"
        /\ PrepareSteps[5].id = "update-mine"
        /\ PrepareSteps[6].id = "update-modules"
        /\ PrepareSteps[7].id = "salt-master-setup"
        /\ PrepareSteps[8].id = "salt-minion-sls"
        /\ PrepareSteps[9].id = "update-mine-two"
    BY DEF PrepareSteps, Fn, St, StAll
  <2>2. \A s \in 1..9 : PrepareSteps[s].id \notin
          {"kube-master-setup", "kube-minion-setup", "running-all-state-apply"}
    BY <2>1
  <2> QED  BY <1>1, <2>2 DEF MastersFirst
<1>3. MastersFirst(PkiSteps)  BY DEF PkiSteps, MastersFirst, Fn, St
<1>4. MastersFirst(ClusterSteps)  BY DEF ClusterSteps, MastersFirst, St, StAll
<1>5. MastersFirst(FlagSteps)  BY DEF FlagSteps, MastersFirst, Fn, FlagFn
<1>6. MastersFirst(KubernetesSls)
  BY <1>1, <1>2, <1>3, <1>4, <1>5, MastersFirstConcat DEF KubernetesSls
<1>7. Len(KubernetesSls) = 23 /\ KubernetesSls[23] = FlagSteps[2]
      /\ KubernetesSls[21] = ClusterSteps[6]
  <2> DEFINE p == PrepareSteps \o PkiSteps
             q == p \o ClusterSteps
             r == q \o FlagSteps
  <2>1. /\ PrepareSteps \in Seq(S) /\ PkiSteps \in Seq(S)
        /\ ClusterSteps \in Seq(S) /\ FlagSteps \in Seq(S)
    BY <1>1
  <2>2. p \in Seq(S) /\ Len(p) = Len(PrepareSteps) + Len(PkiSteps)
    BY <2>1, ConcatAt
  <2> HIDE DEF p
  <2>p. p \in Seq(S)  BY <2>2
  <2>3. /\ q \in Seq(S) /\ Len(q) = Len(p) + Len(ClusterSteps)
        /\ \A i \in 1..Len(ClusterSteps) : q[Len(p) + i] = ClusterSteps[i]
    BY <2>1, <2>p, ConcatAt
  <2> HIDE DEF q
  <2>q. q \in Seq(S)  BY <2>3
  <2>4. /\ Len(r) = Len(q) + Len(FlagSteps)
        /\ \A i \in 1..Len(q) : r[i] = q[i]
        /\ \A i \in 1..Len(FlagSteps) : r[Len(q) + i] = FlagSteps[i]
    BY <2>1, <2>q, ConcatAt
  <2> HIDE DEF r
  <2>5. Len(p) = 9 + 6 /\ Len(q) = Len(p) + 6 /\ Len(r) = Len(q) + 2
    BY <1>1, <2>2, <2>3, <2>4, Zenon
  <2>6. \A a, b, c : a = 9 + 6 /\ b = a + 6 /\ c = b + 2 =>
          a = 15 /\ b = 21 /\ c = 23
    OBVIOUS
  <2>7. Len(p) = 15 /\ Len(q) = 21 /\ Len(r) = 23  BY <2>5, <2>6, Zenon
  <2>8. /\ 21 \in 1..21 /\ 6 \in 1..6 /\ 2 \in 1..2
        /\ 15 + 6 = 21 /\ 21 + 2 = 23
    OBVIOUS
  <2>9. q[15 + 6] = ClusterSteps[6]  BY <1>1, <2>3, <2>7, <2>8, Zenon
  <2>10. r[21] = q[21] /\ r[21 + 2] = FlagSteps[2]  BY <1>1, <2>4, <2>7, <2>8, Zenon
  <2>11. r = KubernetesSls  BY DEF p, q, r, KubernetesSls
  <2> QED  BY <2>7, <2>8, <2>9, <2>10, <2>11, Zenon
<1>8. FlagSteps[2] = FlagFn("clear-bootstrap-in-progress-flag", "delInProgress", {})
  BY DEF FlagSteps
<1>9. EndsByClearing(KubernetesSls)  BY <1>7, <1>8 DEF EndsByClearing, FlagFn, Fn
<1>10. /\ ClusterSteps[6].kind = "state" /\ ClusterSteps[6].fun = "highstate"
       /\ ClusterSteps[6].by = "all" /\ ClusterSteps[6].batch = 0
  BY DEF ClusterSteps, StAll, St
<1>11. Everywhere(KubernetesSls, 21)  BY <1>7, <1>10 DEF Everywhere
<1> QED  BY <1>6, <1>9, <1>11
===============================================================================
