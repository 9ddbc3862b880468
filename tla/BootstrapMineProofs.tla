------------------------- MODULE BootstrapMineProofs --------------------------
(***************************************************************************)
(* What the mine holds when it is read: theorems about Bootstrap, for      *)
(* every set of minions, assignment of roles and bounds, and for every     *)
(* orchestration that updates the mine where kubernetes.sls does.          *)
(***************************************************************************)
EXTENDS BootstrapProofs

-------------------------------------------------------------------------------
(* What the theorems need of the orchestration *)

\* kubernetes.sls:6-49: before anything else is done step m collects the
\* addresses of all minions, whose pillars step p has refreshed, and its
\* requisites fail only where nobody answers.
CollectsFirst(P, p, m) ==
  /\ p \in 1..Len(P) /\ m \in 1..Len(P) /\ p < m
  /\ P[p].kind = "function" /\ P[p].fun = "refresh_pillar" /\ P[p].by = "all"
  /\ P[m].kind = "function" /\ P[m].fun = "mine.update" /\ P[m].by = "all"
  /\ \A s \in 1..m :
       /\ P[s].kind \in {"function", "runner"}
       /\ \A t \in 1..(s-1) :
            P[t].id \in P[s].require => P[t].kind = "runner" \/ P[t].by = "all"

-------------------------------------------------------------------------------
(* One etcd cluster *)

\* The requisites of the steps up to m that have come up have succeeded.
EarlyPassed(m) ==
  \A s \in step..m : \A t \in 1..(step - 1) :
    Prog[t].id \in Prog[s].require => Prog[t].id \in passed

\* Until the mine holds all addresses nothing has happened on the minions.
Quiet(p, m) ==
  /\ step \in 0..m /\ job = NoJobs
  /\ \A n \in Node : /\ minion[n] = "up" /\ task[n] \in {<<>>, <<"services">>}
                     /\ wal[n] = {} /\ unit[n] = {}
  /\ pki = {} /\ mine.pki = {}
  /\ step # 0 => EarlyPassed(m)
  /\ step > p => pillar = Node

\* etcd is configured with no other list than that of all members.
ListInv ==
  \A n \in Node : unit[n] \in {{}, Etcd} /\ wal[n] \in {{}, Etcd}

MineInv(p, m) ==
  Prompt /\ downs = 0 /\ Needs(CA) # {} =>
    (mine.addr = Node \/ Quiet(p, m)) /\ ListInv

\* The deployment has a CA, so it has a minion.
LEMMA CANode == CA \in Node /\ With("ca") = {CA}
BY OneCA DEF CA, With

\* A minion without a secret to look up has nothing but services in its highstate.
LEMMA PlainHighstate ==
  ASSUME NEW n \in Node, Needs(n) = {}, n # CA
  PROVE  Highstate(n) = <<"services">>
<1>1. n \notin Etcd  BY DEF Needs, Etcd, With
<1>2. Highstate(n) = <<>> \o <<>> \o <<>> \o <<"services">> \o <<>>
  BY <1>1 DEF Highstate
<1> QED  BY <1>2

LEMMA QuietRunner ==
  ASSUME TypeOK, NEW p, NEW m, CollectsFirst(Prog, p, m), Prompt, Quiet(p, m), mine.addr # Node,
         Start \/ Runner \/ Kill
  PROVE  mine'.addr = Node \/ Quiet(p, m)'
<1>1. m \in Nat /\ p \in Nat /\ p >= 1 /\ p < m /\ m <= Len(Prog) /\ Len(Prog) \in Nat
      /\ step \in Nat /\ step <= m
  BY ProgAssumption DEF CollectsFirst, ProgAssumption, Quiet
<1>2. CASE Start
  <2>1. step' = 1 /\ \A s \in step'..m : \A t \in 1..(step' - 1) : FALSE
    BY <1>2 DEF Start
  <2> QED
    BY <1>1, <1>2, <2>1 DEF Start, Quiet, EarlyPassed, process, disk
<1>3. CASE Kill
  BY <1>1, <1>3 DEF Kill, Interrupt, Quiet, process, disk
<1>4. CASE Runner
  <2>0. step # 0
    BY <1>4 DEF Runner, Skip, CallFunction, Dispatch, DispatchNobody, Collect
  <2>1. step # 0 /\ step \in 1..m /\ step \in Steps  BY <1>1, <2>0 DEF Steps
  <2>2. Prog[step].kind \in {"function", "runner"}  BY <2>1 DEF CollectsFirst
  <2>3. Runnable(step)
    <3>1. Prog[step].require \subseteq {Prog[t].id : t \in 1..(step-1)}
      BY <2>1, ProgAssumption DEF ProgAssumption
    <3>2. step \in step..m  BY <1>1, <2>1
    <3> QED  BY <2>1, <3>1, <3>2 DEF Quiet, EarlyPassed, Runnable
  <2>4. CallFunction
    BY <1>4, <2>2, <2>3 DEF Runner, Skip, Dispatch, DispatchNobody, Collect
  <2> DEFINE T  == {n \in Target(step) : Answers(n)}
             ok == Prog[step].kind = "runner" \/ T # {}
  <2>5. T \subseteq Node /\ (Prog[step].by = "all" => T = Node)
    <3>1. \A n \in Node : Answers(n)  BY DEF Quiet, Answers
    <3> QED  BY <2>1, <3>1, TargetType DEF Target
  <2>6. /\ Conclude(ok)
        /\ pillar' = IF Prog[step].fun = "refresh_pillar" THEN pillar \cup T ELSE pillar
        /\ mine' = IF Prog[step].fun = "mine.update" THEN Mined(T) ELSE mine
        /\ UNCHANGED <<job, minion, task, disk>>
    BY <2>4 DEF CallFunction
  <2> HIDE DEF T
  <2>7. mine'.pki = {}
    <3>1. Mined(T).pki = {}  BY DEF Mined, Quiet
    <3> QED  BY <2>6, <3>1 DEF Quiet
  <2>8. CASE step = m
    <3>1. pillar = Node /\ T = Node  BY <1>1, <2>5, <2>8 DEF Quiet, CollectsFirst
    <3>2. mine' = Mined(Node)  BY <2>6, <2>8, <3>1 DEF CollectsFirst
    <3>3. Mined(Node).addr = mine.addr \cup Node  BY <3>1 DEF Mined
    <3> QED  BY <3>2, <3>3 DEF TypeOK
  <2>9. CASE step # m
    <3>1. step' = step + 1 /\ step' \in 1..m  BY <1>1, <2>1, <2>6, <2>9 DEF Conclude
    <3>2. EarlyPassed(m)'
      <4> SUFFICES ASSUME NEW s \in step'..m, NEW t \in 1..(step' - 1),
                          Prog[t].id \in Prog[s].require
                   PROVE  Prog[t].id \in passed'
        BY DEF EarlyPassed
      <4>1. /\ s \in step..m /\ s \in 1..m /\ t \in 1..(s-1) /\ t \in 1..step
            /\ s \in (step + 1)..Len(Prog)
        BY <1>1, <2>1, <3>1
      <4>2. Prog[t].id \in Pending(step + 1)  BY <4>1 DEF Pending
      <4>3. CASE t \in 1..(step - 1)
        <5>1. Prog[t].id \in passed  BY <2>1, <4>1, <4>3 DEF Quiet, EarlyPassed
        <5> QED  BY <2>6, <4>2, <5>1 DEF Conclude
      <4>4. CASE t = step
        <5>1. Prog[step].kind = "runner" \/ Prog[step].by = "all"
          BY <4>1, <4>4 DEF CollectsFirst
        <5>2. ok  BY <2>5, <5>1, CANode
        <5> QED  BY <2>6, <4>2, <4>4, <5>2 DEF Conclude
      <4> QED  BY <1>1, <2>1, <4>1, <4>3, <4>4
    <3>3. step' > p => pillar' = Node
      <4>1. CASE step = p  BY <2>5, <2>6, <4>1 DEF CollectsFirst, TypeOK
      <4>2. CASE step # p
        <5>1. step' > p => pillar = Node  BY <1>1, <2>1, <3>1, <4>2 DEF Quiet
        <5> QED  BY <2>5, <2>6, <5>1
      <4> QED  BY <4>1, <4>2
    <3>4. step' \in 0..m  BY <1>1, <3>1
    <3> QED  BY <2>6, <2>7, <3>2, <3>3, <3>4 DEF Quiet, disk
  <2> QED  BY <2>8, <2>9
<1> QED  BY <1>2, <1>3, <1>4

LEMMA QuietMinion ==
  ASSUME TypeOK, NEW p, NEW m, CollectsFirst(Prog, p, m), Quiet(p, m), Needs(CA) # {},
         NEW n \in Node, downs' = downs,
         \/ StartJob(n) \/ RunTask(n) \/ ScheduledHighstate(n) \/ MinePush(n)
         \/ RefreshPillar(n) \/ RestartMinion(n) \/ StartMinion(n) \/ BootEtcd(n)
         \/ HostDown(n)
  PROVE  Quiet(p, m)'
<1>1. /\ job[n] = "none" /\ minion[n] = "up" /\ unit[n] = {}
      /\ task[n] # <<>> => task[n] = <<"services">>
  BY DEF Quiet, NoJobs
<1>2. ~StartJob(n) /\ ~StartMinion(n) /\ ~BootEtcd(n)
  BY <1>1 DEF StartJob, StartMinion, BootEtcd
<1>3. ~HostDown(n)  BY DEF HostDown, TypeOK
<1>4. Head(<<"services">>) = "services" /\ Tail(<<"services">>) = <<>>  OBVIOUS
<1>5. ~RestartMinion(n)  BY <1>1, <1>4 DEF RestartMinion, Listening, Idle
<1>6. CASE RunTask(n)
  <2>1. MasterUp  BY DEF MasterUp, HostUp, With, Quiet
  <2>2. task[n] = <<"services">>  BY <1>1, <1>6, TaskFrame DEF Idle
  <2>3. StartServices(n)
    BY <1>4, <1>6, <2>1, <2>2 DEF RunTask, RunWithoutMaster, CreatePki, CreateSaKey,
       SignCert, WriteUnit, StartEtcd, ActOnListen, Listening, ConfigureMinion,
       WaitForCoredns, RunOther, Working
  <2>4. PICK ok \in BOOLEAN : Finish(n, ok)  BY <1>6, TaskFrame
  <2>5. job' = job /\ task' = [task EXCEPT ![n] = <<>>]
    BY <1>1, <1>4, <2>2, <2>4 DEF Finish
  <2>6. UNCHANGED <<step, passed, minion, pillar, pki, wal, unit, mine>>
    BY <2>3 DEF StartServices, engine, process
  <2> QED  BY <2>5, <2>6 DEF Quiet, EarlyPassed, TypeOK
<1>7. CASE ScheduledHighstate(n)
  <2>1. Needs(n) = {} /\ n # CA
    BY <1>7 DEF ScheduledHighstate, Renders, Quiet
  <2>2. task' \in {task, [task EXCEPT ![n] = <<"services">>]}
    BY <1>7, <2>1, PlainHighstate DEF ScheduledHighstate, OwnHighstate
  <2>3. UNCHANGED <<step, passed, job, minion, pillar, pki, wal, unit, mine>>
    BY <1>7 DEF ScheduledHighstate, engine, process, disk
  <2> QED  BY <2>2, <2>3 DEF Quiet, EarlyPassed, TypeOK
<1>9. CASE RefreshPillar(n)
  <2>1. pillar' \in {pillar, pillar \cup {n}}  BY <1>9 DEF RefreshPillar
  <2>2. UNCHANGED <<step, passed, job, minion, task, mine, pki, wal, unit>>
    BY <1>9 DEF RefreshPillar, engine, disk
  <2> QED  BY <2>1, <2>2 DEF Quiet, EarlyPassed
<1>8. CASE MinePush(n)
  <2>1. mine'.pki = {}  BY <1>8 DEF MinePush, Mined, Quiet
  <2>2. UNCHANGED <<step, passed, job, minion, task, pillar, pki, wal, unit>>
    BY <1>8 DEF MinePush, engine, process, disk
  <2> QED  BY <2>1, <2>2 DEF Quiet, EarlyPassed
<1> QED  BY <1>2, <1>3, <1>5, <1>6, <1>7, <1>8, <1>9

\* A list that is written when all addresses are known is that of all members, and
\* none is written before.
LEMMA ListStep ==
  ASSUME TypeOK, NEW p, NEW m, mine.addr = Node \/ Quiet(p, m), ListInv, Next,
         mine'.addr = Node \/ Quiet(p, m)'
  PROVE  ListInv'
<1>0. Etcd \subseteq Node /\ Etcd' = Etcd  BY DEF Etcd, With
<1>1. ASSUME NEW n \in Node, RunTask(n) PROVE ListInv'
  <2>1. wal' = wal /\ mine' = mine
        /\ unit' \in {unit, [unit EXCEPT ![n] = mine.addr \cap Etcd]}
    BY <1>1, TaskFrame
  <2>2. CASE mine.addr = Node
    <3>1. unit' \in {unit, [unit EXCEPT ![n] = Etcd]}
      <4>1. mine.addr \cap Etcd = Etcd  BY <1>0, <2>2
      <4> QED  BY <2>1, <4>1
    <3> QED  BY <1>0, <2>1, <3>1 DEF ListInv, TypeOK
  <2>3. CASE mine.addr # Node
    <3>1. Quiet(p, m)'  BY <2>1, <2>3
    <3> QED  BY <3>1 DEF Quiet, ListInv
  <2> QED  BY <2>2, <2>3
<1>2. ASSUME NEW n \in Node, BootEtcd(n) PROVE ListInv'
  <2>1. unit[n] = Etcd  BY <1>2 DEF BootEtcd, ListInv
  <2>2. unit' = unit /\ wal' = [wal EXCEPT ![n] = Etcd]  BY <1>2, <2>1 DEF BootEtcd
  <2> QED  BY <1>0, <2>2 DEF ListInv, TypeOK
<1>3. CASE Start \/ Runner \/ Kill
  <2>1. wal' = wal /\ unit' = unit
    BY <1>3 DEF Start, Runner, Skip, CallFunction, Dispatch, DispatchNobody, Collect, Kill,
       disk
  <2> QED  BY <1>0, <2>1 DEF ListInv
<1>4. ASSUME NEW n \in Node,
             \/ StartJob(n) \/ ScheduledHighstate(n) \/ MinePush(n)
             \/ RefreshPillar(n) \/ RestartMinion(n) \/ StartMinion(n) \/ HostDown(n)
      PROVE  ListInv'
  <2>1. wal' = wal /\ unit' = unit
    BY <1>4 DEF StartJob, ScheduledHighstate, MinePush, RefreshPillar, RestartMinion,
       StartMinion,
       HostDown, disk
  <2> QED  BY <1>0, <2>1 DEF ListInv
<1> QED  BY <1>1, <1>2, <1>3, <1>4 DEF Next

\* The mine forgets nothing, and no host comes back uncounted.
LEMMA Monotone ==
  ASSUME TypeOK, Next
  PROVE  /\ mine.addr \subseteq mine'.addr /\ mine.pki \subseteq mine'.pki
         /\ pillar \subseteq pillar' /\ policy \subseteq policy'
         /\ pki = Secret => pki' = Secret
         /\ downs' = 0 => downs = 0
<1>0. \A N : mine.addr \subseteq Mined(N).addr /\ mine.pki \subseteq Mined(N).pki
  BY DEF Mined
<1>1. CASE Start \/ Runner \/ Kill
  <2>1. CASE CallFunction
    <3>1. /\ mine' = mine \/ \E N : mine' = Mined(N)
          /\ pillar' = pillar \/ \E N : pillar' = pillar \cup N
          /\ UNCHANGED <<policy, pki, downs>>
      BY <2>1 DEF CallFunction, disk
    <3> QED  BY <1>0, <3>1
  <2>2. CASE ~CallFunction
    BY <1>1, <2>2 DEF Start, Runner, Skip, Dispatch, DispatchNobody, Collect, Kill, process,
       disk
  <2> QED  BY <2>1, <2>2
<1>2. ASSUME NEW n \in Node, RunTask(n)
      PROVE  /\ mine' = mine /\ pillar' = pillar /\ policy \subseteq policy'
             /\ pki = Secret => pki' = Secret
             /\ downs' = downs
  BY <1>2, TaskFrame DEF Secret
<1>3. ASSUME NEW n \in Node, MinePush(n)
      PROVE  /\ mine' = Mined({n})
             /\ UNCHANGED <<pillar, policy, pki, downs>>
  BY <1>3 DEF MinePush, process, disk
<1>4. ASSUME NEW n \in Node,
             \/ StartJob(n) \/ ScheduledHighstate(n)
             \/ RestartMinion(n) \/ StartMinion(n) \/ BootEtcd(n)
      PROVE  /\ mine' = mine /\ pillar \subseteq pillar'
             /\ UNCHANGED <<policy, pki, downs>>
  BY <1>4 DEF StartJob, ScheduledHighstate, RestartMinion, StartMinion, BootEtcd, process,
     disk
<1>5. ASSUME NEW n \in Node, HostDown(n)
      PROVE  /\ mine' = mine /\ UNCHANGED <<pillar, policy, pki>> /\ downs' # 0
  BY <1>5 DEF HostDown, TypeOK, disk
<1>6. ASSUME NEW n \in Node, RefreshPillar(n)
      PROVE  /\ pillar \subseteq pillar'
             /\ UNCHANGED <<mine, policy, pki, downs>>
  BY <1>6 DEF RefreshPillar, disk
<1> QED  BY <1>0, <1>1, <1>2, <1>3, <1>4, <1>5, <1>6 DEF Next

LEMMA MineStep ==
  ASSUME TypeOK, NEW p, NEW m, CollectsFirst(Prog, p, m), MineInv(p, m), [Next]_vars
  PROVE  MineInv(p, m)'
<1> SUFFICES ASSUME Prompt, downs' = 0, Needs(CA) # {}
             PROVE  (mine'.addr = Node \/ Quiet(p, m)') /\ ListInv'
  BY DEF MineInv, Needs, CA, With, Master
<1>1. CASE UNCHANGED vars
  BY <1>1 DEF vars, MineInv, Quiet, EarlyPassed, ListInv, Etcd, With, NoJobs
<1>2. CASE Next
  <2>1. downs = 0 /\ mine.addr \subseteq mine'.addr  BY <1>2, Monotone
  <2>2. (mine.addr = Node \/ Quiet(p, m)) /\ ListInv  BY <2>1 DEF MineInv
  <2>3. mine'.addr = Node \/ Quiet(p, m)'
    <3>1. mine'.addr \subseteq Node  BY <1>2, TypeNext DEF TypeOK
    <3>2. CASE mine.addr = Node  BY <2>1, <3>1, <3>2
    <3>3. CASE mine.addr # Node
      BY <1>2, <2>1, <2>2, <3>3, QuietRunner, QuietMinion DEF Next
    <3> QED  BY <3>2, <3>3
  <2> QED  BY <1>2, <2>2, <2>3, ListStep
<1> QED  BY <1>1, <1>2

\* In a bootstrap without a crash in which the minions refresh their pillars in
\* time, all members of etcd bootstrap with one and the same initial cluster, for
\* every orchestration that first collects everybody's
\* address: update-mine, before ca-setup makes certificates possible.
THEOREM OneCluster ==
  ASSUME NEW p, NEW m, CollectsFirst(Prog, p, m)
  PROVE  Spec => []OneEtcdCluster
<1>1. Init => MineInv(p, m)
  <2> SUFFICES ASSUME Init PROVE Quiet(p, m) /\ ListInv
    BY DEF MineInv
  <2>1. p \in Nat /\ m \in Nat /\ p >= 1  BY ProgAssumption DEF CollectsFirst, ProgAssumption
  <2> QED  BY <2>1 DEF Init, Quiet, ListInv, NoJobs
<1>2. TypeOK /\ MineInv(p, m) /\ [Next]_vars => MineInv(p, m)'  BY MineStep
<1>3. MineInv(p, m) => OneEtcdCluster
  BY DEF MineInv, ListInv, OneEtcdCluster, Etcd, With
<1> QED  BY <1>1, <1>2, <1>3, TypeCorrect, PTL DEF Spec

-------------------------------------------------------------------------------
(* The secrets of the CA *)

\* kubernetes.sls:51-107: step c creates the CA, u updates the mine, g creates the
\* service account key and v updates the mine again, with nothing but functions
\* between them; a step that applies a highstate requires v, or another one that
\* does.
Publishes(P, c, u, g, v) ==
  /\ c \in 1..Len(P) /\ v \in 1..Len(P)
  /\ u \in (c+1)..v /\ g \in (u+1)..(v-1)
  /\ \A s, t \in 1..Len(P) : P[s].id = P[t].id => s = t
  /\ \A s \in {c, g} : P[s].kind = "state" /\ P[s].by = "roles" /\ P[s].roles = {"ca"}
  /\ P[c].fun = "caserver.initca" /\ P[g].fun = "caserver.generate-serviceaccount-key"
  /\ \A s \in {u, v} : P[s].kind = "function" /\ P[s].by = "all"
  /\ P[u].fun = "mine.update" /\ P[v].fun = "mine.update"
  /\ P[u].require \subseteq {P[c].id}
  /\ P[c].id \in P[g].require /\ P[g].id \in P[v].require
  /\ \A s \in (c+1)..v : s # g => P[s].kind # "state"
  /\ \A s \in 1..Len(P) : P[s].fun = "highstate" =>
       \E t \in 1..Len(P) : P[t].id \in P[s].require /\ (t = v \/ P[t].fun = "highstate")

\* The chunks after which a minion goes on without a restart.
Lasting == Chunk \ {"listen", "minion"}

\* The CA has its secrets, and nothing it is doing will restart its minion.
Ready == pki = Secret /\ CA \in policy /\ task[CA] \in Seq(Lasting)

\* Another update of the mine finds the CA, if one is needed.
Fresh == mine.pki = Secret \/ (minion[CA] = "up" /\ CA \in pillar)

UpInv == \A n \in Node : minion[n] # "down"

\* Only earlier steps of the run have succeeded.
PastInv == step # 0 => passed \subseteq {Prog[t].id : t \in 1..(step - 1)}

\* ca-setup on the CA: the run creates the secrets before it may restart the minion.
CaInv(c) ==
  step = c =>
    /\ job[CA] = "run" => \/ task[CA] = <<"pki">> /\ CA \in policy
                          \/ task[CA] = <<"pki", "listen">>
                          \/ task[CA] = <<"listen">> /\ pki = Secret /\ CA \in policy
    /\ job[CA] = "ok" => Ready

\* From there to the key: the update of the mine reaches the CA or finds it being
\* restarted, and it will not be restarted once more.
AfterCa(c, u, g) ==
  step \in (c+1)..g /\ Prog[c].id \in passed =>
    /\ Ready
    /\ step > u => mine.pki = Secret \/ minion[CA] # "reload"

\* A CA that has received the run for the key has been restarted before it.
KeyInv(g) == step = g /\ job[CA] \in {"run", "ok"} => Fresh

AfterKey(g, v) == step \in (g+1)..v /\ Prog[g].id \in passed => Ready /\ Fresh

LateInv(v) ==
  \A t \in Steps : Prog[t].id \in passed /\ (t = v \/ Prog[t].fun = "highstate") =>
    mine.pki = Secret

SecInv(c, u, g, v) ==
  downs = 0 =>
    UpInv /\ CaInv(c) /\ AfterCa(c, u, g) /\ KeyInv(g) /\ AfterKey(g, v) /\ LateInv(v)

\* The chunks that leave the signing policies of a node alone.
Plain == Chunk \ {"pki", "sakey", "cert"}

EndsInRestart(t) == t # <<>> /\ t[Len(t)] = "listen"

\* A run that writes the signing policies ends by restarting the minion, and a
\* minion that starts compiles its pillar: a CA that has its policies has a current
\* pillar, unless that restart is still ahead.
StartedInv ==
  /\ CA \in policy =>
       \/ CA \in pillar \/ minion[CA] \in {"starting", "down"}
       \/ EndsInRestart(task[CA])
  /\ CA \notin policy => task[CA] \in Seq(Plain) \/ EndsInRestart(task[CA])

LEMMA CaRoles ==
  ASSUME NEW n \in Node, Roles[n] \cap {"ca"} # {}
  PROVE  n = CA
BY CANode DEF With

\* Sequences of lasting chunks.
LEMMA LastingSeq ==
  /\ <<>> \in Seq(Lasting) /\ <<"sakey">> \in Seq(Lasting)
  /\ CA \in policy => /\ Highstate(CA) \in Seq(Lasting) /\ Listen(CA) = <<>>
                      /\ <<"pki">> \o Listen(CA) = <<"pki">>
                      /\ <<"sakey">> \o Listen(CA) \in Seq(Lasting)
  /\ \A s \in Seq(Lasting) : s # <<>> =>
       Tail(s) \in Seq(Lasting) /\ Head(s) # "listen" /\ Head(s) # "minion"
<1>1. /\ <<>> \in Seq(Lasting) /\ <<"pki">> \in Seq(Lasting) /\ <<"sakey">> \in Seq(Lasting)
      /\ <<"cert">> \in Seq(Lasting) /\ <<"unit", "etcd">> \in Seq(Lasting)
      /\ <<"services">> \in Seq(Lasting)
  BY DEF Lasting, Chunk
<1>2. ASSUME CA \in policy
      PROVE  /\ Listen(CA) = <<>>
             /\ <<"pki">> \o Listen(CA) = <<"pki">>
             /\ <<"sakey">> \o Listen(CA) \in Seq(Lasting)
  BY <1>1, <1>2 DEF Listen
<1>3. ASSUME CA \in policy PROVE Highstate(CA) \in Seq(Lasting)
  <2> DEFINE ca    == IF CA = CA THEN <<"pki">> ELSE <<>>
             certs == IF Needs(CA) # {} THEN <<"cert">> ELSE <<>>
             etcd  == IF CA \in Etcd THEN <<"unit", "etcd">> ELSE <<>>
             after == IF CA = CA \/ Needs(CA) # {} THEN Listen(CA) ELSE <<>>
  <2>1. /\ ca \in Seq(Lasting) /\ certs \in Seq(Lasting)
        /\ etcd \in Seq(Lasting) /\ after \in Seq(Lasting)
    BY <1>1, <1>2, <1>3, Zenon
  <2>2. Highstate(CA) = ca \o certs \o etcd \o <<"services">> \o after  BY DEF Highstate
  <2> HIDE DEF ca, certs, etcd, after
  <2> QED  BY <1>1, <2>1, <2>2
<1>4. ASSUME NEW s \in Seq(Lasting), s # <<>>
      PROVE  Tail(s) \in Seq(Lasting) /\ Head(s) # "listen" /\ Head(s) # "minion"
  <2>1. Head(s) \in Lasting /\ Tail(s) \in Seq(Lasting)  BY <1>4
  <2> QED  BY <2>1 DEF Lasting
<1> QED  BY <1>1, <1>2, <1>3, <1>4

LEMMA StartedInit == Init => StartedInv
BY CANode DEF Init, StartedInv

\* What follows a chunk that is not the last one ends as the whole run does.
LEMMA EndsTail ==
  ASSUME NEW t \in Seq(Chunk), EndsInRestart(t), Len(t) > 1
  PROVE  EndsInRestart(Tail(t))
<1>1. /\ Len(Tail(t)) = Len(t) - 1
      /\ \A k \in 1..Len(Tail(t)) : Tail(t)[k] = t[k + 1]
  BY HeadTailProperties DEF EndsInRestart
<1>2. Len(t) \in Nat /\ Len(t) - 1 \in 1..(Len(t) - 1) /\ (Len(t) - 1) + 1 = Len(t)
  OBVIOUS
<1>3. Tail(t)[Len(Tail(t))] = t[Len(t)]  BY <1>1, <1>2
<1>4. Tail(t) # <<>>
  <2>1. Len(Tail(t)) >= 1 /\ Len(<<>>) = 0  BY <1>1, <1>2
  <2>2. ~(0 >= 1)  OBVIOUS
  <2> QED  BY <2>1, <2>2, Zenon
<1> QED  BY <1>3, <1>4 DEF EndsInRestart

\* A run on a node without policies ends in a restart or leaves the policies alone.
LEMMA EndsChunks ==
  ASSUME NEW n \in Node, n \notin policy, NEW sls
  PROVE  /\ Chunks(n, sls) \in Seq(Plain) \/ EndsInRestart(Chunks(n, sls))
         /\ n = CA => EndsInRestart(Highstate(n))
<1>0. Listen(n) = <<"listen">>  BY DEF Listen
<1>1. ASSUME NEW s \in Seq(Chunk) PROVE EndsInRestart(s \o <<"listen">>)
  BY DEF EndsInRestart
<1>2. Highstate(n) \in Seq(Plain) \/ EndsInRestart(Highstate(n))
  <2> DEFINE ca    == IF n = CA THEN <<"pki">> ELSE <<>>
             certs == IF Needs(n) # {} THEN <<"cert">> ELSE <<>>
             etcd  == IF n \in Etcd THEN <<"unit", "etcd">> ELSE <<>>
  <2>1. /\ <<>> \in Seq(Chunk) /\ <<"pki">> \in Seq(Chunk) /\ <<"cert">> \in Seq(Chunk)
        /\ <<"unit", "etcd">> \in Seq(Chunk) /\ <<"services">> \in Seq(Chunk)
    BY DEF Chunk
  <2>2. <<>> \in Seq(Plain) /\ <<"unit", "etcd">> \in Seq(Plain) /\ <<"services">> \in Seq(Plain)
    BY DEF Plain, Chunk
  <2>3. ca \in Seq(Chunk) /\ certs \in Seq(Chunk) /\ etcd \in Seq(Chunk) /\ etcd \in Seq(Plain)
    BY <2>1, <2>2, Zenon
  <2>4. n # CA /\ Needs(n) = {} => ca = <<>> /\ certs = <<>>  OBVIOUS
  <2>5. Highstate(n) = ca \o certs \o etcd \o <<"services">>
                         \o (IF n = CA \/ Needs(n) # {} THEN <<"listen">> ELSE <<>>)
    BY <1>0 DEF Highstate
  <2> HIDE DEF ca, certs, etcd
  <2>6. CASE n = CA \/ Needs(n) # {}
    <3>1. ca \o certs \o etcd \o <<"services">> \in Seq(Chunk)  BY <2>1, <2>3
    <3> QED  BY <1>1, <2>5, <2>6, <3>1
  <2>7. CASE n # CA /\ Needs(n) = {}
    <3>1. Highstate(n) = <<>> \o <<>> \o etcd \o <<"services">> \o <<>>
      BY <2>4, <2>5, <2>7
    <3> QED  BY <2>2, <2>3, <3>1
  <2> QED  BY <2>6, <2>7
<1>3. n = CA => EndsInRestart(Highstate(n))
  <2> DEFINE before == (IF n = CA THEN <<"pki">> ELSE <<>>)
                         \o (IF Needs(n) # {} THEN <<"cert">> ELSE <<>>)
                         \o (IF n \in Etcd THEN <<"unit", "etcd">> ELSE <<>>)
                         \o <<"services">>
  <2>1. /\ <<>> \in Seq(Chunk) /\ <<"pki">> \in Seq(Chunk) /\ <<"cert">> \in Seq(Chunk)
        /\ <<"unit", "etcd">> \in Seq(Chunk) /\ <<"services">> \in Seq(Chunk)
    BY DEF Chunk
  <2>2. before \in Seq(Chunk)  BY <2>1
  <2>3. n = CA => Highstate(n) = before \o <<"listen">>  BY <1>0 DEF Highstate
  <2> QED  BY <1>1, <2>2, <2>3
<1>4. \A c \in {"pki", "sakey"} : EndsInRestart(<<c>> \o <<"listen">>)
  BY DEF EndsInRestart
<1>5. /\ <<"unit", "etcd">> \in Seq(Plain) /\ <<"minion">> \in Seq(Plain)
      /\ <<"wait">> \in Seq(Plain) /\ <<"other">> \in Seq(Plain)
  BY DEF Plain, Chunk
<1>6. /\ EndsInRestart(<<"pki">> \o Listen(n)) /\ EndsInRestart(<<"sakey">> \o Listen(n))
  BY <1>0, <1>4
<1> QED  BY <1>2, <1>3, <1>5, <1>6, Zenon DEF Chunks

\* The minions write their policies, restart and start in that order.
LEMMA StartedNext ==
  ASSUME TypeOK, StartedInv, Next
  PROVE  StartedInv'
<1>0. CA \in Node /\ CA' = CA /\ Plain' = Plain  BY CANode DEF CA, With, Plain, Chunk
<1>1. task[CA] \in Seq(Chunk) /\ <<>> \in Seq(Plain)  BY <1>0 DEF TypeOK
<1>2. pillar \subseteq pillar'  BY Monotone
<1>3. CASE policy' = policy /\ minion'[CA] = minion[CA] /\ task'[CA] = task[CA]
  BY <1>0, <1>2, <1>3 DEF StartedInv
<1>4. CASE Start \/ Runner \/ Kill
  BY <1>3, <1>4 DEF Start, Runner, Skip, CallFunction, Dispatch, DispatchNobody, Collect, Kill,
     process, disk
<1>5. ASSUME NEW n \in Node, n # CA,
             \/ StartJob(n) \/ ScheduledHighstate(n) \/ MinePush(n) \/ RefreshPillar(n)
             \/ RestartMinion(n) \/ StartMinion(n) \/ BootEtcd(n) \/ HostDown(n)
      PROVE  StartedInv'
  <2>1. policy' = policy /\ minion'[CA] = minion[CA] /\ task'[CA] = task[CA]
    BY <1>0, <1>5 DEF StartJob, ScheduledHighstate, OwnHighstate, MinePush, RefreshPillar,
       RestartMinion, StartMinion, BootEtcd, HostDown, Abort, process, disk, TypeOK
  <2> QED  BY <1>3, <2>1
<1>6. ASSUME NEW n \in Node, n # CA, RunTask(n) PROVE StartedInv'
  <2>1. /\ policy' \in {policy, policy \cup {n}}
        /\ minion' \in {minion, [minion EXCEPT ![n] = "reload"],
                        [minion EXCEPT ![n] = "starting"]}
    BY <1>6, TaskFrame
  <2>2. PICK ok : Finish(n, ok)  BY <1>6, TaskFrame
  <2>3. (CA \in policy' <=> CA \in policy) /\ minion'[CA] = minion[CA] /\ task'[CA] = task[CA]
    BY <1>0, <1>6, <2>1, <2>2 DEF Finish, TypeOK
  <2> QED  BY <1>0, <1>2, <2>3 DEF StartedInv
<1>7. CASE MinePush(CA) \/ RefreshPillar(CA) \/ BootEtcd(CA)
  BY <1>3, <1>7 DEF MinePush, RefreshPillar, BootEtcd, process, disk
<1>8. CASE StartJob(CA)
  <2>1. policy' = policy /\ minion' = minion
    BY <1>8 DEF StartJob, process, disk
  <2>2. CASE task' = task  BY <1>3, <2>1, <2>2
  <2>3. CASE task' # task
    <3>1. Answers(CA) /\ Idle(CA) /\ task'[CA] = Chunks(CA, Prog[step].fun)
      BY <1>0, <1>8, <2>3 DEF StartJob, TypeOK
    <3>2. CA \in policy => CA \in pillar
      BY <3>1 DEF StartedInv, EndsInRestart, Idle, Answers
    <3> QED  BY <1>0, <1>2, <2>1, <3>1, <3>2, EndsChunks DEF StartedInv
  <2> QED  BY <2>2, <2>3
<1>9. CASE ScheduledHighstate(CA) \/ StartMinion(CA)
  <2>1. policy' = policy /\ CA \in pillar'
    BY <1>2, <1>9 DEF ScheduledHighstate, StartMinion, process, disk
  <2>2. task'[CA] \in {task[CA], Highstate(CA)}
    BY <1>0, <1>9 DEF ScheduledHighstate, StartMinion, OwnHighstate, TypeOK
  <2> QED  BY <1>0, <2>1, <2>2, EndsChunks DEF StartedInv
<1>10. CASE RestartMinion(CA) \/ HostDown(CA)
  <2>1. policy' = policy /\ minion'[CA] \in {"starting", "down"} /\ task'[CA] = <<>>
    BY <1>0, <1>10 DEF RestartMinion, HostDown, Abort, disk, TypeOK
  <2> QED  BY <1>0, <1>1, <2>1 DEF StartedInv
<1>11. CASE RunTask(CA)
  <2> DEFINE t == task[CA]
  <2>1. PICK ok : Finish(CA, ok)  BY <1>0, <1>11, TaskFrame
  <2>2. t # <<>> /\ task'[CA] = Tail(t)  BY <1>0, <1>11, <2>1, TaskFrame DEF Idle, Finish, TypeOK
  <2>3. EndsInRestart(t) =>
          (Tail(t) = <<>> /\ Head(t) = "listen") \/ EndsInRestart(Tail(t))
    <3>1. CASE Len(t) > 1  BY <1>1, <3>1, EndsTail
    <3>2. CASE ~(Len(t) > 1)  BY <1>1, <2>2, <3>2 DEF EndsInRestart
    <3> QED  BY <3>1, <3>2
  <2>4. minion[CA] \notin {"starting", "down"}
    BY <1>11 DEF RunTask, CreatePki, CreateSaKey, SignCert, WriteUnit, StartEtcd,
       StartServices, ActOnListen, Listening, ConfigureMinion, WaitForCoredns, RunOther,
       RunWithoutMaster, Working, Answers
  <2>5. Head(t) \in Plain => policy' = policy
    BY <1>11 DEF RunTask, CreatePki, CreateSaKey, SignCert, WriteUnit, StartEtcd, StartServices,
       ActOnListen, Listening, ConfigureMinion, WaitForCoredns, RunOther, RunWithoutMaster,
       Working, Plain, disk
  <2>6. Head(t) = "listen" /\ CA \in policy => minion'[CA] = "starting"
    BY <1>0, <1>11 DEF RunTask, CreatePki, CreateSaKey, SignCert, WriteUnit, StartEtcd,
       StartServices, ActOnListen, Listening, ConfigureMinion, WaitForCoredns, RunOther,
       RunWithoutMaster, Working, TypeOK
  <2>7. CASE CA \in policy
    <3>1. CA \in policy'  BY <2>7, Monotone
    <3> QED  BY <1>0, <1>2, <2>2, <2>3, <2>4, <2>6, <2>7, <3>1 DEF StartedInv
  <2>8. CASE CA \notin policy /\ t \in Seq(Plain)
    <3>1. Head(t) \in Plain /\ Tail(t) \in Seq(Plain)  BY <2>2, <2>8
    <3> QED  BY <1>0, <2>2, <2>5, <2>8, <3>1 DEF StartedInv
  <2>9. CASE CA \notin policy /\ t \notin Seq(Plain)
    <3>1. EndsInRestart(t)  BY <2>9 DEF StartedInv
    <3>2. CASE Tail(t) = <<>> /\ Head(t) = "listen"
      <4>1. "listen" \in Plain  BY DEF Plain, Chunk
      <4>2. policy' = policy  BY <2>5, <3>2, <4>1
      <4> QED  BY <1>0, <1>1, <2>2, <2>9, <3>2, <4>2 DEF StartedInv
    <3>3. CASE EndsInRestart(Tail(t))  BY <1>0, <2>2, <3>3 DEF StartedInv
    <3> QED  BY <2>3, <3>1, <3>2, <3>3
  <2> QED  BY <2>7, <2>8, <2>9
<1> QED  BY <1>4, <1>5, <1>6, <1>7, <1>8, <1>9, <1>10, <1>11 DEF Next

\* So the CA, once it has its secrets and no restart ahead, has a current pillar or
\* is compiling it.
LEMMA ReadyPillar ==
  ASSUME TypeOK, UpInv, StartedInv, Ready
  PROVE  CA \in pillar \/ minion[CA] = "starting"
<1>1. ~EndsInRestart(task[CA])
  <2>1. task[CA] \in Seq(Lasting) /\ "listen" \notin Lasting  BY DEF Ready, Lasting
  <2> QED  BY <2>1 DEF EndsInRestart
<1> QED  BY <1>1, CANode DEF StartedInv, Ready, UpInv

\* With its secrets and without a restart ahead the CA stays ready, and its minion
\* at most completes the restart it is in.
LEMMA ReadyStable ==
  ASSUME TypeOK, Ready, UpInv, Next, downs' = 0,
         StartJob(CA) => Prog[step].fun = "caserver.generate-serviceaccount-key"
  PROVE  /\ Ready'
         /\ \/ minion'[CA] = minion[CA]
            \/ minion[CA] = "reload" /\ minion'[CA] = "starting"
            \/ minion[CA] = "starting" /\ minion'[CA] = "up" /\ CA \in pillar'
<1>0. CA \in Node /\ CA' = CA  BY CANode DEF CA, With
<1>1. pki' = Secret /\ CA \in policy'  BY Monotone DEF Ready
<1>2. CASE Start \/ Runner \/ Kill
  <2>1. UNCHANGED <<task, minion>>
    BY <1>2 DEF Start, Runner, Skip, CallFunction, Dispatch, DispatchNobody, Collect, Kill,
       process
  <2> QED  BY <1>1, <2>1 DEF Ready, CA, With, Lasting, Chunk, Secret
<1>3. ASSUME NEW n \in Node,
             \/ StartJob(n) \/ RunTask(n) \/ ScheduledHighstate(n) \/ MinePush(n)
             \/ RefreshPillar(n) \/ RestartMinion(n) \/ StartMinion(n) \/ BootEtcd(n)
             \/ HostDown(n)
      PROVE  /\ task'[CA] \in Seq(Lasting)
             /\ \/ minion'[CA] = minion[CA]
                \/ minion[CA] = "reload" /\ minion'[CA] = "starting"
                \/ minion[CA] = "starting" /\ minion'[CA] = "up" /\ CA \in pillar'
  <2>0. ~HostDown(n)  BY DEF HostDown, TypeOK
  <2>1. CASE n # CA
    <3>1. task'[CA] = task[CA] /\ minion'[CA] = minion[CA]
      <4>1. CASE RunTask(n)
        <5>1. minion'[CA] = minion[CA]  BY <1>0, <2>1, <4>1, TaskFrame DEF TypeOK
        <5>2. PICK ok : Finish(n, ok)  BY <4>1, TaskFrame
        <5> QED  BY <1>0, <2>1, <5>1, <5>2 DEF Finish, TypeOK
      <4>2. CASE ~RunTask(n)
        BY <1>0, <1>3, <2>0, <2>1, <4>2 DEF StartJob, ScheduledHighstate, OwnHighstate,
           MinePush, RefreshPillar, RestartMinion, StartMinion, BootEtcd, Abort, process,
              TypeOK
      <4> QED  BY <4>1, <4>2
    <3> QED  BY <3>1 DEF Ready
  <2>2. CASE n = CA
    <3>0. task[CA] # <<>> => /\ Tail(task[CA]) \in Seq(Lasting)
                             /\ Head(task[CA]) # "listen" /\ Head(task[CA]) # "minion"
      BY LastingSeq DEF Ready
    <3>1. CASE StartJob(CA)
      <4>1. Chunks(CA, Prog[step].fun) \in Seq(Lasting)
        BY <3>1, LastingSeq DEF Chunks, Ready
      <4>2. task'[CA] \in {task[CA], Chunks(CA, Prog[step].fun)} /\ minion' = minion
        BY <1>0, <3>1 DEF StartJob, TypeOK, process
      <4> QED  BY <4>1, <4>2 DEF Ready
    <3>2. CASE RunTask(CA)
      <4>1. task[CA] # <<>>  BY <1>0, <3>2, TaskFrame DEF Idle
      <4>2. PICK ok : Finish(CA, ok)  BY <1>0, <3>2, TaskFrame
      <4>3. task'[CA] = Tail(task[CA])  BY <1>0, <4>2 DEF Finish, TypeOK
      <4>4. minion' = minion
        BY <3>0, <3>2, <4>1 DEF RunTask, CreatePki, CreateSaKey, SignCert, WriteUnit,
           StartEtcd, StartServices, ActOnListen, Listening, ConfigureMinion,
           WaitForCoredns, RunOther, RunWithoutMaster, Working, process
      <4> QED  BY <3>0, <4>1, <4>3, <4>4
    <3>3. CASE ScheduledHighstate(CA)
      <4>1. task'[CA] \in {task[CA], Highstate(CA)} /\ minion' = minion
        BY <1>0, <3>3 DEF ScheduledHighstate, OwnHighstate, TypeOK, process
      <4> QED  BY <4>1, LastingSeq DEF Ready
    <3>4. CASE MinePush(CA) \/ RefreshPillar(CA) \/ BootEtcd(CA)
      BY <3>4 DEF MinePush, RefreshPillar, BootEtcd, process, Ready
    <3>5. CASE RestartMinion(CA)
      <4>1. minion[CA] = "reload"  BY <3>0, <3>5 DEF RestartMinion, Listening, Idle
      <4>2. minion'[CA] = "starting" /\ task'[CA] = <<>>
        BY <1>0, <3>5 DEF RestartMinion, Abort, TypeOK
      <4> QED  BY <4>1, <4>2, LastingSeq
    <3>6. CASE StartMinion(CA)
      <4>1. task'[CA] \in {task[CA], Highstate(CA)}
        BY <1>0, <3>6 DEF StartMinion, OwnHighstate, TypeOK
      <4>2. minion[CA] = "starting" /\ minion'[CA] = "up" /\ CA \in pillar'
        BY <1>0, <3>6 DEF StartMinion, UpInv, TypeOK
      <4> QED  BY <4>1, <4>2, LastingSeq DEF Ready
    <3> QED  BY <1>3, <2>0, <2>2, <3>1, <3>2, <3>3, <3>4, <3>5, <3>6
  <2> QED  BY <2>1, <2>2
<1>4. Lasting' = Lasting  BY DEF Lasting, Chunk
<1> QED  BY <1>0, <1>1, <1>2, <1>3, <1>4 DEF Next, Ready, Secret

\* So what the CA will publish stays what it is.
LEMMA FreshStable ==
  ASSUME TypeOK, Ready, Fresh, UpInv, Next, downs' = 0,
         StartJob(CA) => Prog[step].fun = "caserver.generate-serviceaccount-key"
  PROVE  Fresh'
<1>1. CA' = CA  BY DEF CA, With
<1>2. CASE mine.pki = Secret
  <2>1. mine'.pki \subseteq Secret  BY TypeNext DEF TypeOK, Secret
  <2> QED  BY <1>2, <2>1, Monotone DEF Fresh, Secret
<1>3. CASE minion[CA] = "up" /\ CA \in pillar
  BY <1>1, <1>3, ReadyStable, Monotone DEF Fresh
<1> QED  BY <1>2, <1>3 DEF Fresh

\* The steps in the order the argument needs them.
LEMMA Positions ==
  ASSUME NEW c, NEW u, NEW g, NEW v, Publishes(Prog, c, u, g, v)
  PROVE  /\ c \in Nat /\ u \in Nat /\ g \in Nat /\ v \in Nat
         /\ 1 <= c /\ c < u /\ u < g /\ g < v /\ v <= Len(Prog) /\ Len(Prog) \in Nat
         /\ {c, u, g, v} \subseteq Steps
<1>1. Len(Prog) \in Nat  BY ProgAssumption DEF ProgAssumption
<1> QED  BY <1>1 DEF Publishes, Steps

\* What the steps between the creation of the CA and the publication of the key are
\* and what they require keeps every other run away from the CA.
LEMMA CaStarts ==
  ASSUME TypeOK, JobInv, NEW c, NEW u, NEW g, NEW v, Publishes(Prog, c, u, g, v),
         StartJob(CA), step \in (c+1)..v
  PROVE  step = g /\ Prog[step].fun = "caserver.generate-serviceaccount-key"
<1>1. job # NoJobs  BY CANode DEF StartJob, NoJobs
<1>2. Prog[step].kind = "state"  BY <1>1 DEF JobInv, JobsInv
<1> QED  BY <1>2 DEF Publishes

\* How a run moves on to its next step.
Moves(ok) ==
  /\ step \in Steps /\ Conclude(ok) /\ job' = NoJobs
  /\ UNCHANGED <<minion, task, policy, pki>>
  /\ Runnable(step) /\ Prog[step].kind = "function" => CallFunction
  /\ ok => /\ Runnable(step)
           /\ Prog[step].kind = "state" =>
                job # NoJobs /\ \A n \in Node : job[n] \in {"none", "ok"}

LEMMA RunnerMoves ==
  ASSUME TypeOK, JobInv, Skip \/ CallFunction \/ DispatchNobody \/ Collect
  PROVE  \E ok \in BOOLEAN : Moves(ok)
<1>1. step \in Steps
  <2>1. step # 0  BY DEF Skip, CallFunction, DispatchNobody, Collect
  <2>2. step \in 0..Len(Prog) /\ Len(Prog) \in Nat
    BY ProgAssumption DEF TypeOK, ProgAssumption
  <2> QED  BY <2>1, <2>2 DEF Steps
<1>2. CASE Skip
  <2>1. job = NoJobs  BY <1>2 DEF Skip, JobInv, JobsInv
  <2> QED  BY <1>1, <1>2, <2>1 DEF Skip, Moves, process, disk
<1>3. CASE CallFunction
  <2>1. job = NoJobs  BY <1>3 DEF CallFunction, JobInv, JobsInv
  <2>2. PICK T : Conclude(Prog[step].kind = "runner" \/ T # {})
    BY <1>3 DEF CallFunction
  <2>3. (Prog[step].kind = "runner" \/ T # {}) \in BOOLEAN  OBVIOUS
  <2> QED  BY <1>1, <1>3, <2>1, <2>2, <2>3 DEF CallFunction, Moves, disk
<1>4. CASE DispatchNobody
  BY <1>1, <1>4 DEF DispatchNobody, Moves, process, disk
<1>5. CASE Collect
  <2> DEFINE ok == \A n \in Node : job[n] # "fail"
  <2>1. ok => \A n \in Node : job[n] \in {"none", "ok"}  BY <1>5 DEF Collect, TypeOK
  <2>2. job # NoJobs /\ Runnable(step)  BY <1>5 DEF Collect, JobInv, JobsInv
  <2>3. /\ Conclude(ok) /\ job' = NoJobs /\ UNCHANGED <<minion, task, policy, pki>>
        /\ Prog[step].kind = "state"
    BY <1>5 DEF Collect, process, disk
  <2>4. ok \in BOOLEAN  OBVIOUS
  <2> HIDE DEF ok
  <2> QED  BY <1>1, <2>1, <2>2, <2>3, <2>4 DEF Moves
<1> QED  BY <1>2, <1>3, <1>4, <1>5

\* The step that has just succeeded is the only new one among those that have.
LEMMA PastNext ==
  ASSUME TypeOK, JobInv, PastInv, Next
  PROVE  PastInv'
<1>1. step \in Nat /\ Len(Prog) \in Nat  BY ProgAssumption DEF TypeOK, ProgAssumption
<1>2. CASE Start \/ Kill  BY <1>2 DEF Start, Kill, Interrupt, PastInv
<1>3. CASE Skip \/ CallFunction \/ DispatchNobody \/ Collect
  <2>1. PICK ok \in BOOLEAN : Moves(ok)  BY <1>3, RunnerMoves
  <2>2. SUFFICES ASSUME step' # 0 PROVE passed' \subseteq {Prog[t].id : t \in 1..(step' - 1)}
    BY DEF PastInv
  <2>3. step' = step + 1 /\ step \in 1..Len(Prog)  BY <2>1, <2>2 DEF Moves, Conclude, Steps
  <2>4. passed' \subseteq passed \cup {Prog[step].id}  BY <2>1 DEF Moves, Conclude
  <2>5. passed \subseteq {Prog[t].id : t \in 1..(step - 1)}  BY <2>3 DEF PastInv
  <2>6. /\ \A t \in 1..(step - 1) : t \in 1..(step' - 1)
        /\ step \in 1..(step' - 1)
    BY <1>1, <2>3
  <2> QED  BY <2>4, <2>5, <2>6
<1>4. CASE Dispatch  BY <1>4 DEF Dispatch, engine, PastInv
<1>5. ASSUME NEW n \in Node,
             \/ StartJob(n) \/ RunTask(n) \/ ScheduledHighstate(n) \/ MinePush(n)
             \/ RefreshPillar(n) \/ RestartMinion(n) \/ StartMinion(n) \/ BootEtcd(n)
             \/ HostDown(n)
      PROVE  PastInv'
  <2>1. UNCHANGED <<step, passed>> \/ step' = 0
    BY <1>5, TaskFrame DEF StartJob, ScheduledHighstate, MinePush, RefreshPillar,
       RestartMinion,
       StartMinion, BootEtcd, HostDown, Interrupt, engine
  <2> QED  BY <2>1 DEF PastInv
<1> QED  BY <1>2, <1>3, <1>4, <1>5 DEF Next, Runner

\* An update of the mine reaches the CA or finds it restarting.
LEMMA CaReached ==
  ASSUME TypeOK, UpInv, CallFunction, Prog[step].by = "all"
  PROVE  Prog[step].fun = "mine.update" /\ pki = Secret /\ CA \in pillar =>
           mine'.pki = Secret \/ minion[CA] = "starting"
<1>1. minion[CA] = "starting" \/ Answers(CA)  BY CANode DEF UpInv, Answers, TypeOK
<1> DEFINE T == {n \in Target(step) : Answers(n)}
<1>2. Answers(CA) => CA \in T  BY CANode DEF Target
<1>3. Prog[step].fun = "mine.update" => mine' = Mined(T)
  BY DEF CallFunction
<1> HIDE DEF T
<1>4. CA \in T /\ CA \in pillar /\ pki = Secret => Mined(T).pki = mine.pki \cup Secret
  BY DEF Mined
<1>5. mine.pki \subseteq Secret  BY DEF TypeOK
<1>6. CA \in T /\ CA \in pillar /\ pki = Secret => Mined(T).pki = Secret  BY <1>4, <1>5
<1> QED  BY <1>1, <1>2, <1>3, <1>6

\* The secrets that are published stay so.
LEMMA PublishedStable ==
  ASSUME TypeOK, Next, mine.pki = Secret
  PROVE  mine'.pki = Secret
<1>1. mine'.pki \subseteq Secret  BY TypeNext DEF TypeOK, Secret
<1> QED  BY <1>1, Monotone

\* The runner moves on.
LEMMA SecMoves ==
  ASSUME TypeOK, JobInv, PastInv, StartedInv, NEW c, NEW u, NEW g, NEW v,
         Publishes(Prog, c, u, g, v),
         UpInv, CaInv(c), AfterCa(c, u, g), KeyInv(g), AfterKey(g, v), LateInv(v),
         Next, downs' = 0, NEW ok \in BOOLEAN, Moves(ok)
  PROVE  UpInv' /\ CaInv(c)' /\ AfterCa(c, u, g)' /\ KeyInv(g)' /\ AfterKey(g, v)'
         /\ LateInv(v)'
<1>0. CA \in Node /\ CA' = CA /\ Secret' = Secret /\ Lasting' = Lasting /\ Steps' = Steps
  BY CANode DEF CA, With, Secret, Lasting, Chunk, Steps
<1>1. /\ c \in Nat /\ u \in Nat /\ g \in Nat /\ v \in Nat
      /\ 1 <= c /\ c < u /\ u < g /\ g < v /\ v <= Len(Prog) /\ Len(Prog) \in Nat
      /\ {c, u, g, v} \subseteq Steps
  BY Positions
<1>2. /\ step \in Steps /\ step \in Nat /\ step >= 1 /\ step' \in {0, step + 1}
  BY <1>1 DEF Moves, Conclude, Steps
<1>3. job'[CA] = "none" /\ minion' = minion /\ (Ready => Ready') /\ (Fresh => Fresh')
  <2>1. mine.pki = Secret => mine'.pki = Secret  BY PublishedStable
  <2> QED  BY <1>0, <2>1, Monotone DEF Moves, NoJobs, Ready, Fresh
<1>4. UpInv' /\ CaInv(c)' /\ KeyInv(g)'
  BY <1>0, <1>3 DEF UpInv, CaInv, KeyInv
<1>5. \A t \in Steps : Prog[t].id \in passed' /\ t # step => Prog[t].id \in passed
  <2>1. \A t \in Steps : Prog[t].id = Prog[step].id => t = step
    BY <1>2 DEF Publishes, Steps
  <2> QED  BY <2>1 DEF Moves, Conclude
<1>6. Prog[step].id \in passed' => ok
  <2>1. Prog[step].id \notin passed
    <3>1. \A t \in 1..(step - 1) : t \in Steps /\ t # step  BY <1>1, <1>2 DEF Steps
    <3>2. \A t \in 1..(step - 1) : Prog[t].id # Prog[step].id
      BY <1>2, <3>1 DEF Publishes, Steps
    <3> QED  BY <1>2, <3>2 DEF PastInv
  <2> QED  BY <2>1 DEF Moves, Conclude
<1>7. ASSUME step \in {c, g}, ok PROVE job[CA] = "ok" /\ Runnable(step)
  <2>1. job # NoJobs /\ (\A n \in Node : job[n] \in {"none", "ok"}) /\ Runnable(step)
    BY <1>7 DEF Moves, Publishes
  <2>2. PICK n \in Node : job[n] = "ok"  BY <2>1 DEF NoJobs, TypeOK
  <2>3. Roles[n] \cap {"ca"} # {}  BY <1>7, <2>2 DEF JobInv, RoleInv, Publishes
  <2> QED  BY <2>1, <2>2, <2>3, CaRoles
<1>8. AfterCa(c, u, g)'
  <2>1. SUFFICES ASSUME step' \in (c+1)..g, Prog[c].id \in passed'
                 PROVE  /\ Ready'
                        /\ step' > u => mine'.pki = Secret \/ minion[CA] # "reload"
    BY <1>0, <1>3 DEF AfterCa
  <2>2. step' = step + 1 /\ step \in c..(g-1)  BY <1>1, <1>2, <2>1
  <2>3. CASE step = c
    <3>1. Ready  BY <1>6, <1>7, <2>1, <2>3 DEF CaInv
    <3>2. ~(step' > u)  BY <1>1, <2>2, <2>3
    <3> QED  BY <1>3, <3>1, <3>2
  <2>4. CASE step # c
    <3>1. step \in (c+1)..g  BY <1>1, <2>2, <2>4
    <3>2. Prog[c].id \in passed  BY <1>1, <1>5, <2>1, <2>4
    <3>3. /\ Ready
          /\ step > u => mine.pki = Secret \/ minion[CA] # "reload"
      BY <3>1, <3>2 DEF AfterCa
    <3>4. step = u => CallFunction /\ Prog[step].by = "all"
      BY <3>2 DEF Publishes, Moves, Runnable
    <3>6. step' > u => mine'.pki = Secret \/ minion[CA] # "reload"
      <4>1. CASE step = u
        <5>1. pki = Secret /\ (CA \in pillar \/ minion[CA] = "starting")
          BY <3>3, ReadyPillar DEF Ready
        <5>2. Prog[step].fun = "mine.update"  BY <4>1 DEF Publishes
        <5>3. CASE CA \in pillar  BY <3>4, <4>1, <5>1, <5>2, <5>3, CaReached
        <5> QED  BY <3>3, <5>1, <5>3
      <4>2. CASE step # u
        <5>1. step' > u => step > u  BY <1>1, <1>2, <2>2, <4>2
        <5> QED  BY <3>3, <5>1, PublishedStable
      <4> QED  BY <4>1, <4>2
    <3> QED  BY <1>3, <3>3, <3>6
  <2> QED  BY <2>3, <2>4
<1>9. AfterKey(g, v)'
  <2>1. SUFFICES ASSUME step' \in (g+1)..v, Prog[g].id \in passed'
                 PROVE  Ready /\ Fresh
    BY <1>0, <1>3 DEF AfterKey
  <2>2. step' = step + 1 /\ step \in g..(v-1)  BY <1>1, <1>2, <2>1
  <2>3. CASE step = g
    <3>1. job[CA] = "ok" /\ Runnable(step)  BY <1>6, <1>7, <2>1, <2>3
    <3>2. Prog[c].id \in passed  BY <2>3, <3>1 DEF Runnable, Publishes
    <3>3. step \in (c+1)..g  BY <1>1, <2>3
    <3> QED  BY <2>3, <3>1, <3>2, <3>3 DEF AfterCa, KeyInv
  <2>4. CASE step # g
    <3>1. step \in (g+1)..v  BY <1>1, <2>2, <2>4
    <3>2. Prog[g].id \in passed  BY <1>1, <1>5, <2>1, <2>4
    <3> QED  BY <3>1, <3>2 DEF AfterKey
  <2> QED  BY <2>3, <2>4
<1>10. LateInv(v)'
  <2>1. SUFFICES ASSUME NEW t \in Steps, Prog[t].id \in passed',
                        t = v \/ Prog[t].fun = "highstate"
                 PROVE  mine'.pki = Secret
    BY <1>0 DEF LateInv
  <2>2. CASE t # step
    BY <1>5, <2>1, <2>2, PublishedStable DEF LateInv
  <2>3. CASE t = step
    <3>1. ok /\ Runnable(step)  BY <1>6, <2>1, <2>3 DEF Moves
    <3>2. CASE step = v
      <4>1. Prog[g].id \in passed  BY <3>1, <3>2 DEF Runnable, Publishes
      <4>2. step \in (g+1)..v  BY <1>1, <3>2
      <4>3. Ready /\ Fresh  BY <4>1, <4>2 DEF AfterKey
      <4>4. CallFunction /\ Prog[step].by = "all" /\ Prog[step].fun = "mine.update"
        BY <3>1, <3>2 DEF Moves, Publishes
      <4>5. CASE mine.pki = Secret  BY <4>5, PublishedStable
      <4>6. CASE minion[CA] = "up" /\ CA \in pillar
        BY <4>3, <4>4, <4>6, CaReached DEF Ready
      <4> QED  BY <4>3, <4>5, <4>6 DEF Fresh
    <3>3. CASE Prog[step].fun = "highstate"
      <4>1. PICK r \in 1..Len(Prog) : /\ Prog[r].id \in Prog[step].require
                                      /\ r = v \/ Prog[r].fun = "highstate"
        BY <1>2, <3>3 DEF Publishes, Steps
      <4>2. Prog[r].id \in passed  BY <3>1, <4>1 DEF Runnable
      <4>3. mine.pki = Secret  BY <4>1, <4>2 DEF LateInv, Steps
      <4> QED  BY <4>3, PublishedStable
    <3> QED  BY <2>1, <2>3, <3>2, <3>3
  <2> QED  BY <2>2, <2>3
<1> QED  BY <1>4, <1>8, <1>9, <1>10

LEMMA MasterIsUp == UpInv => MasterUp
BY DEF UpInv, MasterUp, HostUp, With

\* The run of ca-setup on the CA.
LEMMA CaMinion ==
  ASSUME TypeOK, JobInv, NEW c, c \in Steps, Prog[c].fun = "caserver.initca", UpInv, CaInv(c),
         Next, downs' = 0, UNCHANGED step, NEW n \in Node,
         \/ StartJob(n) \/ RunTask(n) \/ ScheduledHighstate(n) \/ MinePush(n)
         \/ RefreshPillar(n) \/ RestartMinion(n) \/ StartMinion(n) \/ BootEtcd(n)
  PROVE  CaInv(c)'
<1>0. CA \in Node /\ CA' = CA /\ Secret' = Secret  BY CANode DEF CA, With, Secret
<1> SUFFICES ASSUME step = c
             PROVE  /\ job'[CA] = "run" =>
                         \/ task'[CA] = <<"pki">> /\ CA \in policy'
                         \/ task'[CA] = <<"pki", "listen">>
                         \/ task'[CA] = <<"listen">> /\ pki' = Secret /\ CA \in policy'
                    /\ job'[CA] = "ok" => Ready'
  BY <1>0 DEF CaInv
<1>1. job[CA] = "ok" => Ready'
  <2>1. job[CA] = "ok" => ~StartJob(CA)  BY DEF StartJob
  <2> QED  BY <2>1, ReadyStable DEF CaInv
<1>2. (pki = Secret => pki' = Secret) /\ policy \subseteq policy'  BY Monotone
<1>3. CASE job'[CA] = job[CA] /\ (job[CA] = "run" => task'[CA] = task[CA])
  BY <1>1, <1>2, <1>3 DEF CaInv
<1>4. CASE StartJob(CA)
  <2>1. Chunks(CA, Prog[step].fun) = <<"pki">> \o Listen(CA)  BY DEF Chunks
  <2>2. Listen(CA) = IF CA \in policy THEN <<>> ELSE <<"listen">>  BY DEF Listen
  <2>3. Chunks(CA, Prog[step].fun) = IF CA \in policy THEN <<"pki">> ELSE <<"pki", "listen">>
    BY <2>1, <2>2
  <2>4. \/ job'[CA] = "fail"
        \/ job'[CA] = "run" /\ task'[CA] = Chunks(CA, Prog[step].fun)
    BY <1>0, <1>4 DEF StartJob, TypeOK
  <2> QED  BY <1>2, <2>3, <2>4
<1>5. CASE RunTask(CA) /\ job[CA] = "run"
  <2>1. task' = [task EXCEPT ![CA] = Tail(@)]  BY <1>0, <1>5, TaskFrame DEF Finish
  <2>2. task'[CA] = Tail(task[CA])  BY <1>0, <2>1 DEF TypeOK
  <2>3. CASE Head(task[CA]) = "pki"
    <3>1. ~RunWithoutMaster(CA)  BY MasterIsUp DEF RunWithoutMaster
    <3>2. CreatePki(CA)
      BY <1>5, <2>3, <3>1 DEF RunTask, CreateSaKey, SignCert, WriteUnit, StartEtcd,
         StartServices, ActOnListen, Listening, ConfigureMinion, WaitForCoredns, RunOther,
         Working
    <3>3. pki' = Secret /\ CA \in policy' /\ Finish(CA, TRUE)
      BY <3>2 DEF CreatePki, Secret
    <3>4. CASE task[CA] = <<"pki">>
      <4>1. Tail(<<"pki">>) = <<>> /\ Len(<<"pki">>) = 1  OBVIOUS
      <4>2. task'[CA] = <<>> /\ job'[CA] \in {"ok", "fail"}
        BY <1>0, <1>5, <2>2, <3>3, <3>4, <4>1 DEF Finish, TypeOK
      <4> QED  BY <1>0, <3>3, <4>2, LastingSeq DEF Ready, Lasting, Chunk
    <3>5. CASE task[CA] = <<"pki", "listen">>
      <4>1. Tail(<<"pki", "listen">>) = <<"listen">> /\ Len(<<"pki", "listen">>) = 2
        OBVIOUS
      <4>2. task'[CA] = <<"listen">> /\ job'[CA] = "run"
        BY <1>5, <2>2, <3>3, <3>5, <4>1 DEF Finish
      <4> QED  BY <3>3, <4>2
    <3>6. Head(<<"listen">>) = "listen"  OBVIOUS
    <3> QED  BY <1>5, <2>3, <3>4, <3>5, <3>6 DEF CaInv
  <2>4. CASE task[CA] = <<"listen">> /\ pki = Secret /\ CA \in policy
    <3>1. Tail(<<"listen">>) = <<>> /\ Len(<<"listen">>) = 1  OBVIOUS
    <3>2. PICK ok : Finish(CA, ok)  BY <1>0, <1>5, TaskFrame
    <3>3. task'[CA] = <<>> /\ job'[CA] \in {"ok", "fail"}
      BY <1>0, <1>5, <2>2, <2>4, <3>1, <3>2 DEF Finish, TypeOK
    <3>4. pki' = Secret /\ CA \in policy'  BY <1>2, <2>4
    <3> QED  BY <1>0, <3>3, <3>4, LastingSeq DEF Ready, Lasting, Chunk
  <2>5. Head(<<"pki">>) = "pki" /\ Head(<<"pki", "listen">>) = "pki"  OBVIOUS
  <2> QED  BY <1>5, <2>3, <2>4, <2>5 DEF CaInv
<1>6. CASE RunTask(CA) /\ job[CA] # "run"
  <2>1. job' = job  BY <1>0, <1>6, TaskFrame DEF Finish
  <2> QED  BY <1>3, <1>6, <2>1
<1>7. CASE RestartMinion(CA)
  <2>1. job'[CA] = IF job[CA] = "run" THEN "fail" ELSE job[CA]
    BY <1>0, <1>7 DEF RestartMinion, Abort, TypeOK
  <2> QED  BY <1>1, <2>1
<1>8. CASE MinePush(n) \/ RefreshPillar(n) \/ BootEtcd(n)
  BY <1>3, <1>8 DEF MinePush, RefreshPillar, BootEtcd
<1>9. CASE ScheduledHighstate(n) \/ StartMinion(n)
  <2>1. job' = job /\ OwnHighstate(n)  BY <1>9 DEF ScheduledHighstate, StartMinion
  <2>2. job[CA] = "run" => task[CA] # <<>>  BY <1>0 DEF JobInv, TaskInv
  <2>3. job[CA] = "run" => task'[CA] = task[CA]
    BY <1>0, <2>1, <2>2 DEF OwnHighstate, Idle, TypeOK
  <2> QED  BY <1>3, <2>1, <2>3
<1>10. CASE n # CA /\ (StartJob(n) \/ RunTask(n) \/ RestartMinion(n))
  <2>1. job'[CA] = job[CA] /\ task'[CA] = task[CA]
    BY <1>0, <1>10, TaskFrame DEF StartJob, Finish, RestartMinion, Abort, TypeOK
  <2> QED  BY <1>3, <2>1
<1> QED  BY <1>4, <1>5, <1>6, <1>7, <1>8, <1>9, <1>10

\* The minions and the master's dispatch, while the runner stays at its step.
LEMMA SecMinion ==
  ASSUME TypeOK, JobInv, StartedInv, NEW c, NEW u, NEW g, NEW v,
         Publishes(Prog, c, u, g, v),
         UpInv, CaInv(c), AfterCa(c, u, g), KeyInv(g), AfterKey(g, v), LateInv(v),
         Next, downs' = 0, NEW n \in Node,
         \/ StartJob(n) \/ RunTask(n) \/ ScheduledHighstate(n) \/ MinePush(n)
         \/ RefreshPillar(n) \/ RestartMinion(n) \/ StartMinion(n) \/ BootEtcd(n)
         \/ HostDown(n)
  PROVE  UpInv' /\ CaInv(c)' /\ AfterCa(c, u, g)' /\ KeyInv(g)' /\ AfterKey(g, v)'
         /\ LateInv(v)'
<1>0. CA \in Node /\ CA' = CA /\ Secret' = Secret /\ Lasting' = Lasting /\ Steps' = Steps
  BY CANode DEF CA, With, Secret, Lasting, Chunk, Steps
<1>1. /\ c \in Nat /\ u \in Nat /\ g \in Nat /\ v \in Nat
      /\ 1 <= c /\ c < u /\ u < g /\ g < v /\ v <= Len(Prog) /\ Len(Prog) \in Nat
      /\ {c, u, g, v} \subseteq Steps
  BY Positions
<1>2. ~HostDown(n)  BY DEF HostDown, TypeOK
<1>3. UNCHANGED <<step, passed>>
  BY <1>2, TaskFrame DEF StartJob, ScheduledHighstate, MinePush, RefreshPillar,
     RestartMinion, StartMinion,
     BootEtcd, engine
<1>4. UpInv'
  <2>1. \/ minion' = minion
        \/ \E x \in {"up", "reload", "starting"} : minion' = [minion EXCEPT ![n] = x]
    BY <1>2, TaskFrame DEF StartJob, ScheduledHighstate, MinePush, RefreshPillar,
       RestartMinion,
       StartMinion, BootEtcd, process
  <2> QED  BY <2>1 DEF UpInv, TypeOK
<1>5. CaInv(c)'
  <2>1. c \in Steps /\ Prog[c].fun = "caserver.initca"  BY <1>1 DEF Publishes
  <2> QED  BY <1>2, <1>3, <2>1, CaMinion
<1>6. StartJob(CA) /\ step \in (c+1)..v =>
        Prog[step].fun = "caserver.generate-serviceaccount-key"
  BY CaStarts
<1>7. AfterCa(c, u, g)'
  <2> SUFFICES ASSUME step \in (c+1)..g, Prog[c].id \in passed
               PROVE  /\ Ready'
                      /\ step > u => mine'.pki = Secret \/ minion'[CA] # "reload"
    BY <1>0, <1>3 DEF AfterCa
  <2>1. /\ Ready
        /\ step > u => mine.pki = Secret \/ minion[CA] # "reload"
    BY DEF AfterCa
  <2>2. step \in (c+1)..v  BY <1>1
  <2>3. /\ Ready'
        /\ \/ minion'[CA] = minion[CA]
           \/ minion[CA] = "reload" /\ minion'[CA] = "starting"
           \/ minion[CA] = "starting" /\ minion'[CA] = "up" /\ CA \in pillar'
    BY <1>6, <2>1, <2>2, ReadyStable
  <2> QED  BY <2>1, <2>3, Monotone, PublishedStable
<1>8. KeyInv(g)'
  <2> SUFFICES ASSUME step = g, job'[CA] \in {"run", "ok"} PROVE Fresh'
    BY <1>0, <1>3 DEF KeyInv
  <2>1. job # NoJobs
    <3>1. job[CA] # "none"
      <4>1. CASE job'[CA] = job[CA]  BY <4>1
      <4>2. CASE job'[CA] # job[CA]
        BY <1>0, <1>2, <4>2, TaskFrame DEF StartJob, Finish, RestartMinion, Abort,
           ScheduledHighstate, MinePush, RefreshPillar, StartMinion, BootEtcd, TypeOK
      <4> QED  BY <4>1, <4>2
    <3> QED  BY <1>0, <3>1 DEF NoJobs
  <2>2. Prog[c].id \in passed  BY <2>1 DEF JobInv, JobsInv, Runnable, Publishes
  <2>3. step \in (c+1)..g /\ step \in (c+1)..v /\ step > u  BY <1>1
  <2>4. /\ Ready /\ (CA \in pillar \/ minion[CA] = "starting")
        /\ mine.pki = Secret \/ minion[CA] # "reload"
    BY <2>2, <2>3, ReadyPillar DEF AfterCa
  <2>5. Fresh
    <3>1. CASE StartJob(CA)
      <4>1. Answers(CA)  BY <1>0, <3>1 DEF StartJob, TypeOK
      <4> QED  BY <2>4, <4>1 DEF Answers, Fresh
    <3>2. CASE ~StartJob(CA)
      <4>1. job[CA] \in {"run", "ok"}
        BY <1>0, <1>2, <3>2, TaskFrame DEF StartJob, Finish, RestartMinion, Abort,
           ScheduledHighstate, MinePush, RefreshPillar, StartMinion, BootEtcd, TypeOK
      <4> QED  BY <4>1 DEF KeyInv
    <3> QED  BY <3>1, <3>2
  <2> QED  BY <1>6, <2>3, <2>4, <2>5, FreshStable
<1>9. AfterKey(g, v)'
  <2> SUFFICES ASSUME step \in (g+1)..v, Prog[g].id \in passed PROVE Ready' /\ Fresh'
    BY <1>0, <1>3 DEF AfterKey
  <2>1. Ready /\ Fresh /\ step \in (c+1)..v  BY <1>1 DEF AfterKey
  <2> QED  BY <1>6, <2>1, ReadyStable, FreshStable
<1>10. LateInv(v)'
  BY <1>0, <1>3, PublishedStable DEF LateInv
<1> QED  BY <1>4, <1>5, <1>7, <1>8, <1>9, <1>10

LEMMA SecNext ==
  ASSUME TypeOK, JobInv, PastInv, StartedInv, NEW c, NEW u, NEW g, NEW v,
         Publishes(Prog, c, u, g, v), SecInv(c, u, g, v), Next
  PROVE  SecInv(c, u, g, v)'
<1> SUFFICES ASSUME downs' = 0
             PROVE  UpInv' /\ CaInv(c)' /\ AfterCa(c, u, g)' /\ KeyInv(g)'
                    /\ AfterKey(g, v)' /\ LateInv(v)'
  BY DEF SecInv
<1>1. UpInv /\ CaInv(c) /\ AfterCa(c, u, g) /\ KeyInv(g) /\ AfterKey(g, v) /\ LateInv(v)
  BY Monotone DEF SecInv
<1>2. /\ c \in Nat /\ u \in Nat /\ g \in Nat /\ v \in Nat
      /\ 1 <= c /\ c < u /\ u < g /\ g < v
  BY Positions
<1>3. CA \in Node /\ CA' = CA /\ Secret' = Secret /\ Lasting' = Lasting /\ Steps' = Steps
  BY CANode DEF CA, With, Secret, Lasting, Chunk, Steps
<1>4. CASE Start \/ Kill
  <2>1. /\ minion' = minion /\ passed' = {} /\ job'[CA] = "none" /\ step' \in {0, 1}
    <3>1. CASE Start
      <4>1. job = NoJobs  BY <3>1 DEF Start, JobInv, JobsInv
      <4> QED  BY <1>3, <3>1, <4>1 DEF Start, NoJobs, process
    <3>2. CASE Kill  BY <1>3, <3>2 DEF Kill, Interrupt, NoJobs, process
    <3> QED  BY <1>4, <3>1, <3>2
  <2> QED  BY <1>1, <1>3, <2>1 DEF UpInv, CaInv, AfterCa, KeyInv, AfterKey, LateInv
<1>5. CASE Skip \/ CallFunction \/ DispatchNobody \/ Collect
  <2>1. PICK ok \in BOOLEAN : Moves(ok)  BY <1>5, RunnerMoves
  <2> QED  BY <1>1, <2>1, SecMoves
<1>6. CASE Dispatch
  <2>1. UNCHANGED <<step, passed, minion, pillar, task, mine, policy, pki>>
    BY <1>6 DEF Dispatch, engine, process, disk
  <2>2. job'[CA] \in {"none", "wait", "fail"}  BY <1>3, <1>6 DEF Dispatch
  <2> QED
    BY <1>1, <1>3, <2>1, <2>2 DEF UpInv, CaInv, AfterCa, KeyInv, AfterKey, LateInv, Ready,
       Fresh
<1>7. ASSUME NEW n \in Node,
             \/ StartJob(n) \/ RunTask(n) \/ ScheduledHighstate(n) \/ MinePush(n)
             \/ RefreshPillar(n) \/ RestartMinion(n) \/ StartMinion(n) \/ BootEtcd(n)
             \/ HostDown(n)
      PROVE  UpInv' /\ CaInv(c)' /\ AfterCa(c, u, g)' /\ KeyInv(g)'
             /\ AfterKey(g, v)' /\ LateInv(v)'
  BY <1>1, <1>7, SecMinion
<1> QED  BY <1>4, <1>5, <1>6, <1>7 DEF Next, Runner

\* In a bootstrap without a crash the CA's certificate and the service account key
\* are in the mine when a highstate is sent out, for every orchestration that
\* refreshes and updates the mine between ca-setup, generate-sa-key and the
\* highstates as kubernetes.sls does, although the restart of the CA's minion may
\* swallow the first update and an earlier run may have left work on it.
THEOREM SecretsInTime ==
  ASSUME NEW CONSTANT c, NEW CONSTANT u, NEW CONSTANT g, NEW CONSTANT v,
         Publishes(Prog, c, u, g, v)
  PROVE  Spec => []SecretsPublished
<1> DEFINE Inv == TypeOK /\ JobInv /\ PastInv /\ StartedInv /\ SecInv(c, u, g, v)
<1>1. Init => Inv
  <2> SUFFICES ASSUME Init PROVE PastInv /\ SecInv(c, u, g, v)
    BY TypeInit, InvInit, StartedInit
  <2>1. /\ step = 0 /\ passed = {} /\ job[CA] = "none"
        /\ \A n \in Node : minion[n] = "up"
    BY CANode DEF Init
  <2>2. c >= 1 /\ g >= 1 /\ c \in Nat /\ g \in Nat  BY Positions
  <2> QED
    BY <2>1, <2>2 DEF PastInv, SecInv, UpInv, CaInv, AfterCa, KeyInv, AfterKey, LateInv
<1>2. Inv /\ [Next]_vars => Inv'
  <2> SUFFICES ASSUME Inv, [Next]_vars PROVE Inv'
    OBVIOUS
  <2>1. TypeOK'  BY TypeNext
  <2>2. CASE Next  BY <2>1, <2>2, JobNext, PastNext, StartedNext, SecNext
  <2>3. CASE UNCHANGED vars
    <3>1. JobInv'
      BY <2>3 DEF vars, JobInv, JobsInv, TaskInv, RoleInv, AllInv, OkInv, Runnable
    <3>2. CA' = CA /\ Secret' = Secret /\ Lasting' = Lasting /\ Steps' = Steps
      BY DEF CA, With, Secret, Lasting, Chunk, Steps
    <3>3. PastInv' /\ StartedInv' /\ SecInv(c, u, g, v)'
      BY <2>3, <3>2 DEF vars, PastInv, StartedInv, EndsInRestart, Plain, Chunk, SecInv, UpInv,
         CaInv, AfterCa, KeyInv, AfterKey, LateInv, Ready, Fresh
    <3> QED  BY <2>1, <3>1, <3>3
  <2> QED  BY <2>2, <2>3
<1>3. Inv => SecretsPublished
  <2> SUFFICES ASSUME Inv, downs = 0, job # NoJobs, Prog[step].fun = "highstate"
               PROVE  mine.pki = Secret
    BY DEF SecretsPublished
  <2>1. step # 0 /\ Runnable(step)  BY DEF JobInv, JobsInv
  <2>2. step \in 1..Len(Prog)
    BY <2>1, ProgAssumption DEF TypeOK, ProgAssumption
  <2>3. PICK t \in 1..Len(Prog) : /\ Prog[t].id \in Prog[step].require
                                  /\ t = v \/ Prog[t].fun = "highstate"
    BY <2>2 DEF Publishes
  <2>4. Prog[t].id \in passed  BY <2>1, <2>3 DEF Runnable
  <2> QED  BY <2>3, <2>4 DEF SecInv, LateInv, Steps
<1> QED  BY <1>1, <1>2, <1>3, PTL DEF Spec

-------------------------------------------------------------------------------
(* kubernetes.sls has those features *)

\* Where the steps of the orchestration come from.
LEMMA KubernetesAt ==
  /\ Len(KubernetesSls) = 23
  /\ \A i \in 1..9 : KubernetesSls[i] = PrepareSteps[i]
  /\ \A i \in 1..6 : KubernetesSls[9 + i] = PkiSteps[i]
  /\ \A i \in 1..6 : KubernetesSls[15 + i] = ClusterSteps[i]
  /\ \A i \in 1..2 : KubernetesSls[21 + i] = FlagSteps[i]
<1>1. PICK S : /\ PrepareSteps \in Seq(S) /\ Len(PrepareSteps) = 9
               /\ PkiSteps \in Seq(S) /\ Len(PkiSteps) = 6
               /\ ClusterSteps \in Seq(S) /\ Len(ClusterSteps) = 6
               /\ FlagSteps \in Seq(S) /\ Len(FlagSteps) = 2
  BY PartsOfKubernetes
<1> DEFINE p == PrepareSteps \o PkiSteps
           q == p \o ClusterSteps
           r == q \o FlagSteps
<1>0. /\ PrepareSteps \in Seq(S) /\ PkiSteps \in Seq(S)
      /\ ClusterSteps \in Seq(S) /\ FlagSteps \in Seq(S)
  BY <1>1
<1>c. \A x, y \in Seq(S) :
        /\ x \o y \in Seq(S) /\ Len(x \o y) = Len(x) + Len(y)
        /\ \A i \in 1..Len(x) : (x \o y)[i] = x[i]
        /\ \A i \in 1..Len(y) : (x \o y)[Len(x) + i] = y[i]
  BY ConcatAt
<1>2. /\ p \in Seq(S) /\ Len(p) = Len(PrepareSteps) + Len(PkiSteps)
      /\ \A i \in 1..Len(PrepareSteps) : p[i] = PrepareSteps[i]
      /\ \A i \in 1..Len(PkiSteps) : p[Len(PrepareSteps) + i] = PkiSteps[i]
  BY <1>0, <1>c
<1> HIDE DEF p
<1>p. p \in Seq(S)  BY <1>2
<1>3. /\ q \in Seq(S) /\ Len(q) = Len(p) + Len(ClusterSteps)
      /\ \A i \in 1..Len(p) : q[i] = p[i]
      /\ \A i \in 1..Len(ClusterSteps) : q[Len(p) + i] = ClusterSteps[i]
  BY <1>0, <1>p, <1>c
<1> HIDE DEF q
<1>q. q \in Seq(S)  BY <1>3
<1>4. /\ Len(r) = Len(q) + Len(FlagSteps)
      /\ \A i \in 1..Len(q) : r[i] = q[i]
      /\ \A i \in 1..Len(FlagSteps) : r[Len(q) + i] = FlagSteps[i]
  BY <1>0, <1>q, <1>c
<1> HIDE DEF r
<1>5. Len(p) = 15 /\ Len(q) = 21 /\ Len(r) = 23
  <2>1. Len(p) = 9 + 6 /\ Len(q) = Len(p) + 6 /\ Len(r) = Len(q) + 2
    BY <1>1, <1>2, <1>3, <1>4, Zenon
  <2>2. \A a, b, d : a = 9 + 6 /\ b = a + 6 /\ d = b + 2 => a = 15 /\ b = 21 /\ d = 23
    OBVIOUS
  <2> QED  BY <2>1, <2>2, Zenon
<1>6. /\ \A i \in 1..9 : i \in 1..15 /\ i \in 1..21
      /\ \A i \in 1..6 : 9 + i \in 1..15 /\ 9 + i \in 1..21 /\ 15 + i \in 1..21
  OBVIOUS
<1>7. \A i \in 1..9 : r[i] = PrepareSteps[i]
  BY <1>1, <1>2, <1>3, <1>4, <1>5, <1>6, Zenon
<1>8. \A i \in 1..6 : r[9 + i] = PkiSteps[i] /\ r[15 + i] = ClusterSteps[i]
  <2> TAKE i \in 1..6
  <2>1. p[9 + i] = PkiSteps[i] /\ q[15 + i] = ClusterSteps[i]
    BY <1>1, <1>2, <1>3, <1>5, Zenon
  <2>2. q[9 + i] = p[9 + i]  BY <1>3, <1>5, <1>6, Zenon
  <2>3. r[9 + i] = q[9 + i] /\ r[15 + i] = q[15 + i]  BY <1>4, <1>5, <1>6, Zenon
  <2> QED  BY <2>1, <2>2, <2>3
<1>9. \A i \in 1..2 : r[21 + i] = FlagSteps[i]  BY <1>1, <1>4, <1>5, Zenon
<1>10. r = KubernetesSls  BY DEF p, q, r, KubernetesSls
<1> QED  BY <1>5, <1>7, <1>8, <1>9, <1>10, Zenon

\* The orchestration of the repository collects all addresses first.
THEOREM KubernetesCollects == CollectsFirst(KubernetesSls, 3, 5)
<1>1. Len(KubernetesSls) = 23 /\ \A i \in 1..5 : KubernetesSls[i] = PrepareSteps[i]
  <2>1. \A i \in 1..5 : i \in 1..9  OBVIOUS
  <2> QED  BY <2>1, KubernetesAt, Zenon
<1>2. /\ PrepareSteps[1].kind = "function" /\ PrepareSteps[1].require = {}
      /\ PrepareSteps[1].id = "set-bootstrap-in-progress-flag"
      /\ PrepareSteps[2].kind = "runner" /\ PrepareSteps[2].require = {}
      /\ PrepareSteps[2].id = "sync-pillar"
      /\ PrepareSteps[3].kind = "function" /\ PrepareSteps[3].require = {"sync-pillar"}
      /\ PrepareSteps[3].id = "update-pillar" /\ PrepareSteps[3].fun = "refresh_pillar"
      /\ PrepareSteps[3].by = "all"
      /\ PrepareSteps[4].kind = "function" /\ PrepareSteps[4].require = {"sync-pillar"}
      /\ PrepareSteps[4].id = "update-grains" /\ PrepareSteps[4].by = "all"
      /\ PrepareSteps[5].kind = "function" /\ PrepareSteps[5].fun = "mine.update"
      /\ PrepareSteps[5].require = {"update-pillar", "update-grains"}
      /\ PrepareSteps[5].by = "all"
  BY DEF PrepareSteps, Fn
<1>3. \A s \in 1..5 : /\ PrepareSteps[s].kind \in {"function", "runner"}
                      /\ \A t \in 1..(s-1) : PrepareSteps[t].id \in PrepareSteps[s].require =>
                           PrepareSteps[t].kind = "runner" \/ PrepareSteps[t].by = "all"
  BY <1>2
<1>4. \A s \in 1..5 : \A t \in 1..(s-1) : t \in 1..5  OBVIOUS
<1>5. 3 \in 1..23 /\ 5 \in 1..23 /\ 3 < 5 /\ 3 \in 1..5 /\ 5 \in 1..5  OBVIOUS
<1>6. \A s \in 1..5 :
        /\ KubernetesSls[s].kind \in {"function", "runner"}
        /\ \A t \in 1..(s-1) : KubernetesSls[t].id \in KubernetesSls[s].require =>
             KubernetesSls[t].kind = "runner" \/ KubernetesSls[t].by = "all"
  BY <1>1, <1>3, <1>4, ZenonT(60)
<1>7. KubernetesSls[3] = PrepareSteps[3] /\ KubernetesSls[5] = PrepareSteps[5]
  BY <1>1, <1>5, Zenon
<1> QED  BY <1>1, <1>2, <1>5, <1>6, <1>7 DEF CollectsFirst

\* And it publishes the CA's secrets in time.
THEOREM KubernetesPublishes == Publishes(KubernetesSls, 10, 12, 13, 15)
<1> DEFINE K == KubernetesSls
<1>1. Len(K) = 23  BY KubernetesAt
<1>2. /\ K[1] = PrepareSteps[1] /\ K[2] = PrepareSteps[2] /\ K[3] = PrepareSteps[3]
      /\ K[4] = PrepareSteps[4] /\ K[5] = PrepareSteps[5] /\ K[6] = PrepareSteps[6]
      /\ K[7] = PrepareSteps[7] /\ K[8] = PrepareSteps[8] /\ K[9] = PrepareSteps[9]
  <2>1. /\ 1 \in 1..9 /\ 2 \in 1..9 /\ 3 \in 1..9 /\ 4 \in 1..9 /\ 5 \in 1..9
        /\ 6 \in 1..9 /\ 7 \in 1..9 /\ 8 \in 1..9 /\ 9 \in 1..9
    OBVIOUS
  <2> QED  BY <2>1, KubernetesAt, Zenon
<1>3. /\ K[10] = PkiSteps[1] /\ K[11] = PkiSteps[2] /\ K[12] = PkiSteps[3]
      /\ K[13] = PkiSteps[4] /\ K[14] = PkiSteps[5] /\ K[15] = PkiSteps[6]
      /\ K[16] = ClusterSteps[1] /\ K[17] = ClusterSteps[2] /\ K[18] = ClusterSteps[3]
      /\ K[19] = ClusterSteps[4] /\ K[20] = ClusterSteps[5] /\ K[21] = ClusterSteps[6]
      /\ K[22] = FlagSteps[1] /\ K[23] = FlagSteps[2]
  <2>1. /\ 1 \in 1..6 /\ 2 \in 1..6 /\ 3 \in 1..6 /\ 4 \in 1..6 /\ 5 \in 1..6 /\ 6 \in 1..6
        /\ 1 \in 1..2 /\ 2 \in 1..2
        /\ 9 + 1 = 10 /\ 9 + 2 = 11 /\ 9 + 3 = 12 /\ 9 + 4 = 13 /\ 9 + 5 = 14
        /\ 9 + 6 = 15 /\ 15 + 1 = 16 /\ 15 + 2 = 17 /\ 15 + 3 = 18 /\ 15 + 4 = 19
        /\ 15 + 5 = 20 /\ 15 + 6 = 21 /\ 21 + 1 = 22 /\ 21 + 2 = 23
    OBVIOUS
  <2> HIDE DEF K
  <2>2. /\ \A i \in 1..6 : K[9 + i] = PkiSteps[i]
        /\ \A i \in 1..6 : K[15 + i] = ClusterSteps[i]
        /\ \A i \in 1..2 : K[21 + i] = FlagSteps[i]
    BY KubernetesAt DEF K
  <2>3. /\ K[9 + 1] = PkiSteps[1] /\ K[9 + 2] = PkiSteps[2] /\ K[9 + 3] = PkiSteps[3]
        /\ K[9 + 4] = PkiSteps[4] /\ K[9 + 5] = PkiSteps[5] /\ K[9 + 6] = PkiSteps[6]
        /\ K[15 + 1] = ClusterSteps[1] /\ K[15 + 2] = ClusterSteps[2]
        /\ K[15 + 3] = ClusterSteps[3] /\ K[15 + 4] = ClusterSteps[4]
        /\ K[15 + 5] = ClusterSteps[5] /\ K[15 + 6] = ClusterSteps[6]
        /\ K[21 + 1] = FlagSteps[1] /\ K[21 + 2] = FlagSteps[2]
    BY <2>1, <2>2, Zenon
  <2> QED  BY <2>1, <2>3, Zenon
<1> HIDE DEF K
<1>4. /\ K[1].id = "set-bootstrap-in-progress-flag" /\ K[2].id = "sync-pillar"
      /\ K[3].id = "update-pillar" /\ K[4].id = "update-grains" /\ K[5].id = "update-mine"
      /\ K[6].id = "update-modules" /\ K[7].id = "salt-master-setup"
      /\ K[8].id = "salt-minion-sls" /\ K[9].id = "update-mine-two"
      /\ K[1].fun = "setInProgress" /\ K[2].fun = "sync_pillar"
      /\ K[3].fun = "refresh_pillar" /\ K[4].fun = "refresh_grains"
      /\ K[5].fun = "mine.update" /\ K[6].fun = "sync_all" /\ K[7].fun = "salt.master"
      /\ K[8].fun = "salt.minion" /\ K[9].fun = "mine.update"
  <2>1. /\ PrepareSteps[1].id = "set-bootstrap-in-progress-flag"
        /\ PrepareSteps[1].fun = "setInProgress"
        /\ PrepareSteps[2].id = "sync-pillar" /\ PrepareSteps[2].fun = "sync_pillar"
        /\ PrepareSteps[3].id = "update-pillar" /\ PrepareSteps[3].fun = "refresh_pillar"
        /\ PrepareSteps[4].id = "update-grains" /\ PrepareSteps[4].fun = "refresh_grains"
        /\ PrepareSteps[5].id = "update-mine" /\ PrepareSteps[5].fun = "mine.update"
        /\ PrepareSteps[6].id = "update-modules" /\ PrepareSteps[6].fun = "sync_all"
        /\ PrepareSteps[7].id = "salt-master-setup" /\ PrepareSteps[7].fun = "salt.master"
        /\ PrepareSteps[8].id = "salt-minion-sls" /\ PrepareSteps[8].fun = "salt.minion"
        /\ PrepareSteps[9].id = "update-mine-two" /\ PrepareSteps[9].fun = "mine.update"
    BY DEF PrepareSteps, Fn, St, StAll
  <2> QED  BY <1>2, <2>1, Zenon
<1>5. /\ K[10] = St("ca-setup", "caserver.initca", {"ca"}, 0, {})
      /\ K[11] = Fn("update-pillar-two", "refresh_pillar", {"ca-setup"})
      /\ K[12] = Fn("update-mine-tree", "mine.update", {"ca-setup"})
      /\ K[13] = St("generate-sa-key", "caserver.generate-serviceaccount-key", {"ca"}, 0,
                    {"ca-setup"})
      /\ K[14] = Fn("update-pillars", "refresh_pillar", {"ca-setup"})
      /\ K[15] = Fn("update-mine-again", "mine.update", {"generate-sa-key"})
  BY <1>3 DEF PkiSteps
<1>6. /\ K[16].id = "etcd-setup" /\ K[17].id = "kube-master-setup"
      /\ K[18].id = "kube-minion-setup" /\ K[19].id = "services-setup"
      /\ K[20].id = "super-master-wait-for-services" /\ K[21].id = "running-all-state-apply"
      /\ K[22].id = "set-bootstrap-complete-flag"
      /\ K[23].id = "clear-bootstrap-in-progress-flag"
      /\ K[16].fun = "etcd" /\ K[17].fun = "highstate" /\ K[18].fun = "highstate"
      /\ K[19].fun = "kube-cni" /\ K[20].fun = "coredns.deployment-wait"
      /\ K[21].fun = "highstate" /\ K[22].fun = "setComplete" /\ K[23].fun = "delInProgress"
      /\ "update-mine-again" \in K[17].require /\ "kube-master-setup" \in K[18].require
      /\ "kube-master-setup" \in K[21].require
  BY <1>3 DEF ClusterSteps, FlagSteps, St, StAll, Fn, FlagFn
<1>7. /\ K[10].id = "ca-setup" /\ K[11].id = "update-pillar-two"
      /\ K[12].id = "update-mine-tree" /\ K[13].id = "generate-sa-key"
      /\ K[14].id = "update-pillars" /\ K[15].id = "update-mine-again"
      /\ K[10].fun = "caserver.initca" /\ K[11].fun = "refresh_pillar"
      /\ K[12].fun = "mine.update" /\ K[13].fun = "caserver.generate-serviceaccount-key"
      /\ K[14].fun = "refresh_pillar" /\ K[15].fun = "mine.update"
      /\ K[11].kind = "function" /\ K[12].kind = "function" /\ K[14].kind = "function"
      /\ K[15].kind = "function" /\ K[10].kind = "state" /\ K[13].kind = "state"
      /\ K[12].by = "all" /\ K[15].by = "all"
      /\ K[10].by = "roles" /\ K[13].by = "roles"
      /\ K[10].roles = {"ca"} /\ K[13].roles = {"ca"}
      /\ K[12].require = {"ca-setup"}
      /\ K[13].require = {"ca-setup"} /\ K[15].require = {"generate-sa-key"}
  BY <1>5 DEF Fn, St
<1>8. \A s, t \in 1..23 : K[s].id = K[t].id => s = t
  <2>1. \A s \in 1..23 : \/ s = 1 \/ s = 2 \/ s = 3 \/ s = 4 \/ s = 5 \/ s = 6 \/ s = 7
                         \/ s = 8 \/ s = 9 \/ s = 10 \/ s = 11 \/ s = 12 \/ s = 13
                         \/ s = 14 \/ s = 15 \/ s = 16 \/ s = 17 \/ s = 18 \/ s = 19
                         \/ s = 20 \/ s = 21 \/ s = 22 \/ s = 23
    OBVIOUS
  <2> QED  BY <1>4, <1>6, <1>7, <2>1, SMTT(60)
<1>9. \A s \in 1..23 : K[s].fun = "highstate" => s \in {17, 18, 21}
  BY <1>4, <1>6, <1>7
<1>10. \A s \in 1..23 : K[s].fun = "highstate" =>
         \E t \in 1..23 : K[t].id \in K[s].require /\ (t = 15 \/ K[t].fun = "highstate")
  <2>1. 15 \in 1..23 /\ 17 \in 1..23  OBVIOUS
  <2>2. SUFFICES ASSUME NEW s \in {17, 18, 21}
                 PROVE  \E t \in 1..23 : /\ K[t].id \in K[s].require
                                         /\ t = 15 \/ K[t].fun = "highstate"
    BY <1>9
  <2>3. CASE s = 17  BY <1>6, <1>7, <2>1, <2>3
  <2>4. CASE s \in {18, 21}  BY <1>6, <2>1, <2>4
  <2> QED  BY <2>2, <2>3, <2>4
<1>11. \A s \in (10+1)..15 : s # 13 => K[s].kind # "state"
  <2>1. \A s \in (10+1)..15 : s \in {11, 12, 13, 14, 15}  OBVIOUS
  <2> QED  BY <1>7, <2>1
<1>12. /\ 10 \in 1..23 /\ 15 \in 1..23
       /\ 12 \in (10+1)..15 /\ 13 \in (12+1)..(15-1)
  OBVIOUS
<1> QED
  BY <1>1, <1>7, <1>8, <1>10, <1>11, <1>12, ZenonT(60) DEF Publishes, K
-------------------------------------------------------------------------------
(* The order of the dependencies *)

\* What can be left of a run on n: it asks for a certificate only where n needs one,
\* and neither that nor the services are reached before what n looks up is in the
\* mine, because the run would not have been rendered.
Possible(n) ==
  {c \in Chunk : /\ c = "cert" => Needs(n) # {}
                 /\ c \in {"cert", "services"} => Needs(n) \subseteq mine.pki}

OrderInv ==
  /\ mine.pki \subseteq pki
  /\ \A n \in Node : unit[n] \subseteq mine.addr /\ task[n] \in Seq(Possible(n))

LEMMA OrderInit == Init => OrderInv
BY EmptySeq DEF Init, OrderInv

\* Every run that can be rendered is possible.
LEMMA ChunksPossible ==
  ASSUME NEW n \in Node, NEW sls
  PROVE  /\ Renders(n, sls) => Chunks(n, sls) \in Seq(Possible(n))
         /\ Renders(n, "highstate") => Highstate(n) \in Seq(Possible(n))
<1> DEFINE S == Possible(n)
<1>1. /\ <<>> \in Seq(S) /\ <<"pki">> \in Seq(S) /\ <<"sakey">> \in Seq(S)
      /\ <<"unit", "etcd">> \in Seq(S) /\ <<"listen">> \in Seq(S)
      /\ <<"minion">> \in Seq(S) /\ <<"wait">> \in Seq(S) /\ <<"other">> \in Seq(S)
  <2>1. {"pki", "sakey", "unit", "etcd", "listen", "minion", "wait", "other"} \subseteq S
    BY DEF Possible, Chunk
  <2> HIDE DEF S
  <2> QED  BY <2>1
<1>2. Listen(n) \in Seq(S)  BY <1>1, Zenon DEF Listen
<1>3. ASSUME Renders(n, "highstate") PROVE Highstate(n) \in Seq(S)
  <2> DEFINE ca    == IF n = CA THEN <<"pki">> ELSE <<>>
             certs == IF Needs(n) # {} THEN <<"cert">> ELSE <<>>
             etcd  == IF n \in Etcd THEN <<"unit", "etcd">> ELSE <<>>
             after == IF n = CA \/ Needs(n) # {} THEN Listen(n) ELSE <<>>
  <2>1. Needs(n) \subseteq mine.pki  BY <1>3 DEF Renders
  <2>2. "services" \in S /\ (Needs(n) # {} => "cert" \in S)
    BY <2>1 DEF Possible, Chunk
  <2>3. <<"services">> \in Seq(S) /\ certs \in Seq(S)
    <3> HIDE DEF S
    <3> QED  BY <1>1, <2>2
  <2>4. ca \in Seq(S) /\ etcd \in Seq(S) /\ after \in Seq(S)  BY <1>1, <1>2, Zenon
  <2>5. Highstate(n) = ca \o certs \o etcd \o <<"services">> \o after  BY DEF Highstate
  <2> HIDE DEF ca, certs, etcd, after, S
  <2> QED  BY <2>3, <2>4, <2>5
<1>4. CASE sls = "highstate"
  BY <1>3, <1>4, ChunksType
<1>5. CASE sls # "highstate"
  <2>1. /\ <<"pki">> \o Listen(n) \in Seq(S) /\ <<"sakey">> \o Listen(n) \in Seq(S)
    <3> HIDE DEF S
    <3> QED  BY <1>1, <1>2
  <2> HIDE DEF S
  <2>2. Chunks(n, sls) \in Seq(S)  BY <1>1, <1>5, <2>1, Zenon DEF Chunks
  <2> QED  BY <1>3, <2>2 DEF S
<1> QED  BY <1>3, <1>4, <1>5

\* What is left of a run becomes shorter, or is a run that could be rendered.
LEMMA TaskPossible ==
  ASSUME TypeOK, OrderInv, Next, NEW k \in Node
  PROVE  task'[k] \in Seq(Possible(k))
<1>0. task[k] \in Seq(Possible(k)) /\ task \in [Node -> Seq(Chunk)] /\ <<>> \in Seq(Possible(k))
  BY EmptySeq DEF OrderInv, TypeOK
<1>1. CASE Start \/ Runner \/ Kill
  BY <1>0, <1>1 DEF Start, Runner, Skip, CallFunction, Dispatch, DispatchNobody, Collect, Kill
<1>2. ASSUME NEW n \in Node, RunTask(n) PROVE task'[k] \in Seq(Possible(k))
  <2>1. task[n] # <<>> /\ task' = [task EXCEPT ![n] = Tail(task[n])]
    BY <1>2, TaskFrame DEF Idle, Finish
  <2>2. task[k] # <<>> => Tail(task[k]) \in Seq(Possible(k))  BY <1>0, HeadTailProperties
  <2> QED  BY <1>0, <2>1, <2>2
<1>3. ASSUME NEW n \in Node, StartJob(n) PROVE task'[k] \in Seq(Possible(k))
  <2>1. \/ task' = task
        \/ /\ task' = [task EXCEPT ![n] = Chunks(n, Prog[step].fun)]
           /\ Renders(n, Prog[step].fun)
    BY <1>3 DEF StartJob
  <2> QED  BY <1>0, <2>1, ChunksPossible
<1>4. ASSUME NEW n \in Node, OwnHighstate(n) PROVE task'[k] \in Seq(Possible(k))
  BY <1>0, <1>4, ChunksPossible DEF OwnHighstate
<1>5. ASSUME NEW n \in Node, RestartMinion(n) \/ HostDown(n)
      PROVE  task'[k] \in Seq(Possible(k))
  BY <1>0, <1>5 DEF RestartMinion, HostDown, Abort
<1>6. ASSUME NEW n \in Node, MinePush(n) \/ RefreshPillar(n) \/ BootEtcd(n)
      PROVE  task'[k] \in Seq(Possible(k))
  BY <1>0, <1>6 DEF MinePush, RefreshPillar, BootEtcd
<1> QED
  BY <1>1, <1>2, <1>3, <1>4, <1>5, <1>6 DEF Next, ScheduledHighstate, StartMinion

\* What the mine can come to hold of the CA exists by then.
LEMMA MineKnows ==
  ASSUME TypeOK, Next
  PROVE  /\ mine'.pki \in {mine.pki, mine.pki \cup pki}
         /\ mine' = mine \/ UNCHANGED <<pki, cert, wal, installed, unit>>
<1>0. \A N : Mined(N).pki \in {mine.pki, mine.pki \cup pki}  BY DEF Mined
<1>1. CASE Start \/ Runner \/ Kill
  BY <1>0, <1>1 DEF Start, Runner, Skip, CallFunction, Dispatch, DispatchNobody, Collect,
     Kill, disk
<1>2. ASSUME NEW n \in Node, RunTask(n) PROVE mine' = mine
  BY <1>2, TaskFrame
<1>3. ASSUME NEW n \in Node, MinePush(n)
      PROVE  mine'.pki \in {mine.pki, mine.pki \cup pki} /\ UNCHANGED disk
  BY <1>0, <1>3 DEF MinePush
<1>4. ASSUME NEW n \in Node,
             \/ StartJob(n) \/ ScheduledHighstate(n) \/ RefreshPillar(n)
             \/ RestartMinion(n) \/ StartMinion(n) \/ BootEtcd(n) \/ HostDown(n)
      PROVE  mine' = mine
  BY <1>4 DEF StartJob, ScheduledHighstate, RefreshPillar, RestartMinion, StartMinion,
     BootEtcd, HostDown
<1> QED  BY <1>1, <1>2, <1>3, <1>4 DEF Next, disk

LEMMA OrderNext == TypeOK /\ OrderInv /\ [Next]_vars => OrderInv'
<1> SUFFICES ASSUME TypeOK, OrderInv, [Next]_vars PROVE OrderInv'
  OBVIOUS
<1>1. CASE UNCHANGED vars
  BY <1>1 DEF vars, OrderInv, Possible, Needs, Master, With
<1>2. CASE Next
  <2>1. mine.addr \subseteq mine'.addr /\ mine.pki \subseteq mine'.pki  BY <1>2, Monotone
  <2>2. pki \subseteq pki'
    <3>1. ASSUME NEW n \in Node, RunTask(n) PROVE pki \subseteq pki'
      BY <3>1, TaskFrame DEF TypeOK
    <3>2. CASE Start \/ Runner \/ Kill
      BY <3>2 DEF Start, Runner, Skip, CallFunction, Dispatch, DispatchNobody, Collect,
         Kill, disk
    <3>3. ASSUME NEW n \in Node,
                 \/ StartJob(n) \/ ScheduledHighstate(n) \/ MinePush(n) \/ RefreshPillar(n)
                 \/ RestartMinion(n) \/ StartMinion(n) \/ BootEtcd(n) \/ HostDown(n)
          PROVE  pki' = pki
      BY <3>3 DEF StartJob, ScheduledHighstate, MinePush, RefreshPillar, RestartMinion,
         StartMinion, BootEtcd, HostDown, disk
    <3> QED  BY <1>2, <3>1, <3>2, <3>3 DEF Next
  <2>3. mine'.pki \subseteq pki'  BY <1>2, <2>2, MineKnows DEF OrderInv
  <2>4. ASSUME NEW k \in Node PROVE unit'[k] \subseteq mine'.addr
    <3>1. ASSUME NEW n \in Node, RunTask(n) PROVE unit'[k] \subseteq mine'.addr
      <4>1. unit' \in {unit, [unit EXCEPT ![n] = mine.addr \cap Etcd]}
        BY <3>1, TaskFrame
      <4>2. unit[k] \subseteq mine.addr /\ unit \in [Node -> SUBSET Etcd]
        BY DEF OrderInv, TypeOK
      <4> QED  BY <2>1, <4>1, <4>2
    <3>2. CASE Start \/ Runner \/ Kill
      BY <2>1, <3>2 DEF Start, Runner, Skip, CallFunction, Dispatch, DispatchNobody, Collect,
         Kill, disk, OrderInv
    <3>3. ASSUME NEW n \in Node,
                 \/ StartJob(n) \/ ScheduledHighstate(n) \/ MinePush(n) \/ RefreshPillar(n)
                 \/ RestartMinion(n) \/ StartMinion(n) \/ BootEtcd(n) \/ HostDown(n)
          PROVE  unit' = unit
      BY <3>3 DEF StartJob, ScheduledHighstate, MinePush, RefreshPillar, RestartMinion,
         StartMinion, BootEtcd, HostDown, disk
    <3> QED  BY <1>2, <2>1, <3>1, <3>2, <3>3 DEF Next, OrderInv
  <2>5. ASSUME NEW k \in Node PROVE task'[k] \in Seq(Possible(k)')
    <3>1. Possible(k) \subseteq Possible(k)'
      BY <2>1 DEF Possible, Needs, Master, With
    <3>2. task'[k] \in Seq(Possible(k))  BY <1>2, TaskPossible
    <3> HIDE DEF Possible
    <3> QED  BY <3>1, <3>2, SeqMonotonic
  <2> QED  BY <2>3, <2>4, <2>5 DEF OrderInv, Possible, Needs, Master, With
<1> QED  BY <1>1, <1>2

\* BringUp's copy of the operator is the one that the facts are about.
LEMMA SameCardinality == \A S : Goal!Cardinality(S) = Cardinality(S)
BY Zenon DEF Cardinality, Goal!Cardinality

LEMMA GoalInit == Init => Goal!Init
BY DEF Init, Goal!Init

\* A piece of a state run does to its node what the dependencies allow.
LEMMA GoalTask ==
  ASSUME TypeOK, OrderInv, NEW n \in Node, RunTask(n)
  PROVE  Goal!Next \/ UNCHANGED Goal!vars
<1>0. /\ UNCHANGED <<mine, wal>>
      /\ pki \subseteq Secret /\ task[n] \in Seq(Possible(n))
  BY TaskFrame DEF TypeOK, OrderInv
<1>1. ~Idle(n) => Head(task[n]) \in Possible(n)
  BY <1>0, HeadTailProperties DEF Idle
<1> DEFINE R == [m \in Node |-> Needs(m)]
<1>2. R[n] = Needs(n)  OBVIOUS
<1>3. CASE CreatePki(n) \/ CreateSaKey(n)
  <2>1. pki' \in SUBSET Secret /\ pki \subseteq pki' /\ UNCHANGED <<cert, installed>>
    BY <1>0, <1>3 DEF CreatePki, CreateSaKey, Secret
  <2> QED  BY <1>0, <2>1 DEF Goal!Next, Goal!Create
<1>4. CASE SignCert(n)
  <2>1. Needs(n) # {} /\ Needs(n) \subseteq mine.pki
    BY <1>1, <1>4 DEF SignCert, Working, Possible
  <2>2. cert' \in {cert, cert \cup {n}} /\ UNCHANGED <<pki, installed>>
    BY <1>4 DEF SignCert
  <2>3. CASE cert' = cert \cup {n}
    BY <1>0, <1>2, <2>1, <2>2, <2>3 DEF Goal!Next, Goal!Trust
  <2> QED  BY <1>0, <2>2, <2>3 DEF Goal!vars
<1>5. CASE StartServices(n)
  <2>1. Needs(n) \subseteq mine.pki
    BY <1>1, <1>5 DEF StartServices, Working, Possible
  <2>2. UNCHANGED <<pki, cert>>  BY <1>5 DEF StartServices
  <2>3. \/ installed' = installed
        \/ /\ installed' = installed \cup {n}
           /\ Needs(n) # {} => n \in cert
           /\ n \in Master => EtcdAvailable
    BY <1>5 DEF StartServices
  <2>4. CASE /\ installed' = installed \cup {n}
             /\ Needs(n) # {} => n \in cert
             /\ n \in Master => EtcdAvailable
    <3>1. n \in Master => Goal!Formed
      BY <2>4, ServingFormed, SameCardinality DEF Formed, Goal!Formed
    <3>2. Goal!Serve(n)
      BY <1>0, <1>2, <2>1, <2>2, <2>4, <3>1 DEF Goal!Serve
    <3> QED  BY <3>2 DEF Goal!Next
  <2> QED  BY <1>0, <2>2, <2>3, <2>4 DEF Goal!vars
<1>6. CASE \/ WriteUnit(n) \/ StartEtcd(n) \/ ActOnListen(n) \/ ConfigureMinion(n)
           \/ WaitForCoredns(n) \/ RunOther(n) \/ RunWithoutMaster(n)
  BY <1>6 DEF WriteUnit, StartEtcd, ActOnListen, ConfigureMinion, WaitForCoredns, RunOther,
     RunWithoutMaster, disk, Goal!vars
<1> QED  BY <1>3, <1>4, <1>5, <1>6 DEF RunTask

LEMMA GoalNext == TypeOK /\ OrderInv /\ [Next]_vars => [Goal!Next]_Goal!vars
<1> SUFFICES ASSUME TypeOK, OrderInv, [Next]_vars PROVE Goal!Next \/ UNCHANGED Goal!vars
  OBVIOUS
<1>1. CASE UNCHANGED vars  BY <1>1 DEF vars, Goal!vars
<1>2. ASSUME NEW n \in Node, RunTask(n) PROVE Goal!Next \/ UNCHANGED Goal!vars
  BY <1>2, GoalTask
<1>3. ASSUME NEW n \in Node, BootEtcd(n) PROVE Goal!Next
  <2>1. /\ n \in cert /\ wal[n] = {} /\ n \in unit[n]
        /\ wal' = [wal EXCEPT ![n] = unit[n]]
        /\ UNCHANGED <<pki, mine, cert, installed>>
    BY <1>3 DEF BootEtcd
  <2>2. unit[n] \in SUBSET (Etcd \cap mine.addr)  BY DEF OrderInv, TypeOK
  <2> QED  BY <2>1, <2>2 DEF Goal!Next, Goal!Join
<1>4. CASE CallFunction \/ \E n \in Node : MinePush(n)
  <2>1. Next  BY <1>4 DEF Next, Runner
  <2>2. mine'.pki \in {mine.pki, mine.pki \cup pki}  BY <2>1, MineKnows
  <2>3. mine.addr \subseteq mine'.addr  BY <2>1, Monotone
  <2>4. mine'.addr \in SUBSET Node  BY <2>1, TypeNext DEF TypeOK
  <2>5. UNCHANGED <<pki, cert, wal, installed>>
    BY <1>4 DEF CallFunction, MinePush, disk
  <2> QED  BY <2>2, <2>3, <2>4, <2>5 DEF Goal!Next, Goal!Publish
<1>5. CASE Start \/ Skip \/ Dispatch \/ DispatchNobody \/ Collect \/ Kill
  BY <1>5 DEF Start, Skip, Dispatch, DispatchNobody, Collect, Kill, disk, Goal!vars
<1>6. ASSUME NEW n \in Node,
             \/ StartJob(n) \/ ScheduledHighstate(n) \/ RefreshPillar(n)
             \/ RestartMinion(n) \/ StartMinion(n) \/ HostDown(n)
      PROVE  UNCHANGED Goal!vars
  BY <1>6 DEF StartJob, ScheduledHighstate, RefreshPillar, RestartMinion, StartMinion,
     HostDown, disk, Goal!vars
<1> QED  BY <1>1, <1>2, <1>3, <1>4, <1>5, <1>6 DEF Next, Runner

\* Whatever the deployment and the orchestration, and whatever crashes or runs at
\* the same time, the nodes come up in the order of what they depend on: no
\* certificate before the CA's secrets are published, no member of etcd before its
\* certificate and the addresses of its peers, no API server before etcd has formed
\* a cluster; and nothing that has come up is taken back (BringUp).
THEOREM DependenciesAreKept == Spec => DependenciesKept
<1>1. TypeOK /\ OrderInv /\ [Next]_vars => [Goal!Next]_Goal!vars
  BY GoalNext
<1>2. Spec => []OrderInv
  BY OrderInit, OrderNext, TypeCorrect, PTL DEF Spec
<1> QED
  BY <1>1, <1>2, GoalInit, TypeCorrect, PTL DEF Spec, DependenciesKept, Goal!Spec

-------------------------------------------------------------------------------
(* What the order of the steps makes of the states *)

\* Whatever is up stands on what it depends on.
UpInOrder ==
  /\ \A n \in cert : Needs(n) # {} /\ Needs(n) \subseteq mine.pki
  /\ \A n \in Etcd : wal[n] # {} => n \in cert /\ n \in wal[n] /\ wal[n] \subseteq mine.addr
  /\ \A n \in installed : /\ Needs(n) # {} => n \in cert
                          /\ n \in Master => Formed
  /\ mine.pki \subseteq pki

\* No step of BringUp takes the ground from under what is up: only what such a step
\* may do is used, nothing of how the orchestration does it.
LEMMA UpNext ==
  ASSUME TypeOK, UpInOrder, [Goal!Next]_Goal!vars
  PROVE  UpInOrder'
<1> DEFINE R == [m \in Node |-> Needs(m)]
<1>0. /\ Etcd' = Etcd /\ Master' = Master /\ Etcd \subseteq Node
      /\ \A n : Needs(n)' = Needs(n)
      /\ cert \subseteq Node /\ installed \subseteq Node
      /\ wal \in [Node -> SUBSET Etcd]
  BY DEF Etcd, Master, With, Needs, TypeOK
<1>1. /\ mine.pki \subseteq mine'.pki /\ mine.addr \subseteq mine'.addr
      /\ mine'.pki \subseteq pki'
  BY DEF UpInOrder, Goal!Next, Goal!vars, Goal!Create, Goal!Publish, Goal!Trust, Goal!Join,
     Goal!Serve
<1>2. cert' = cert
      \/ \E n \in Node : Needs(n) # {} /\ Needs(n) \subseteq mine.pki /\ cert' = cert \cup {n}
  BY DEF Goal!Next, Goal!vars, Goal!Create, Goal!Publish, Goal!Trust, Goal!Join, Goal!Serve
<1>3. wal' = wal
      \/ \E n \in Node : \E list \in SUBSET (Etcd \cap mine.addr) :
           n \in cert /\ wal[n] = {} /\ n \in list /\ wal' = [wal EXCEPT ![n] = list]
  BY DEF Goal!Next, Goal!vars, Goal!Create, Goal!Publish, Goal!Trust, Goal!Join, Goal!Serve
<1>4. installed' = installed
      \/ \E n \in Node : /\ installed' = installed \cup {n}
                         /\ Needs(n) # {} => n \in cert
                         /\ n \in Master => Formed
  BY SameCardinality DEF Goal!Next, Goal!vars, Goal!Create, Goal!Publish, Goal!Trust,
     Goal!Join, Goal!Serve, Goal!Formed, Formed
<1>5. Formed => Formed'
  <2>1. \A n \in Node : wal[n] # {} => wal'[n] = wal[n]  BY <1>0, <1>3
  <2> QED  BY <2>1, FormedStable
<1>6. \A n \in cert' : Needs(n) # {} /\ Needs(n) \subseteq mine'.pki
  BY <1>1, <1>2 DEF UpInOrder
<1>7. cert \subseteq cert'  BY <1>2
<1>8. \A n \in Etcd : wal'[n] # {} => n \in cert' /\ n \in wal'[n] /\ wal'[n] \subseteq mine'.addr
  BY <1>0, <1>1, <1>3, <1>7 DEF UpInOrder
<1>9. \A n \in installed' : (Needs(n) # {} => n \in cert') /\ (n \in Master => Formed')
  BY <1>4, <1>5, <1>7 DEF UpInOrder
<1> QED  BY <1>0, <1>1, <1>6, <1>8, <1>9 DEF UpInOrder

\* At every moment of every bootstrap, a certificate's holder could look up the secrets,
\* a member of etcd has a certificate and a list of known members with itself, a node
\* that is set up has the certificate it needs and a master's etcd has formed: what
\* DependenciesKept says of the steps, said of the states.
THEOREM WhatIsUpStands == Spec => []UpInOrder
<1>1. Init => UpInOrder
  BY DEF Init, UpInOrder, Etcd, With
<1>2. TypeOK /\ OrderInv /\ [Next]_vars => [Goal!Next]_Goal!vars
  BY GoalNext
<1>3. TypeOK /\ UpInOrder /\ [Goal!Next]_Goal!vars => UpInOrder'
  BY UpNext
<1>4. Spec => []OrderInv
  BY OrderInit, OrderNext, TypeCorrect, PTL DEF Spec
<1> QED  BY <1>1, <1>2, <1>3, <1>4, TypeCorrect, PTL DEF Spec
===============================================================================
