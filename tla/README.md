# A formal model of salt-kube-lite

salt-kube-lite provisions a Kubernetes cluster (v1.21, etcd 3.5, Cilium,
CoreDNS) with SaltStack 3003: a salt master runs *orchestrations*, minions run
*states* rendered from formulas, roles and pillars. There is no test suite. What
decides whether a cluster comes up is the order in which an orchestration's
steps, the restarts and highstates the minions perform on their own, the mine
and the hosts' failures interleave. That is what these modules model.

Paths below are relative to the repository.

## 1. Inventory

### Components, their state and operations

| component | source | state | operations |
|---|---|---|---|
| bootstrap orchestration | `salt/local/orch/kubernetes.sls` | position in the file, which steps succeeded | 23 steps: functions, runners and state runs, with `require` and `batch` |
| roles and top file | `salt/local/top.sls`, `salt/local/roles/` | none; decides what a highstate consists of | – |
| CA and certificates | `formulas/caserver`, `formulas/cert`, `_macros/certs.jinja`, `pillar/local/kube/ca.sls` | CA key and certificate, SA key, signing policies, each node's certificate | create CA, create SA key, publish both in the mine, sign, restart the minion when policies change |
| etcd formula | `formulas/etcd` | unit file with `--initial-cluster`, data directory | render the unit, start, serve with a quorum |
| Kubernetes services | `formulas/kube*` | services of the node | install and start, wait for the API server, for CoreDNS |
| minion lifecycle | `formulas/salt/minion.sls`, `pillar/local/salt/` | configuration, in-memory pillar, running state run | reconfigure and restart in the background, startup and scheduled highstate, mine pushes |
| salt master | `formulas/salt/master.sls`, `pillar/local/salt/master.sls` | mine cache, reactor map | serve files, templates and the mine; run orchestrations |
| deployment layout | `Vagrantfile`, `Makefile` | roles of each host | `make init` |
| retrying states | `_states/caasp_retriable.py`, `caasp_cmd.py`, `caasp_http.py`, `caasp_service.py`, `_modules/caasp_http.py` | attempts made, time passed | run a state until it succeeds, wait for a URL, for a service to stay up |
| node selection | `_modules/caasp_nodes.py` | none (queries minions' grains) | prioritised choice of nodes, replacement of a removed node |
| etcd membership | `_modules/caasp_etcd.py`, `_states/caasp_etcd.py` | etcd's member list, each node's configuration | target size, surplus and additional members, health, add, configure, remove |
| certificate refresh | `salt/local/orch/refresh-certs.sls` | flag grain, position | delete and reissue certificates, wait for start events |
| etcd migration | `salt/local/orch/etcd-migrate.sls` | backup directory, services | stop, back up, migrate, start |
| hosts file | `_modules/caasp_hosts.py`, `formulas/etc-hosts` | `/etc/hosts`, `/etc/caasp/hosts` | keep the user's entries, collect the nodes, write |
| reactor | `reactor/`, `orch/update-etc-hosts.sls`, `orch/setting_roles.sls`, `_runners/alert_on_failure.py` | roles and grains | start orchestrations on events |
| managed files | `_states/caasp_file.py` | files | retried file states |
| container runtime | `_modules/caasp_cri.py`, `_states/caasp_cri.py`, `formulas/containerd` | containers | find a container, stop it, wait for the next |
| pure helpers | `_modules/caasp_{filters,grains,log,net,pillar}.py`, `_grains` | none | lookups and formatting |
| left aside | `orch/k8s.sls` (calls functions that do not exist), cron scripts, downloads, host preparation, monitoring and add-ons, the vendored salt formula | | |

### How they interact

- The **runner** publishes a step to minions and waits for their returns. Only
  one state run at a time executes on a minion; a second one is *refused*, and
  the steps do not queue.
- The **mine** is the only channel from node to node: addresses, `ca.crt` and
  the SA key reach the other nodes' templates through it, so a template sees
  what a minion pushed at some earlier time. Jinja is strict about undefined
  values: a lookup that finds nothing fails the whole state run.
- **Signing** is a call (`publish`) from one minion to the CA's minion.
- **Restarts**: `salt.minion` restarts each minion in the background;
  `formulas/cert/require.sls` restarts a minion at the end of the run that
  writes its signing policies. A starting minion applies its highstate.
- The **grains** `bootstrap_in_progress` and `bootstrap_complete` are the only
  persistent memory of an orchestration, and target later steps.
- The **schedule** in the pillar applies the highstate every ten minutes.

### Hard behaviours, and the property that makes each component correct

- *Ordering under failures*: steps go on after failed ones unless they require
  them. No worker may be set up before the CA, etcd and an API server
  (`WorkersLast`).
- *Interleaving of the run with restarts*: a restart that salt-minion-sls left in
  the background hits later steps. Members must nevertheless bootstrap etcd
  with one list (`OneEtcdCluster`), and highstates must not be sent out before
  the mine holds the secrets (`SecretsPublished`).
- *Partial failure*: a run that reports success has reached every node
  (`SuccessMeansInstalled`).
- *Crash and rerun*: whatever happens in a run that reaches its end, the flag
  is gone (`FlagCleared`).
- *Liveness*: the runner never waits for ever (`RunEnds`) and the cluster comes
  up by itself once the CA exists (`Converges`). The latter matters, since the
  first run usually cannot succeed: certificates come with the highstate that
  waits for etcd, and etcd waits for a quorum of members with certificates.
- *Dependencies*: whatever crashes, restarts or is run again, everything comes up in the
  order of its dependencies, for good (`DependenciesKept`), and nothing that a minion does
  on its own takes the place of the run that a step waits for (`JobsSettle`).
- *Choices made while the grains change*: a node to be removed leaves its roles
  with others (`RoleKept`, `RolesCompatible`); members that come and go never
  take etcd below or above the size that is wanted (`SurplusKeepsWanted`,
  `AdditionalWithinWanted`), which is the documented one where that is odd
  (`SizeIsDocumentedIfOdd`); a search finds the best of the nodes to which nothing
  happens meanwhile (`SearchIsBest`), each once (`FoundSound`).
- *Retries inside of retries*: the attempts of a state enclose an HTTP query with a
  deadline, which encloses another one with the same deadline; or a container's
  restart with two polls and a wait. The first success must be the last try
  (`PromiseKept`), the deadlines must add up (`GivesUpInTime`), the state must end
  (`RetryEnds`) and come nearer to its end with every step (`ComesToAnEnd`), and what it
  reports must be so although the process that is waited for comes and goes on its own
  (`ServiceNotMissed`, `RestartIsNew`, `StableIsSame`).
- *A file that is replaced in two steps*: a run that is killed after it has truncated
  a hosts file must not lose what the user has written there (`CustomSurvives`);
  runs that are not disturbed leave exactly what there is (`HostsExact`), and a
  further one changes nothing (`Idempotent`).
- *Members that join and leave one at a time*: every call is several commands to
  etcd, from several nodes at once. Nobody else than the named member is removed
  (`RemovedIsTarget`), and a joiner is configured with the members that the cluster
  has (`ListMatchesWhenAlone`).

`PROJECT.json` lists every hazard with its line and the properties that would
catch it going wrong.

## 2. Modules

| module | models |
|---|---|
| `Orchestrations` | `kubernetes.sls` as data: a sequence of step records |
| `Bootstrap` | the runner that walks such a sequence, the minions, what their state runs do, failures |
| `BringUp` | what the bootstrap is for, without an orchestration: create and publish the secrets, trust a node, join etcd, serve; `Bootstrap` implements it |
| `MCBootstrap` | instances for TLC |
| `BootstrapProofs` | theorems about `Bootstrap` and their proofs: types, the flag, the order, the jobs, success |
| `BootstrapMineProofs` | theorems about what the mine holds when it is read: one etcd cluster, the secrets; and that `Bootstrap` implements `BringUp` |
| `NodeSearch` | `get_with_prio`: the search for nodes by priority rules |
| `NodeSelection` | `get_replacement_for`, on top of `NodeSearch` |
| `EtcdSizing` | `get_cluster_size`, `get_surplus_etcd_members`, `get_additional_etcd_members`, on top of `NodeSearch` |
| `EtcdMembership` | health, `member_add`, `member_remove` and the list a node is configured with, of several nodes at once |
| `RetryLoop` | the loop that the retrying states have in common, and the process they wait for |
| `HttpWait` | the state and the module function `wait_for_successful_query`, on top of `RetryLoop` |
| `ContainerRestart` | `stop_container_and_wait`, on top of `RetryLoop` |
| `Retriable` | all retrying states: the two above, `caasp_cmd.run`, `caasp_service.running_stable` |
| `BoundedRetry` | what a retrying state promises; `Retriable` implements it |
| `EtcHosts` | `caasp_hosts.managed` with its two files and its interruptions |
| `Situations`, `MCNodeSearch`, `MCNodeSelection`, `MCEtcdSizing`, `MCEtcdMembership`, `MCRetriable`, `MCEtcHosts` | instances for TLC |
| `NodeSearchProofs`, `NodeSelectionProofs`, `EtcdSizingProofs`, `EtcdMembershipProofs`, `RetriableProofs`, `EtcHostsProofs` | theorems about them and their proofs |

### `Bootstrap`: correspondence with the code

The orchestrator is an interpreter over `Prog`, so one module serves any
orchestration file. Its variables:

- `step`, `passed`, `failed`, `job` – the runner. `passed` holds the ids of the
  steps that succeeded, restricted to those a later step still requires
  (`Pending`): an equivalent, smaller state.
- `minion`, `task`, `clean`, `pillar`, `asked`, `conf` – each minion process. `asked`
  are the minions that `saltutil.refresh_pillar` has asked for a new pillar and that
  have not compiled it yet. A state run
  is a sequence of *chunks*, each one the states between which nothing else can
  be observed: `pki` (`caserver.initca`), `sakey`, `cert` (certs macro), `unit`
  and `etcd` (etcd formula), `services` (the Kubernetes roles), `minion`
  (`salt.minion`), `wait` (CoreDNS), `listen` (the listener of
  `cert/require.sls`), `other`.
- `flag`, `complete` – the two grains.
- `policy`, `pki`, `cert`, `unit`, `wal`, `installed` – what is on the nodes'
  disks. `wal[n]` is the initial cluster with which etcd on `n` bootstrapped,
  which no later configuration changes.
- `mine` – the master's cache.

Actions of the runner: `Start`, `Skip` (a requisite did not succeed),
`CallFunction`, `Dispatch` / `DispatchNobody` / `StartJob` / `Collect` for state
steps, `Kill`. Of the minions: one action per chunk (`RunTask`),
`ScheduledHighstate`, `MinePush`, `RefreshPillar`, `RestartMinion`, `StartMinion`, `BootEtcd`
(systemd, outside of any run), `HostDown`.

`Goal` maps `Bootstrap` to `BringUp`: `created` is `pki`, `published` and `known` are the
two halves of the mine, `trusted` is `cert`, `cluster` is `wal`, `ready` is `installed`, and
`Required` is what a node's templates look up (`Needs`). The runner, its requisites,
targets and jobs have no counterpart: whatever they do is a step of `BringUp` or none.

### `NodeSearch`, `NodeSelection`, `EtcdSizing`: correspondence with the code

These functions run on the master and know the nodes by their grains, which they
query again and again: `grains` are the nodes' roles, `bootstrap_complete` and
whether one of the `*_in_progress` grains is set. `Change` is what the rest of the
system may do between two queries: a node is bootstrapped or is taken for some
work. Roles do not change, which the code relies on as well (it keeps the lists
of masters, minions and members for the whole call).

- `Prio` is the list of rules of each purpose, `Candidates` is `get_with_expr` with
  the arguments `get_with_prio` passes, `TryRule` is one turn of its loop, and the
  order in which the mine returns the nodes is any.
- `LeftOut` is what `'not L@' + '|'.join(excluded)` matches: Salt's list matcher
  separates names with commas, so only a single name is left out.
- `NodeSelection` walks through the parts of `get_replacement_for` with `stage`:
  `Check`, then for etcd, master and minion `SkipRole`, or `LookFor` with the
  search, then `Assign`, `Refuse` or `GoWithout`, and `Conclude`. `excluded` and
  the user's replacement (`given`) are any.
- `touched` is history: the nodes whose grains have changed since the search began.
- `EtcdSizing` computes the size, searches with `LookForSurplus` or
  `LookForAdditional`, and `Return` cuts the surplus. `listed` says whether the
  argument `etcd_members` is given; without it `get_additional_etcd_members` ends with
  a TypeError as soon as a member is missing (`AddListToKeys`).

The queries find the nodes by the grain `nodename` in the mine, which the pillar of
this deployment does not export (`pillar/local/salt/mine.sls`), so that here they find
nobody at all; they are modelled as if it did (`Candidates`, and `Endpoints` of
`EtcdMembership`).

Left out: candidates without any role (`USE_UNASSIGNED` is False and nobody passes
anything else); lists of nodes given as arguments that differ from what the query
finds (the only caller, `k8s.sls`, passes the result of the very same query); the warnings about a replacement that
differs from the one before, which is dead code, as a replacement that is known
is the candidate of every later role. `_utils/caasp_log` is not in the repository,
although all of these functions log with it; they are modelled as if it were
installed.

### `EtcdMembership`: correspondence with the code

`members` is etcd's own list: a member has an id that is never given again, and is
`started` or not. `op`, `about` and `found` are the call each node executes: what it
does next, the node it is about, and the id that a lookup has returned, which is the
state that may be stale when it is used. `unit` is what the node is configured with.
Every call of etcdctl is a step of its own:

- `ShouldRegister` is `should_register_etcd_member`: nothing on the first bootstrap,
  then `healthy`, then `is_member_registered`. The last never finds anything
  (`Registered`): it looks for the client URL (port 2379) among the peer URLs (2380),
  and the regular expression of the list leaves a leading space in the peer URL of a
  member that has not been started.
- `LookUpToAdd`, `MemberAdd` are `member_add`; `LookUpToRemove`, `MemberRemove` are
  `member_remove`. `MemberId` is `get_member_id`, `Endpoints` is `get_endpoints` with its
  arguments, `Answers` says whether any endpoint serves the call. (The member list of
  etcd 3.5 needs a quorum; here any started member serves it, which allows more.)
- `Configure` renders the unit with `get_current_endpoints_with_self` (`Members`).
- `StartEtcd`, `EtcdStops` and `KillCall` are the world outside.

### `RetryLoop`, `HttpWait`, `ContainerRestart`, `Retriable`: correspondence

One state is tried in each behaviour: `kind` says which, `attempt` counts from 1,
`stage` is the point in its code. `clock`, `began` and `from` are the time, when the
try and when its inner loop began: a call takes any of the `Durations`, a sleep
`Interval` seconds. `inst`, `starts` and `upSince` are the process (server, container,
service, or what the command looks for), which starts and crashes at any time.

- `HttpWait`: the request goes out in `SendRequest`, and meanwhile the process may
  change; `Receive` has both loops: an error is repeated until the inner deadline,
  a response that does not match until the outer one. Salt reports 401 as an error,
  so a kube-apiserver that answers 401 is repeated up to the inner deadline before
  that very response is accepted as the one that is wanted.
- `ContainerRestart`: `PollSocket`/`SocketNotReady` (`__wait_CRI_socket`),
  `FindToStop`, `StopContainer` (whose error is ignored), and the wait with a socket
  poll and a `crictl ps` for each look.
- `Retriable` adds `RunCommand`/`RunUntil` (a command without `until` is done when it
  succeeds) and `StartService`/`Sample`, and `NextTry`, which is the sleep between two
  tries.

`triesLeft` and `progress` map a loop to `BoundedRetry`.

### `EtcHosts`: correspondence with the code

A file is `Absent`, `Empty` (it has been truncated, or has blank lines only) or has entries outside and inside
of the block that `formulas/etc-hosts` manages. `pc` walks through `managed`:
`ReadHosts`, `Save`/`SaveWrite`/`SaveClean` (the copy to `/etc/caasp/hosts`, only in the
first run: open, write, remove the block), `LoadSaved`, `QueryMine` (four queries, each
on its own), `Truncate`, `Write`. `FailToLoad` is the IndexError for a file without
lines. `Kill` may come between any two; `AddCustom` is the user, who is told to edit
`/etc/caasp/hosts`; `ChangeGroup` is the mine. `custom`, `settled` and `fresh` are
history: what the user has entered, whether a run has ended undisturbed, and whether
anything has changed since it began.

### What is external

The repository has no code for Salt, systemd, kubelet and etcd; the following is
modelled from how the code uses them and is marked external in the map: the
runner's semantics of requisites, targets and batches; that a batch leaves out
minions that do not answer while an unbatched step counts them as failed; that
`salt.function` leaves them out too; the refusal of a second state run; the loss
of a run and its result when a minion restarts; etcd's static bootstrap and
majority rule, its refusal of a change that would lose the quorum
(`Growable`, strict-reconfig-check) and of a member that starts with a list which is
not the cluster's; the HTTP server's responses; the process that systemd or kubelet
starts again, and what `service.status` returns (a pid, or under systemd a boolean).

### Abstractions of `Bootstrap`, and why they are sound

- A failed state does not stop a run (no `failhard`); what the properties need
  of a failed run is that its later chunks still execute and its result is
  "failed".
- Without the master no template can be fetched: each chunk that is left fails
  without effect. In reality the chunk in progress may have some effect first,
  which is the behaviour in which the master goes down just after it.
- `saltutil.refresh_pillar` returns before the pillar has been compiled. With
  `Prompt = FALSE` it is in place at any later time, or with the next highstate or start
  of the minion; with `Prompt = TRUE` before the next step of the run.
- The restart of the master by salt.master is not modelled; its host going
  down is.
- The guards of `initca.sls` that test `directory_exists` on files are always
  true, so `CreatePki` relies on the x509 states being idempotent.
- The result of a run that ends with the listener's restart may or may not get
  out (`ActOnListen` and `RestartMinion`): the restart is issued in the very
  process that has to return it (`multiprocessing: false`).
- The services issue certificates of their own with the same macro. They are part of
  `StartServices`, which may fail, or find its certificates still good, when the CA
  cannot sign.
- A restart that the listener asks for coalesces with a pending background one.
- The timing of scheduled highstates is not constrained: one may start whenever
  the minion is idle. This covers every period and phase of the schedule.
- The system stops when the operator's last run is over and everything has
  settled, hence `CHECK_DEADLOCK FALSE`.

## 3. Runs

The bounds are `MaxRuns` (runs of the orchestration the operator starts),
`MaxKills` (kills of the runner), `MaxDowns` (hosts that go down, to come back at
any later time) and the number of hosts. Minions start with a current or with
a stale pillar; `Prompt` says whether a refreshed one is in place before the next step.

| run | instance | question |
|---|---|---|
| `bootstrap_crash` | 2 hosts, 1 crash, late pillars, fairness | type correctness; no worker before CA, etcd, API server; secrets published in time; every run ends; the cluster comes up all the same, in the order of its dependencies (`BringUp`); results stay |
| `bootstrap_rerun` | 2 hosts, 2 runs, 1 kill, prompt pillars | one etcd membership, no flag left |
| `bootstrap_three` | 3 etcd members, symmetric minions, prompt pillars | one etcd membership; success means every node |
| `bootstrap_complete` | 2 hosts | **violated**: `bootstrap_complete` only where setup succeeded |

What these instances leave out (a CA on a host of its own, several workers, more
crashes) is covered by the theorems `WorkersComeLast`, `SuccessIsComplete`,
`OneCluster`, `SecretsInTime` and `DependenciesAreKept` for every deployment. The run
`bootstrap_crash` has a single member of etcd, so `Converges` does not include waiting for a
quorum of several members, nor a cluster that has split: with two members its behaviours
under fairness are too many to check (about two million states before the end was in
sight). Several members are in `bootstrap_rerun` and `bootstrap_three`, for safety.

The other modules are bounded by the number of nodes; `MaxChanges` (changes of grains,
or of the mine and the user's entries, during the calls), `MaxKills`, `MaxCrashes`
(crashes of etcd and killed calls together), `MaxAdds`; the values of the pillar
(`Pillar`) and of the argument `num_wanted` (`MaxArg`), and the combinations of roles
(`Situations`). For the retries `Attempts`, `Interval`, `WaitFor`, `Timeout`,
`SocketTimeout` and `InARow` are parameters of the code; `CallTime` bounds the time of
one call and `MaxStarts` the number of times the process starts.

| run | instance | question |
|---|---|---|
| `replacement` | 3 nodes, 1 change, every combination of roles | roles stay covered and compatible; the final check holds |
| `sizing` | 4 nodes, 1 change, sizes 0 to 2 by pillar and argument | the size is the documented one where that is odd; members that come and go fit it; each search finds the best of the nodes that do not change, in order, and no duplicates, not too many, no admin or CA |
| `search_excluded` | 3 nodes | **violated**: excluded nodes are not found |
| `sizing_surplus` | 4 nodes | **violated**: enough surplus members are returned |
| `membership` | 3 nodes, 2 adds, 1 crash or kill | only the named member goes; who joins alone gets the cluster's members |
| `waits` | six kinds of state, 2 to 4 attempts, calls of 1 or 2 seconds, 2 starts, fairness | the deadlines add up; a service that is there is not missed; a restarted container is a new one; a stable service is the same process; each loop implements `BoundedRetry`; it ends, and every step brings it nearer to that |
| `waits_restart` | the same, calls of 1 second | **violated**: a container that is reported as restarted is another one |
| `hosts` | 2 nodes, 2 entries or no file at first, 2 changes, 2 kills | the user's entries survive; the file is exact; a further run changes nothing |

`waits` has 200 thousand distinct states, `hosts` and `membership` more than a million
each with symmetry.

*Why the bounds are enough.* The rules look at one node at a time, so three
nodes (one to remove, one to replace it, one that has the role anyway) have all
the relations the functions distinguish; four leave a surplus of two and a size
of three. What holds is proved for every number of nodes and changes (section 4).
For the bootstrap, one crash, one kill or one rerun at an arbitrary
moment already separates all the properties from their mutants; two hosts have
the layouts of etcd that matter (one member, or a majority that is everybody). A
third host is needed for a majority that is not everybody, and for batches.
Two kills separate an interrupted save from an interrupted write of the hosts file,
and two changes let the user and the mine both change. Two adds with three nodes let
two nodes join at once, and one be added again after its removal with an id that a
pending `member_remove` must not hit. In `waits`, a call of two seconds with deadlines
of two makes every comparison with a deadline fall on either side and on it; two starts
give a process that crashes and comes back.
`SYMMETRY Minions` is used in safety runs only, where the two minions have the
same roles. `OneOwnRun` bounds the run with three hosts: at most one minion
at a time is in a highstate of its own; the runs with two hosts do without it.

*Fairness* (`FairSpec`). Weak fairness of the runner and of each minion's
progress is what their processes do when they are scheduled; `StartMinion` fair
says that a host that went down comes back and that `salt-minion` is enabled at
boot; `ScheduledHighstate` and `MinePush` fair are the schedule and
`mine_interval` of the pillar; `BootEtcd` fair is `Restart=on-failure`. Nothing
makes the operator start a run, or the runner or a host fail. `Converges` is
conditional on the CA's existence, since only the operator's run creates it
where the master carries other roles. Weak fairness of `RunTask` lets a highstate
that always fails be repeated for ever, which the model shows not to happen.

`Retriable!FairSpec` is weak fairness of the loop (`StateStep`): every call returns and
every sleep ends. What the process does is not fair, it may stay down for ever or
crash at the worst moment. `RetryEnds` then rests on the attempts and deadlines alone.
The loop is repeated `Attempts` times, so no cap on the clock is needed.

### Findings

1. `set-bootstrap-complete-flag` (kubernetes.sls:196) has no requisite. Its comment
   says it is set "in all the nodes where we really succeeded" and refers to a step
   `admin-wait-for-services` that does not exist. Run `bootstrap_complete`.
2. `get_with_expr` (caasp_nodes.py:166) separates the nodes to exclude with `|`
   where Salt wants commas: with two or more nobody is excluded. Run
   `search_excluded`. Because of it `get_additional_etcd_members` may return nodes
   that have the etcd role, and `get_surplus_etcd_members` nodes that are being
   removed anyway.
3. `get_surplus_etcd_members` (caasp_etcd.py:137) returns nothing when no node to
   be removed is a member: the slice is `[:-0]`. Run `sizing_surplus`.
4. `stop_container_and_wait` (_states/caasp_cri.py:27) ignores an error of `crictl stop`
   and then finds the container that still runs; the state reports "successfully
   restarted". Run `waits_restart`. `RestartIsNew` is what holds: the container is new
   unless the stop has failed.

Worth knowing, although no document says otherwise: on a fresh deployment
etcd-setup cannot succeed in the first run (no certificates yet), and a member
waits in the same highstate in which its certificate is issued. The scheduled
highstates resolve it (`Converges`). `get_replacement_for` does not leave the node
that is removed out of the search, so a node that was never bootstrapped may be
found as its own replacement (the exception in `RoleKept`); and its minimum of
masters counts nodes with the role, bootstrapped or not. Further:

- *Bootstrap.* Nothing waits for the pillars that `update-pillar` (kubernetes.sls:22) has
  asked for. A minion whose old pillar has no mine functions and whose new one is late is
  missed by `update-mine`; a member of etcd that renders its unit before the minion's
  address has arrived bootstraps without it, and the cluster is split. That is why
  `OneEtcdCluster` assumes `Prompt`; nothing else does.
  `set-bootstrap-in-progress-flag` (kubernetes.sls:7) leaves out a node
  that is down; it takes part in the run later and never becomes complete. The restart
  of the CA's minion by the listener may swallow the mine update of
  `update-mine-tree`; `SecretsPublished` holds because generate-sa-key needs a minion
  that answers, and the mine is updated once more after it.
- *Waiting for HTTP.* The formula's wait for 401 (formulas/kube-apiserver/init.sls:12)
  repeats the request without a sleep until `wait_for` is over, even when the server
  answers at once. The two deadlines add up to `2 * wait_for` and one call.
- *Retrying.* With 0 attempts `caasp_retriable.retry` raises a TypeError (assumption
  `AttemptsAssumption`). A second try of a container restart stops the container that
  the first one has brought up.
- *Services.* Under systemd `service.status` returns a boolean, so `running_stable`
  does not notice a restart; `StableIsSame` therefore speaks of pids. The result of
  `service.running` is not looked at.
- *The size of etcd.* The doc-string of `get_cluster_size` (caasp_etcd.py:50-53) says that
  the size matches the number of masters, bumped to 3, or to the number of nodes when there
  are less than three. The code wants an odd number (caasp_etcd.py:79) of at most 7: four
  masters give 3 where the doc-string says 4, two nodes 1 where it says 2.
  `SizeIsDocumentedIfOdd` says both: the documented size where it is 1, 3, 5 or 7, else the
  next smaller of these (1 when there is no smaller one).
  `get_additional_etcd_members` without the argument `etcd_members` adds a list
  to the keys of a dictionary (caasp_etcd.py:183), a TypeError in Python 3, whenever a
  member is missing: stage "error" of `EtcdSizing`.
- *Nobody is found.* No query by `nodename` finds a node in this deployment, as the mine
  does not have this grain: `get_endpoints` raises, the searches return nothing.
- *etcd members.* `member_remove` without a node looks for `https://None:2379` and
  removes nobody, although the docs speak of the local node (caasp_etcd.py:490). Two
  nodes that join at once are configured with lists without each other: hence "alone"
  in `ListMatchesWhenAlone`. A node that is killed between `member_add` and its start
  is refused a second one. A cluster of one member has no quorum from the second one's
  `member add` to its start.
- *The hosts file.* After a kill at the wrong moment the file is empty, and every later
  run ends with an IndexError until somebody repairs it; nothing is lost, as
  `CustomSurvives` says. Where /etc/hosts does not exist in the first run
  (caasp_hosts.py:246) the saved copy becomes a blank line, and every later run ends with
  the same IndexError, although the first one has succeeded. Where the files are larger than the buffer of Python
  (`Large = TRUE`), a kill during the very first save can lose entries of the user. A
  node whose mine data is missing is dropped from the file.
- None of the formulas calls what is modelled of `caasp_hosts`, `caasp_etcd` and
  `caasp_cri`; `caasp_retriable` and `caasp_http` are used by kubelet, kube-apiserver,
  kube-scheduler and the certificates' macro, `caasp_cmd` by the macros for kubectl.

## 4. Proofs

`BootstrapProofs` and `BootstrapMineProofs` prove, for every set of nodes, roles and bounds, and for
every orchestration with the stated feature:

| theorem | statement | about the orchestration |
|---|---|---|
| `TypeCorrect` | `Spec => []TypeOK` | nothing |
| `FlagsAreCleared` | `FlagCleared` | its last step is an unconditional delInProgress (`EndsByClearing`) |
| `WorkersComeLast` | `Spec => []WorkersLast` | the workers' steps require the masters' (`MastersFirst`) |
| `SuccessIsComplete` | `Spec => []SuccessMeansInstalled` | some unbatched highstate of all minions (`Everywhere`) |
| `JobsAreSettled` | `Spec => JobsSettle` | nothing |
| `KubernetesQualifies` | `KubernetesSls` has these features | – |
| `OneCluster` | `Spec => []OneEtcdCluster` | a mine update of all minions, which only an answerless call before it can prevent, comes before any state is applied (`CollectsFirst`) |
| `SecretsInTime` | `Spec => []SecretsPublished` | CA, refresh, mine update, key, and a second mine update follow one another with nothing but functions between them, the key requires the CA, the second update the key, and every highstate that update (`Publishes`) |
| `DependenciesAreKept` | `Spec => DependenciesKept`: `Bootstrap` implements `BringUp` | nothing |
| `WhatIsUpStands` | `Spec => []UpInOrder`: whatever is up has what it depends on | nothing |
| `KubernetesCollects`, `KubernetesPublishes` | `KubernetesSls` has these features, at its steps 3, 5 and 10 to 15 | – |

They rest on the assumptions of `Bootstrap` on its constants: finitely many nodes,
exactly one with the role ca, requisites that name earlier steps.

*The inductive invariant* `IInv` is `TypeOK`, `JobInv`, `PkiInv` and `PassedInv`.
`WorkersLast` is not inductive: that a worker's step is active says only that
kube-master-setup is in `passed` (`PassedInv` turns this into "a master is
installed"), which follows because the step succeeded only if some master's job
was "ok" (`RoleInv`, `OkInv`), which in turn needs that a run without failure has
executed or still has ahead its `services` chunk (`TaskInv`). That a master which is
installed implies an etcd cluster and the CA is `PkiInv`. `SuccessInv(s)` adds to
it, for the unbatched step `s`, that past it an unfailed run has installed all
nodes; `AllInv` provides that no minion was left out of the step.

`OneCluster` rests on `MineInv`: either the mine holds all addresses, or the run is still
before the step that collects them and nothing has happened on any minion (`Quiet`);
so no template of etcd ever sees another list than that of all members (`ListInv`). The
property is about behaviours without a crash of a host and with prompt pillars, as in the
runs. `SecretsInTime` does without the latter: a CA whose minion has written the signing
policies has its new pillar, or the restart with which it compiles it is still ahead at
the end of its run (`StartedInv`). It needs the history of a run, which `SecInv` keeps per
stretch of it: while ca-setup runs, its task still has the `pki` chunk before the listener's restart (`CaInv`); up to
the key the CA either is still to be restarted, with a fresh pillar, or the update of
the mine has reached it (`AfterCa`); a CA that has received generate-sa-key will not be
restarted once more, so the second update reaches it (`KeyInv`, `AfterKey`); from then
on the mine holds both (`LateInv`).

`DependenciesAreKept` is proved step by step: each action is one of `BringUp` or leaves its
variables alone (`GoalTask` for the chunks, `GoalNext` for the rest). A step of `BringUp` has
guards on the mine that the chunks themselves do not test, since a state run looks up
the secrets when it is rendered, long before it uses them. `OrderInv` bridges that: what is
left of a run on a node is made of chunks that are possible with what the mine holds
(`Possible`), which only grows, and a unit names only members whose address the mine holds.
`WhatIsUpStands` then uses nothing of `Bootstrap` but that its steps are those of `BringUp`:
the dependencies of the steps, turned into an invariant of the states.

`JobsAreSettled` needs of `JobInv` that a minion whose job is running has chunks left
(`TaskInv`), so that no highstate of its own can take their place; it is shown of one
minion at a time (`Settles`). It is the part of `RunEnds` that does not depend on
fairness: between two steps of the runner the jobs that wait never become more, and the
tasks of those that run only become shorter.

About the other modules, for every set of nodes, choice of grains, pillar and
number of changes during a call:

| theorem | statement |
|---|---|
| `NodeSearchProofs!SearchIsSound` | `SearchSpec => [](SearchTypeOK /\ FoundSound)` |
| `NodeSearchProofs!SearchFindsBest` | `SearchSpec => []SearchIsBest` |
| `NodeSelectionProofs!TypeCorrect` | `Spec => []TypeOK` |
| `NodeSelectionProofs!RolesAreKept` | `Spec => []RoleKept` |
| `NodeSelectionProofs!RolesAreCompatible` | `Spec => []RolesCompatible` |
| `NodeSelectionProofs!NoInternalErrors` | `Spec => []NoInternalError` |
| `NodeSelectionProofs!ReplacementsSound`, `ReplacementsBest` | `Spec => []FoundSound`, `[]SearchIsBest` |
| `EtcdSizingProofs!SizesAsDocumented` | the size is the documented one where that is odd and at most 7, else the next smaller one, for all numbers of masters and minions |
| `EtcdSizingProofs!SizeTheorem` | `Spec => []SizeIsDocumentedIfOdd` |
| `EtcdSizingProofs!TypeCorrect` | `Spec => []TypeOK` |
| `EtcdSizingProofs!SurplusIsSafe` | `Spec => []SurplusKeepsWanted` |
| `EtcdSizingProofs!AdditionalIsSafe` | `Spec => []AdditionalWithinWanted` |
| `EtcdSizingProofs!MembersFoundSound`, `MembersFoundBest` | `Spec => []FoundSound`, `[]SearchIsBest` |
| `EtcdMembershipProofs!TypeTheorem`, `RemovalTheorem`, `JoinTheorem` | `Spec => []TypeOK`, `RemovedIsTarget`, `ListMatchesWhenAlone` |
| `RetriableProofs!TypeTheorem` | `Spec => []TypeOK` |
| `RetriableProofs!PromiseTheorem` | `Spec => PromiseKept`: `Retriable` implements `BoundedRetry` |
| `RetriableProofs!GivesUpTheorem` | `Spec => []GivesUpInTime` |
| `RetriableProofs!EndsTheorem` | `Spec => ComesToAnEnd`: a measure in the natural numbers that every step of the loop decreases |
| `RetriableProofs!NotMissedTheorem`, `RestartTheorem`, `StableTheorem` | `Spec => []ServiceNotMissed`, `[]RestartIsNew`, `[]StableIsSame` |
| `EtcHostsProofs!TypeTheorem` | `Spec => []TypeOK` |
| `EtcHostsProofs!CustomTheorem`, `ExactTheorem`, `IdempotentTheorem` | `Spec => []CustomSurvives`, `[]HostsExact`, `Idempotent`, if `~Large` |

They assume that the nodes are finitely many and that the grains are grains. The
search preserves `SearchInv` (`TryRuleStep`, `ChangeStep`, `SearchForStep`), and
these lemmas serve its two callers. The invariant of `NodeSelection` says that roles
are given in the order of the parts (`OrderInv`), that there is a replacement
exactly when a role was given or the user has named one (`OriginInv`), and that
each part that is over has given its role or found others with it (`KeptInv`).
`SizingInv` says how many nodes are looked for, which is a difference of numbers
that only depend on roles; the rest is arithmetic of cardinalities. For
`SearchFindsBest`, `Best(r)` says what has been found after r rules: of the nodes that no
change has `touched`, all that the first r select, in the order of the rules; only of the
last of them may nodes be missing, when there were more than were still wanted. `AskedInv` says
that a search which is a part of a call began with what it was asked for, which is what
carries both theorems over to the choices of a replacement and of members.

`EtcdMembershipProofs` needs that ids are never given twice and that an id which a call
has found is the one of the node it is about, or of nobody any more (`IdInv`).
`RetriableProofs` has `LoopInv` for the refinement; `StepsLeft` for the end, a measure made of the
time that is left until the limit of all tries, which none exceeds (`InTime`), of the tries
that are left, and of the steps that take neither (`Turns`); for the time `TryInv`, which bounds
each stage by the beginning of its inner loop and that by the beginning of the try, and
`BeganInv`, which bounds the beginning of a try by the number of those before;
for what is reported `ReportInv` (`RequestInv`: a process that runs when the response
comes and did not when the request went out was started in between; `StopInv`: once
stopped, whatever runs is new; `StreakInv`: a streak is of one process). In
`EtcHostsProofs`, `FilesInv` says in which file the user's entries are at which point of
the run, `ContentInv` what has been collected so far. The assumption `~Large` is needed:
without it `CustomSurvives` does not hold.

Only model-checked: liveness (`RunEnds`, `Converges`, `RetryEnds`). That a loop which can
take a step takes it follows from weak fairness and ENABLED, which are out of the prover's
reach; what else `RetryEnds` needs is `EndsTheorem`. All other properties of the passing
runs are proved.

## 5. Not modelled, and the plan

Not modelled, although it is code of the system's own:

- *Certificate refresh* (`refresh-certs.sls`): its steps are those of `kubernetes.sls`,
  but it waits for the minions' start events, which may have been fired before it
  begins to listen. This needs the event bus of the master next to `Bootstrap`'s
  runner. It excludes nodes by the grains `removal_in_progress` and
  `force_removal_in_progress`, names that nothing sets.
- *etcd migration* (`etcd-migrate.sls`): the step that migrates the data does not exist
  in the repository, so the orchestration always fails there with the services
  stopped; what it would do is unknown.
- *Reactor* and the orchestrations its events start: the same event bus.
  `update-etc-hosts.sls` never gets past its condition.
- *Managed files* (`caasp_file.managed`): a wrapper of `file.managed` that nothing calls.
- *Pure helpers* (`caasp_filters`, `caasp_grains`, `caasp_log`, `caasp_net`,
  `caasp_pillar`, `_grains`): lookups and formatting without state; `caasp_grains.get` is what
  the queries of `NodeSearch` and `EtcdMembership` stand for.
- `orch/k8s.sls` calls `caasp_orch`, which the repository does not have.
- Cron scripts, downloads, monitoring, add-ons' manifests and the vendored salt
  formula: pure input and output, or third-party.

Of the modelled components these parts are left out: `get_expr_affected_by` and
`get_super_master`; the test mode of the HTTP query and the arguments that are passed
on; Salt's own `retry`, which repeats a whole retrying state once more; which container
runtime a node has; the layout of the hosts file's lines and its fixed entries; the
lifetimes and the renewal of certificates; the restart of the salt master.

What could follow, in this order: an event bus, for `refresh-certs.sls` and the reactor;
an abstract store that survives crashes and that `EtcHosts` implements; a measure in the
natural numbers for a whole run of an orchestration, as `Retriable` has one; the restart of
the master in salt-master-setup; `Retriable` inside of Salt's
own `retry`.
