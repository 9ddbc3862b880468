-------------------------------- MODULE Retriable --------------------------------
(***************************************************************************)
(* The retrying states of the formulas: caasp_retriable.retry around an    *)
(* HTTP query (kubelet, kube-apiserver, kube-scheduler) or a container     *)
(* restart, caasp_cmd.run with an until command (caasp_etcd.etcdctl) or    *)
(* without, and caasp_service.running_stable.                              *)
(***************************************************************************)
EXTENDS HttpWait, ContainerRestart

CONSTANT InARow    \* successful_retries_in_a_row
ASSUME InARowAssumption == InARow \in Nat \ {0}

VARIABLES
  status,       \* what service.status returns: a "pid", or "running" or not (systemd)
  streak,       \* current_successful_retries_in_a_row
  latest,       \* latest_pid
  streakFrom    \* history: when the first sample of the streak was taken

service == <<status, streak, latest, streakFrom>>
vars    == <<loop, process, asked, container, service>>

Init ==
  /\ LoopInit /\ HttpInit /\ ContainerInit
  /\ status \in {"pid", "running"} /\ streak = 0 /\ latest = 0 /\ streakFrom = 0

-------------------------------------------------------------------------------
(* caasp_cmd.run *)

\* The command may start the process, or succeed without.  That is enough when no
\* command until is given.
RunCommand ==
  /\ stage = "command"
  /\ \E d \in Durations :
       \/ Fail(d)
       \/ kind = "command" /\ Succeed(d)
       \/ kind = "command-until" /\ Proceed(d, "until") /\ UNCHANGED from
  /\ Begin \/ UNCHANGED process

\* "check if we are really done"
RunUntil ==
  /\ stage = "until"
  /\ \E d \in Durations : IF inst # 0 THEN Succeed(d) ELSE Fail(d)
  /\ UNCHANGED process

-------------------------------------------------------------------------------
(* caasp_service.running_stable *)

\* service.running, whose result is not looked at.
StartService ==
  /\ stage = "start"
  /\ \E d \in Durations : clock' = clock + d
  /\ stage' = "sample" /\ began' = clock'
  /\ Begin \/ UNCHANGED process
  /\ UNCHANGED <<kind, attempt, from>>

\* What service.status returns, 0 when the service does not run.
Status == IF status = "pid" THEN inst ELSE IF inst = 0 THEN 0 ELSE 1

\* Mutant of SameAsLatest: any pid counts.
SameAsAny == Status # 0

SameAsLatest == Status # 0 /\ latest \in {0, Status}

Sample ==
  /\ stage = "sample"
  /\ latest' = Status
  /\ streak' = IF SameAsLatest THEN streak + 1 ELSE 0
  /\ streakFrom' = IF streak = 0 THEN clock ELSE streakFrom
  /\ \E d \in Durations :
       IF streak' = InARow THEN Succeed(d)
       ELSE Fail(IF attempt < Attempts[kind] THEN d ELSE d + Interval)
  /\ UNCHANGED <<status, process>>

-------------------------------------------------------------------------------

\* A try begins; what the previous one has left behind is dropped, but for the
\* streak.
NextTry ==
  /\ Sleep
  /\ goal' = "stop" /\ stopped' = "none"
  /\ UNCHANGED <<waitFrom, before, seen>>

StateStep ==
  \/ HttpNext /\ UNCHANGED <<container, service>>
  \/ ContainerNext /\ UNCHANGED <<asked, service>>
  \/ (RunCommand \/ RunUntil \/ StartService) /\ UNCHANGED <<asked, container, service>>
  \/ Sample /\ UNCHANGED <<asked, container>>
  \/ NextTry /\ UNCHANGED <<asked, service>>

Next ==
  \/ StateStep
  \/ ProcessChanges /\ UNCHANGED <<asked, container, service>>

Spec == Init /\ [][Next]_vars

\* Every call returns, every sleep ends.  What the process does is not fair.
FairSpec == Spec /\ WF_vars(StateStep)

-------------------------------------------------------------------------------
(* Properties *)

Stages == {"start", "send", "receive", "socket", "ps", "stop", "wait", "command",
           "until", "sample", "sleep", "success", "failure"}

TypeOK ==
  /\ kind \in Kind /\ stage \in Stages
  /\ attempt \in 1..Attempts[kind]
  /\ clock \in Nat /\ began \in Nat /\ from \in Nat
  /\ inst \in 0..MaxStarts /\ starts \in 0..MaxStarts /\ upSince \in Nat
  /\ asked \in [inst : Nat, at : Nat]
  /\ goal \in {"stop", "wait"} /\ waitFrom \in Nat /\ before \in Nat
  /\ stopped \in {"none", "ok", "error"} /\ seen \in Nat
  /\ status \in {"pid", "running"} /\ streak \in Nat /\ latest \in Nat /\ streakFrom \in Nat

\* The longest that a try takes, and that all of them do.
TryTime ==
  CASE kind \in Queries       -> QueryTime
    [] kind = "container"     -> RestartTime
    [] kind = "command-until" -> 2 * CallTime
    [] OTHER                  -> CallTime

Limit ==
  IF kind = "service" THEN CallTime + Attempts[kind] * (CallTime + Interval)
  ELSE Attempts[kind] * TryTime + (Attempts[kind] - 1) * Interval

\* Nested deadlines add up, but they hold: wait_for of the state and wait_for of
\* the module, the socket's time twice in a container's, the attempts around all.
GivesUpInTime == clock <= Limit

\* The steps that may follow before time passes or a try begins.
Turns ==
  CASE stage = "wait" -> 3
    [] stage \in {"send", "socket"} -> 2
    [] stage = "sleep" \/ Ended -> 0
    [] OTHER -> 1

\* No more steps than this are left.
StepsLeft == 4 * (Limit - clock) + 4 * (Attempts[kind] - attempt) + Turns

\* Each turn of each of the nested loops comes nearer to the end, also those that
\* take no time: there is a number of steps after which the state has ended, however
\* the process comes and goes.  With the fairness of FairSpec this is RetryEnds.
ComesToAnEnd ==
  [][StepsLeft' >= 0 /\ (UNCHANGED loop \/ StepsLeft' < StepsLeft)]_vars

\* A state that waits for an HTTP service fails only when the service was not
\* there: one that has been up since before the last request was not missed.
ServiceNotMissed ==
  kind \in Queries /\ stage = "failure" /\ inst # 0 => upSince >= asked.at

\* stop_container_and_wait succeeds only with a container that is another one
\* than it has stopped, unless the stop has failed.
RestartIsNew ==
  kind = "container" /\ stage = "success" /\ stopped # "error" => seen # before

\* _states/caasp_cri.py:8: "Then waits for kubelet to bring up a new instance of
\* the same container."
RestartedOnSuccess == kind = "container" /\ stage = "success" => seen # before

\* A service that is called stable has not been restarted since the first of
\* the samples in a row, where service.status returns a pid.
StableIsSame ==
  kind = "service" /\ stage = "success" /\ status = "pid" =>
    inst # 0 /\ upSince <= streakFrom

\* All of the loops implement the promise of BoundedRetry.
triesLeft == Attempts[kind] - (IF Ended \/ stage = "sleep" THEN attempt ELSE attempt - 1)

progress == IF Ended THEN stage ELSE "pending"

Promise == INSTANCE BoundedRetry WITH left <- triesLeft, outcome <- progress

PromiseKept == Promise!Spec

\* However the process comes and goes, the state ends.
RetryEnds == <>Ended
===============================================================================
