----------------------------- MODULE ContainerRestart ----------------------------
(***************************************************************************)
(* _states/caasp_cri.py, stop_container_and_wait, with the functions of    *)
(* _modules/caasp_cri.py that it calls: stop_container, wait_for_container *)
(* and get_container_id, which waits for the socket of the container       *)
(* runtime each time.  kubelet restarts the container.                     *)
(***************************************************************************)
EXTENDS RetryLoop

CONSTANTS
  Timeout,         \* the argument timeout: how long to wait for the container
  SocketTimeout    \* the pillar cri:socket_timeout

ASSUME TimeoutAssumption == Timeout \in Nat /\ SocketTimeout \in Nat

VARIABLES
  goal,        \* what the container is looked up for: "stop" or "wait"
  waitFrom,    \* when wait_for_container began
  before,      \* the container that is to be stopped, 0 when none was running
  stopped,     \* history: what crictl stop has returned, "ok" or "error"
  seen         \* the container that the last crictl ps has found

container == <<goal, waitFrom, before, stopped, seen>>

ContainerInit ==
  /\ goal = "stop" /\ waitFrom = 0 /\ before = 0 /\ stopped = "none" /\ seen = 0

\* wait_for_container looks the container up, or gives up, when its time is over.
LookAgain == clock < waitFrom + Timeout

\* Mutant of PollSocket: the time is not looked at.
PollForever ==
  /\ stage = "socket"
  /\ \E d \in Durations, to \in {"socket", "ps"} : Proceed(d, to)
  /\ UNCHANGED <<from, container, process>>

\* __wait_CRI_socket: crictl info is repeated until it succeeds; an exception
\* ends the try when it has not in time.
PollSocket ==
  /\ stage = "socket" /\ clock < from + SocketTimeout
  /\ \E d \in Durations, to \in {"socket", "ps"} : Proceed(d, to)
  /\ UNCHANGED <<from, container, process>>

SocketNotReady ==
  /\ stage = "socket" /\ clock >= from + SocketTimeout
  /\ Fail(0)
  /\ UNCHANGED <<container, process>>

\* get_container_id on behalf of stop_container: none running is no error.
FindToStop ==
  /\ stage = "ps" /\ goal = "stop"
  /\ before' = inst /\ seen' = inst
  /\ \E d \in Durations :
       IF inst # 0
       THEN Proceed(d, "stop") /\ UNCHANGED <<goal, waitFrom>>
       ELSE Proceed(d, "wait") /\ goal' = "wait" /\ waitFrom' = clock + d
  /\ UNCHANGED <<from, stopped, process>>

\* Mutant of StopContainer: the stop is not waited for.
StopInBackground ==
  /\ stage = "stop"
  /\ \E d \in Durations :
       /\ goal' = "wait" /\ waitFrom' = clock + d
       /\ Proceed(d, "wait") /\ UNCHANGED from
  /\ stopped' = "ok"
  /\ UNCHANGED <<before, seen, process>>

\* Mutant of StopContainer: it goes on when the container is gone, whatever crictl
\* stop has done.
StopUntilGone ==
  /\ stage = "stop" /\ inst # before
  /\ \E d \in Durations :
       /\ goal' = "wait" /\ waitFrom' = clock + d
       /\ Proceed(d, "wait") /\ UNCHANGED from
  /\ stopped' \in {"ok", "error"}
  /\ UNCHANGED <<before, seen, process>>

\* crictl stop returns when the container is gone.  Its error is ignored: the
\* state does not pass ignore_errors, and with it wait_for_container, which is
\* given the same arguments, would raise a TypeError.
StopContainer ==
  /\ stage = "stop"
  /\ \E d \in Durations :
       /\ goal' = "wait" /\ waitFrom' = clock + d
       /\ Proceed(d, "wait") /\ UNCHANGED from
  /\ \/ /\ inst' = IF inst = before THEN 0 ELSE inst
        /\ stopped' = "ok"
     \/ stopped' = "error" /\ UNCHANGED inst
  /\ UNCHANGED <<before, seen, starts, upSince>>

\* wait_for_container: a turn of its loop, which is over when the time is.
WaitAgain ==
  /\ stage = "wait" /\ LookAgain
  /\ from' = clock
  /\ Proceed(0, "socket")
  /\ UNCHANGED <<container, process>>

NotRestarted ==
  /\ stage = "wait" /\ ~LookAgain
  /\ Fail(0)
  /\ UNCHANGED <<container, process>>

\* get_container_id on behalf of wait_for_container.
FindRestarted ==
  /\ stage = "ps" /\ goal = "wait"
  /\ seen' = inst
  /\ \E d \in Durations :
       IF inst # 0 THEN Succeed(d)
       ELSE Proceed(d, "wait") /\ UNCHANGED from
  /\ UNCHANGED <<goal, waitFrom, before, stopped, process>>

\* crictl ps fails: an exception.
PsFails ==
  /\ stage = "ps"
  /\ \E d \in Durations : Fail(d)
  /\ UNCHANGED <<container, process>>

ContainerNext ==
  \/ PollSocket \/ SocketNotReady \/ FindToStop \/ StopContainer
  \/ WaitAgain \/ NotRestarted \/ FindRestarted \/ PsFails

\* A lookup takes the time for the socket, exceeded by one call, and crictl ps.
LookupTime  == SocketTimeout + 2 * CallTime
RestartTime == LookupTime + CallTime + Timeout + LookupTime
===============================================================================
