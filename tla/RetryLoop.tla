-------------------------------- MODULE RetryLoop --------------------------------
(***************************************************************************)
(* The loop of the retrying states: _states/caasp_retriable.py, retry, and *)
(* the same loop in _states/caasp_cmd.py and _states/caasp_service.py.  It *)
(* runs on a minion while the process that is waited for starts and stops  *)
(* on its own.  Time passes in the calls the loop makes and in its sleeps. *)
(***************************************************************************)
EXTENDS Naturals

CONSTANTS
  Attempts,    \* of each kind of state, the argument attempts (max_retries)
  Interval,    \* the seconds between two tries
  CallTime,    \* bound: the longest a single command or request takes
  MaxStarts    \* bound: how often the process starts

\* The states that are tried: an HTTP query for a status that is no error or for
\* one that is (401), a container restart, a command without or with its argument
\* until, the status of a service.
Queries  == {"query200", "query401"}
Commands == {"command", "command-until"}
Kind     == Queries \cup Commands \cup {"container", "service"}

\* With 0 attempts there is no loop: the state fails at ret['changes'], as ret is
\* still None.
ASSUME AttemptsAssumption == Attempts \in [Kind -> Nat \ {0}]
ASSUME TimeAssumption == Interval \in Nat /\ CallTime \in Nat \ {0}
ASSUME StartsAssumption == MaxStarts \in Nat

VARIABLES
  kind,     \* the state that is tried
  attempt,  \* the try in progress, from 1
  stage,    \* what the state does next, in the end "success" or "failure"
  clock,
  began,    \* when the try in progress began
  from,     \* when the inner loop of the try began
  inst,     \* the number of the process that runs, 0 when none does
  starts,   \* how many have been started
  upSince   \* history: when the last one was started

process == <<inst, starts, upSince>>
loop    == <<kind, attempt, stage, clock, began, from>>

Durations == 1..CallTime

Ended == stage \in {"success", "failure"}

\* What a try begins with.
First == [k \in Kind |-> CASE k \in Queries -> "send" [] k = "container" -> "socket"
                           [] k \in Commands -> "command" [] OTHER -> "sample"]

LoopInit ==
  /\ kind \in Kind
  /\ attempt = 1
  /\ stage = IF kind = "service" THEN "start" ELSE First[kind]
  /\ clock = 0 /\ began = 0 /\ from = 0
  /\ inst = 0 /\ starts = 0 /\ upSince = 0

-------------------------------------------------------------------------------
(* The loop *)

\* The try goes on, d seconds later.
Proceed(d, to) ==
  /\ clock' = clock + d
  /\ stage' = to
  /\ UNCHANGED <<kind, attempt, began>>

\* The try has succeeded: the loop ends.
Succeed(d) ==
  /\ clock' = clock + d
  /\ stage' = "success"
  /\ UNCHANGED <<kind, attempt, began, from>>

\* Mutant of Fail: one try too many.
FailOnceMore(d) ==
  /\ clock' = clock + d
  /\ stage' = IF attempt <= Attempts[kind] THEN "sleep" ELSE "failure"
  /\ UNCHANGED <<kind, attempt, began, from>>

\* The try has failed or raised an exception: that of the last one is the result.
Fail(d) ==
  /\ clock' = clock + d
  /\ stage' = IF attempt < Attempts[kind] THEN "sleep" ELSE "failure"
  /\ UNCHANGED <<kind, attempt, began, from>>

Sleep ==
  /\ stage = "sleep"
  /\ clock' = clock + Interval
  /\ attempt' = attempt + 1
  /\ stage' = First[kind]
  /\ began' = clock' /\ from' = clock'
  /\ UNCHANGED <<kind, process>>

-------------------------------------------------------------------------------
(* The process that is waited for *)

Begin ==
  /\ inst = 0 /\ starts < MaxStarts
  /\ inst' = starts + 1 /\ starts' = starts + 1
  /\ upSince' = clock

Die == inst # 0 /\ inst' = 0 /\ UNCHANGED <<starts, upSince>>

\* kubelet or systemd starts it, or it crashes, at any time.
ProcessChanges ==
  /\ ~Ended
  /\ Begin \/ Die
  /\ UNCHANGED loop
===============================================================================
