------------------------------ MODULE BoundedRetry ------------------------------
(***************************************************************************)
(* What the retrying states promise (caasp_retriable.retry, caasp_cmd.run, *)
(* caasp_service.running_stable): the state is tried as often as it was    *)
(* asked for and no more, the first try that succeeds is the last one, and *)
(* only when there is no try left is it a failure.                         *)
(***************************************************************************)
EXTENDS Naturals

VARIABLES
  left,      \* the tries that are left
  outcome    \* "pending", "success" or "failure"

Init == left \in Nat \ {0} /\ outcome = "pending"

Succeed ==
  /\ outcome = "pending" /\ left > 0
  /\ left' = left - 1 /\ outcome' = "success"

Fail ==
  /\ outcome = "pending" /\ left > 0
  /\ left' = left - 1
  /\ outcome' = IF left' = 0 THEN "failure" ELSE "pending"

Next == Succeed \/ Fail

Spec == Init /\ [][Next]_<<left, outcome>>
===============================================================================
