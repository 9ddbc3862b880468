------------------------------ MODULE MCRetriable -------------------------------
(* Instances of Retriable for TLC. *)
EXTENDS Retriable

\* The queries of the formulas have three attempts, of a wait_for that is longer
\* than a request; a service is sampled more often.
FewAttempts == [k \in Kind |-> IF k = "service" THEN 4 ELSE IF k = "container" THEN 2 ELSE 3]
===============================================================================
