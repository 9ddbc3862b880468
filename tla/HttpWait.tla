-------------------------------- MODULE HttpWait ---------------------------------
(***************************************************************************)
(* _states/caasp_http.py, wait_for_successful_query, which repeats         *)
(* query until the response is the one that is wanted, and                 *)
(* _modules/caasp_http.py, wait_for_successful_query, which query calls    *)
(* and which repeats the request until there is a response that is no      *)
(* error.  Both loops have the same deadline wait_for of their own.        *)
(***************************************************************************)
EXTENDS RetryLoop

CONSTANT WaitFor    \* the argument wait_for
ASSUME WaitForAssumption == WaitFor \in Nat

VARIABLE asked      \* [inst, at]: the process and the time when the request went out

\* What salt.utils.http.query returns: the response matches what the state asks
\* for, or it does not; Salt calls 4xx and 5xx an error.  An exception is a
\* response that is an error and does not match.
Response == [matches : BOOLEAN, error : BOOLEAN]

\* A process that is up from the request to the response gives the response that
\* is wanted, which is an error where the caller wants a 401.
Responses ==
  LET good == [matches |-> TRUE, error |-> kind = "query401"]
  IN  IF inst # 0 /\ inst = asked.inst THEN {good}
      ELSE {r \in Response : ~r.matches} \cup (IF inst # 0 THEN {good} ELSE {})

SendRequest ==
  /\ stage = "send"
  /\ asked' = [inst |-> inst, at |-> clock]
  /\ Proceed(0, "receive") /\ UNCHANGED <<from, process>>

\* Mutant of Receive: the outer loop has no deadline of its own.
ReceiveForever ==
  /\ stage = "receive"
  /\ \E d \in Durations, r \in Responses :
       LET late == clock + d > from + WaitFor
           data == ~r.error \/ late
       IN  \/ data /\ r.matches /\ Succeed(d)
           \/ ~data /\ Proceed(d, "send") /\ UNCHANGED from
           \/ data /\ ~r.matches /\ Proceed(d, "send") /\ from' = clock + d
  /\ UNCHANGED <<asked, process>>

\* Mutant of Receive: what the last response of the module was does not count
\* when the deadline has passed.
ReceiveTooLate ==
  /\ stage = "receive"
  /\ \E d \in Durations, r \in Responses :
       LET late  == clock + d > from + WaitFor
           later == clock + d > began + WaitFor
       IN  \/ ~r.error /\ r.matches /\ Succeed(d)
           \/ r.error /\ ~late /\ Proceed(d, "send") /\ UNCHANGED from
           \/ ~r.error /\ ~r.matches /\ ~later /\ Proceed(d, "send") /\ from' = clock + d
           \/ r.error /\ late /\ ~later /\ Proceed(d, "send") /\ from' = clock + d
           \/ (r.error \/ ~r.matches) /\ later /\ Fail(d)
  /\ UNCHANGED <<asked, process>>

\* The module returns the response when it is no error or its deadline is over;
\* the state then succeeds, or asks again, or gives up.
Receive ==
  /\ stage = "receive"
  /\ \E d \in Durations, r \in Responses :
       LET late  == clock + d > from + WaitFor
           later == clock + d > began + WaitFor
           data  == ~r.error \/ late
       IN  \/ data /\ r.matches /\ Succeed(d)
           \/ ~data /\ Proceed(d, "send") /\ UNCHANGED from
           \/ data /\ ~r.matches /\ ~later /\ Proceed(d, "send") /\ from' = clock + d
           \/ data /\ ~r.matches /\ later /\ Fail(d)
  /\ UNCHANGED <<asked, process>>

HttpInit == asked = [inst |-> 0, at |-> 0]

HttpNext == SendRequest \/ Receive

\* The longest that a query takes: the last call of the module begins when the
\* deadline of the state is just not over, and its last request likewise.
QueryTime == 2 * WaitFor + CallTime
===============================================================================
