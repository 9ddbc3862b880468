---------------------------- MODULE RetriableProofs ----------------------------
(***************************************************************************)
(* Theorems about Retriable: for every number of attempts and every        *)
(* timeout the loops keep their promise, end in time, and what they report *)
(* is true of the process that was waited for.                             *)
(***************************************************************************)
EXTENDS Retriable, Integers, TLAPS

USE AttemptsAssumption, TimeAssumption, StartsAssumption, WaitForAssumption,
    TimeoutAssumption, InARowAssumption
  DEF AttemptsAssumption, TimeAssumption, StartsAssumption, WaitForAssumption,
      TimeoutAssumption, InARowAssumption

\* The steps of the states, without those of the process.
LEMMA Steps ==
  ASSUME [Next]_vars
  PROVE  \/ HttpNext /\ UNCHANGED <<container, service>>
         \/ ContainerNext /\ UNCHANGED <<asked, service>>
         \/ RunCommand /\ UNCHANGED <<asked, container, service>>
         \/ RunUntil /\ UNCHANGED <<asked, container, service>>
         \/ StartService /\ UNCHANGED <<asked, container, service>>
         \/ Sample /\ UNCHANGED <<asked, container>>
         \/ NextTry /\ UNCHANGED <<asked, service>>
         \/ ProcessChanges /\ UNCHANGED <<asked, container, service>>
         \/ UNCHANGED vars
BY DEF Next, StateStep

-------------------------------------------------------------------------------
(* Types *)

\* There is a next try after a sleep; the last one has been made when the loop
\* ends in failure.
LoopInv ==
  /\ stage = "sleep" => attempt < Attempts[kind]
  /\ stage = "failure" => attempt = Attempts[kind]

TypeInv == TypeOK /\ LoopInv

LEMMA TypeInit == Init => TypeInv
BY DEF Init, LoopInit, HttpInit, ContainerInit, TypeInv, TypeOK, LoopInv, Stages, First,
       Kind, Queries, Commands

LEMMA TypeHttp ==
  ASSUME TypeInv, HttpNext, UNCHANGED <<container, service>>
  PROVE  TypeInv'
<1>1. CASE SendRequest
  BY <1>1 DEF SendRequest, Proceed, process, TypeInv, TypeOK, LoopInv, Stages, container, service
<1>2. CASE Receive
  <2>1. PICK d \in Durations, r \in Responses :
          LET late  == clock + d > from + WaitFor
              later == clock + d > began + WaitFor
              data  == ~r.error \/ late
          IN  \/ data /\ r.matches /\ Succeed(d)
              \/ ~data /\ Proceed(d, "send") /\ UNCHANGED from
              \/ data /\ ~r.matches /\ ~later /\ Proceed(d, "send") /\ from' = clock + d
              \/ data /\ ~r.matches /\ later /\ Fail(d)
    BY <1>2 DEF Receive
  <2>2. d \in Nat
    BY DEF Durations
  <2>3. \/ Succeed(d)
        \/ Proceed(d, "send") /\ from' \in {from, clock + d}
        \/ Fail(d)
    BY <2>1
  <2>4. UNCHANGED <<asked, process>>
    BY <1>2 DEF Receive
  <2>5. stage = "receive"
    BY <1>2 DEF Receive
  <2> QED
    BY <2>2, <2>3, <2>4, <2>5 DEF Succeed, Proceed, Fail, process, TypeInv, TypeOK, LoopInv, Stages,
       container, service
<1> QED BY <1>1, <1>2 DEF HttpNext

LEMMA TypeContainer ==
  ASSUME TypeInv, ContainerNext, UNCHANGED <<asked, service>>
  PROVE  TypeInv'
<1> USE DEF TypeInv, TypeOK, LoopInv, Stages, Durations, Ended, service, process, container
<1>1. CASE PollSocket
  BY <1>1 DEF PollSocket, Proceed
<1>2. CASE SocketNotReady
  BY <1>2 DEF SocketNotReady, Fail
<1>3. CASE FindToStop
  BY <1>3 DEF FindToStop, Proceed
<1>4. CASE StopContainer
  BY <1>4 DEF StopContainer, Proceed
<1>5. CASE WaitAgain
  BY <1>5 DEF WaitAgain, Proceed
<1>6. CASE NotRestarted
  BY <1>6 DEF NotRestarted, Fail
<1>7. CASE FindRestarted
  BY <1>7 DEF FindRestarted, Succeed, Proceed
<1>8. CASE PsFails
  BY <1>8 DEF PsFails, Fail
<1> QED BY <1>1, <1>2, <1>3, <1>4, <1>5, <1>6, <1>7, <1>8 DEF ContainerNext

LEMMA TypeStep == TypeInv /\ [Next]_vars => TypeInv'
<1> SUFFICES ASSUME TypeInv, [Next]_vars PROVE TypeInv'
  OBVIOUS
<1>1. CASE HttpNext /\ UNCHANGED <<container, service>>
  BY <1>1, TypeHttp
<1>2. CASE ContainerNext /\ UNCHANGED <<asked, service>>
  BY <1>2, TypeContainer
<1> USE DEF TypeInv, TypeOK, LoopInv, Stages, Durations, Ended, service, process, container
<1>3. CASE RunCommand /\ UNCHANGED <<asked, container, service>>
  BY <1>3 DEF RunCommand, Proceed, Succeed, Fail, Begin
<1>4. CASE RunUntil /\ UNCHANGED <<asked, container, service>>
  BY <1>4 DEF RunUntil, Succeed, Fail
<1>5. CASE StartService /\ UNCHANGED <<asked, container, service>>
  BY <1>5 DEF StartService, Begin
<1>6. CASE Sample /\ UNCHANGED <<asked, container>>
  BY <1>6 DEF Sample, Succeed, Fail, Status
<1>7. CASE NextTry /\ UNCHANGED <<asked, service>>
  BY <1>7 DEF NextTry, Sleep, First, Kind, Queries, Commands
<1>8. CASE ProcessChanges /\ UNCHANGED <<asked, container, service>>
  BY <1>8 DEF ProcessChanges, Begin, Die, loop
<1>9. CASE UNCHANGED vars
  BY <1>9 DEF vars, loop
<1> QED BY <1>1, <1>2, <1>3, <1>4, <1>5, <1>6, <1>7, <1>8, <1>9, Steps

LEMMA TypeInvariant == Spec => []TypeInv
BY TypeInit, TypeStep, PTL DEF Spec

\* The types, with the attempt always between the first and the last.
THEOREM TypeTheorem == Spec => []TypeOK
<1>1. TypeInv => TypeOK
  BY DEF TypeInv
<1> QED BY <1>1, TypeInvariant, PTL
-------------------------------------------------------------------------------
(* The promise of BoundedRetry *)

LEMMA PromiseInit == Init /\ TypeInv => Promise!Init
BY DEF Init, LoopInit, TypeInv, TypeOK, Promise!Init, triesLeft, progress, Ended, First, Kind,
       Queries, Commands

\* A step within a try, one that ends it, and one that begins the next.
LEMMA GoesOn ==
  ASSUME TypeInv, ~Ended, stage # "sleep", UNCHANGED <<kind, attempt>>,
         ~Ended', stage' # "sleep"
  PROVE  UNCHANGED <<triesLeft, progress>>
BY DEF triesLeft, progress

LEMMA ProceedStutters ==
  ASSUME TypeInv, ~Ended, stage # "sleep", NEW d, NEW to, Proceed(d, to),
         to \notin {"success", "failure", "sleep"}
  PROVE  UNCHANGED <<triesLeft, progress>>
BY GoesOn DEF Proceed, Ended

LEMMA SucceedSucceeds ==
  ASSUME TypeInv, ~Ended, stage # "sleep", NEW d, Succeed(d)
  PROVE  Promise!Succeed
BY DEF Succeed, Promise!Succeed, triesLeft, progress, Ended, TypeInv, TypeOK

LEMMA FailFails ==
  ASSUME TypeInv, ~Ended, stage # "sleep", NEW d, Fail(d)
  PROVE  Promise!Fail
BY DEF Fail, Promise!Fail, triesLeft, progress, Ended, TypeInv, TypeOK

\* Every step of the loops is one of BoundedRetry or changes nothing it sees.
LEMMA PromiseStep ==
  ASSUME TypeInv, TypeInv', [Next]_vars
  PROVE  [Promise!Next]_<<triesLeft, progress>>
<1> SUFFICES \/ Promise!Succeed \/ Promise!Fail
             \/ UNCHANGED <<triesLeft, progress>>
  BY DEF Promise!Next
<1> USE ProceedStutters, SucceedSucceeds, FailFails
<1>1. CASE HttpNext
  <2>1. CASE SendRequest
    BY <2>1 DEF SendRequest, Ended
  <2>2. CASE Receive
    BY <2>2 DEF Receive, Ended
  <2> QED BY <1>1, <2>1, <2>2 DEF HttpNext
<1>2. CASE ContainerNext
  <2>1. CASE PollSocket
    BY <2>1 DEF PollSocket, Ended
  <2>2. CASE SocketNotReady
    BY <2>2 DEF SocketNotReady, Ended
  <2>3. CASE FindToStop
    BY <2>3 DEF FindToStop, Ended
  <2>4. CASE StopContainer
    BY <2>4 DEF StopContainer, Ended
  <2>5. CASE WaitAgain
    BY <2>5 DEF WaitAgain, Ended
  <2>6. CASE NotRestarted
    BY <2>6 DEF NotRestarted, Ended
  <2>7. CASE FindRestarted
    BY <2>7 DEF FindRestarted, Ended
  <2>8. CASE PsFails
    BY <2>8 DEF PsFails, Ended
  <2> QED BY <1>2, <2>1, <2>2, <2>3, <2>4, <2>5, <2>6, <2>7, <2>8 DEF ContainerNext
<1>3. CASE RunCommand
  BY <1>3 DEF RunCommand, Ended
<1>4. CASE RunUntil
  BY <1>4 DEF RunUntil, Ended
<1>5. CASE StartService
  BY <1>5, GoesOn DEF StartService, Ended
<1>6. CASE Sample
  BY <1>6 DEF Sample, Ended
<1>7. CASE NextTry
  BY <1>7 DEF NextTry, Sleep, First, triesLeft, progress, Ended, TypeInv, TypeOK, Kind, Queries,
              Commands
<1>8. CASE ProcessChanges \/ UNCHANGED vars
  BY <1>8 DEF ProcessChanges, vars, loop, triesLeft, progress, Ended
<1> QED BY <1>1, <1>2, <1>3, <1>4, <1>5, <1>6, <1>7, <1>8, Steps

\* All of the loops implement BoundedRetry: no more tries than were asked for,
\* the first that succeeds is the last, failure only when none is left.
THEOREM PromiseTheorem == Spec => PromiseKept
<1>1. Init => Promise!Init
  BY PromiseInit, TypeInit
<1>2. TypeInv /\ TypeInv' /\ [Next]_vars => [Promise!Next]_<<triesLeft, progress>>
  BY PromiseStep
<1> QED BY <1>1, <1>2, TypeInvariant, PTL DEF Spec, PromiseKept, Promise!Spec
-------------------------------------------------------------------------------
(* Time *)

\* In each stage, when the try and its inner loop began and how late it is.
QueryInv ==
  kind \in Queries =>
    /\ stage \in {"send", "receive", "sleep", "success", "failure"}
    /\ stage \in {"send", "receive"} => from <= began + WaitFor /\ clock <= from + WaitFor
    /\ clock <= began + QueryTime

ContainerInv ==
  kind = "container" =>
    /\ stage \in {"socket", "ps", "stop", "wait", "sleep", "success", "failure"}
    /\ stage \in {"socket", "ps"} => clock <= from + SocketTimeout + CallTime
    /\ stage = "stop" => goal = "stop"
    /\ stage = "wait" => goal = "wait" /\ clock <= waitFrom + Timeout + LookupTime
    /\ goal = "stop" => from = began /\ clock <= began + LookupTime
    /\ goal = "wait" /\ ~Ended /\ stage # "sleep" => waitFrom <= began + LookupTime + CallTime
    /\ goal = "wait" /\ stage \in {"socket", "ps"} => from <= waitFrom + Timeout
    /\ clock <= began + RestartTime

CommandInv ==
  kind \in Commands =>
    /\ stage \in {"command", "until", "sleep", "success", "failure"}
    /\ stage = "command" => clock <= began
    /\ stage = "until" => kind = "command-until" /\ clock <= began + CallTime
    /\ clock <= began + (IF kind = "command-until" THEN 2 ELSE 1) * CallTime

ServiceInv ==
  kind = "service" =>
    /\ stage \in {"start", "sample", "sleep", "success", "failure"}
    /\ stage = "start" => clock <= 0 /\ began <= 0 /\ attempt = 1
    /\ stage = "sample" => clock <= began
    /\ stage # "failure" => clock <= began + CallTime
    /\ clock <= began + CallTime + Interval

TryInv == QueryInv /\ ContainerInv /\ CommandInv /\ ServiceInv

\* When the try in progress began at the latest.
BeganInv ==
  began <= (IF kind = "service" THEN CallTime ELSE 0) + (attempt - 1) * (TryTime + Interval)

TimeInv == TryInv /\ BeganInv

LEMMA Times ==
  /\ QueryTime \in Nat /\ LookupTime \in Nat /\ RestartTime \in Nat
  /\ kind \in Kind => TryTime \in Nat
BY DEF QueryTime, LookupTime, RestartTime, TryTime, Kind, Queries, Commands

\* One more try, and as many as there may be.
LEMMA OneMore ==
  ASSUME NEW a \in Nat \ {0}, NEW x \in Nat
  PROVE  a * x = (a - 1) * x + x /\ (a - 1) * x \in Nat
OBVIOUS

LEMMA NoMore ==
  ASSUME NEW a \in Nat, NEW b \in Nat, a <= b, NEW x \in Nat
  PROVE  a * x <= b * x
<1>1. b * x = a * x + (b - a) * x
  OBVIOUS
<1>2. (b - a) * x >= 0 /\ a * x \in Nat /\ b * x \in Nat
  OBVIOUS
<1> QED BY <1>1, <1>2

LEMMA TryInit == Init => TryInv
<1> SUFFICES ASSUME Init PROVE TryInv
  OBVIOUS
<1> USE DEF Init, LoopInit, ContainerInit, Ended, First, Kind, Queries, Commands
<1>1. QueryInv
  BY Times DEF QueryInv
<1>2. ContainerInv
  BY Times DEF ContainerInv
<1>3. CommandInv
  BY DEF CommandInv
<1>4. ServiceInv
  BY DEF ServiceInv
<1> QED BY <1>1, <1>2, <1>3, <1>4 DEF TryInv

LEMMA TryHttp ==
  ASSUME TypeInv, TryInv, HttpNext, UNCHANGED <<container, service>>
  PROVE  TryInv'
<1> USE DEF TypeInv, TypeOK, TryInv, QueryInv, ContainerInv, CommandInv, ServiceInv, Ended,
         container, service, process, Kind, Queries, Commands, QueryTime
<1>1. CASE SendRequest
  BY <1>1 DEF SendRequest, Proceed
<1>2. CASE Receive
  <2>1. PICK d \in Durations, r \in Responses :
          LET late  == clock + d > from + WaitFor
              later == clock + d > began + WaitFor
              data  == ~r.error \/ late
          IN  \/ data /\ r.matches /\ Succeed(d)
              \/ ~data /\ Proceed(d, "send") /\ UNCHANGED from
              \/ data /\ ~r.matches /\ ~later /\ Proceed(d, "send") /\ from' = clock + d
              \/ data /\ ~r.matches /\ later /\ Fail(d)
    BY <1>2 DEF Receive
  <2>2. \/ Succeed(d)
        \/ clock + d <= from + WaitFor /\ Proceed(d, "send") /\ UNCHANGED from
        \/ clock + d <= began + WaitFor /\ Proceed(d, "send") /\ from' = clock + d
        \/ Fail(d)
    <3>1. d \in Nat /\ clock \in Nat /\ from \in Nat /\ began \in Nat
      BY DEF Durations
    <3> QED BY <2>1, <3>1
  <2>3. stage = "receive" /\ UNCHANGED <<asked, process>>
    BY <1>2 DEF Receive
  <2>4. d \in Nat /\ d <= CallTime
    BY DEF Durations
  <2> QED BY <2>2, <2>3, <2>4 DEF Succeed, Proceed, Fail
<1> QED BY <1>1, <1>2 DEF HttpNext

LEMMA TryContainer ==
  ASSUME TypeInv, TryInv, ContainerNext, UNCHANGED <<asked, service>>
  PROVE  TryInv'
<1> USE DEF TypeInv, TypeOK, TryInv, QueryInv, ContainerInv, CommandInv, ServiceInv, Ended,
         container, service, process, Kind, Queries, Commands, Durations, LookupTime, RestartTime
<1>1. CASE PollSocket
  BY <1>1 DEF PollSocket, Proceed
<1>2. CASE SocketNotReady
  BY <1>2 DEF SocketNotReady, Fail
<1>3. CASE FindToStop
  BY <1>3 DEF FindToStop, Proceed
<1>4. CASE StopContainer
  BY <1>4 DEF StopContainer, Proceed
<1>5. CASE WaitAgain
  BY <1>5 DEF WaitAgain, Proceed, LookAgain
<1>6. CASE NotRestarted
  BY <1>6 DEF NotRestarted, Fail
<1>7. CASE FindRestarted
  BY <1>7 DEF FindRestarted, Succeed, Proceed
<1>8. CASE PsFails
  BY <1>8 DEF PsFails, Fail
<1> QED BY <1>1, <1>2, <1>3, <1>4, <1>5, <1>6, <1>7, <1>8 DEF ContainerNext

LEMMA TryStep == TypeInv /\ TryInv /\ [Next]_vars => TryInv'
<1> SUFFICES ASSUME TypeInv, TryInv, [Next]_vars PROVE TryInv'
  OBVIOUS
<1>1. CASE HttpNext /\ UNCHANGED <<container, service>>
  BY <1>1, TryHttp
<1>2. CASE ContainerNext /\ UNCHANGED <<asked, service>>
  BY <1>2, TryContainer
<1> USE DEF TypeInv, TypeOK, TryInv, QueryInv, ContainerInv, CommandInv, ServiceInv, Ended,
         container, service, process, Kind, Queries, Commands, Durations
<1>3. CASE RunCommand /\ UNCHANGED <<asked, container, service>>
  BY <1>3 DEF RunCommand, Proceed, Succeed, Fail
<1>4. CASE RunUntil /\ UNCHANGED <<asked, container, service>>
  BY <1>4 DEF RunUntil, Succeed, Fail
<1>5. CASE StartService /\ UNCHANGED <<asked, container, service>>
  BY <1>5 DEF StartService
<1>6. CASE Sample /\ UNCHANGED <<asked, container>>
  BY <1>6 DEF Sample, Succeed, Fail
<1>7. CASE NextTry /\ UNCHANGED <<asked, service>>
  BY <1>7, Times DEF NextTry, Sleep, First
<1>8. CASE ProcessChanges /\ UNCHANGED <<asked, container, service>>
  BY <1>8 DEF ProcessChanges, loop
<1>9. CASE UNCHANGED vars
  BY <1>9 DEF vars, loop
<1> QED BY <1>1, <1>2, <1>3, <1>4, <1>5, <1>6, <1>7, <1>8, <1>9, Steps

\* Whatever it is that is tried, the try has not taken longer than TryTime.
LEMMA TryInTime ==
  ASSUME TypeInv, TryInv
  PROVE  clock <= began + TryTime + (IF kind = "service" /\ stage = "failure" THEN Interval ELSE 0)
BY DEF TypeInv, TypeOK, TryInv, QueryInv, ContainerInv, CommandInv, ServiceInv, TryTime, Kind,
       Queries, Commands, QueryTime, RestartTime, LookupTime

LEMMA BeganStep == TypeInv /\ TimeInv /\ [Next]_vars => BeganInv'
<1> SUFFICES ASSUME TypeInv, TimeInv, [Next]_vars PROVE BeganInv'
  OBVIOUS
<1> DEFINE X    == TryTime + Interval
           Base == IF kind = "service" THEN CallTime ELSE 0
<1>1. attempt \in Nat \ {0} /\ X \in Nat /\ Base \in Nat /\ clock \in Nat /\ began \in Nat
  BY Times DEF TypeInv, TypeOK
<1>2. began <= Base + (attempt - 1) * X
  BY DEF TimeInv, BeganInv
<1>3. CASE NextTry
  <2>1. clock <= began + TryTime
    BY <1>1, <1>3, Times, TryInTime DEF TimeInv, NextTry, Sleep, TypeInv, TypeOK
  <2>2. began' = clock + Interval /\ attempt' = attempt + 1 /\ kind' = kind
    BY <1>3 DEF NextTry, Sleep
  <2>3. attempt * X = (attempt - 1) * X + X /\ (attempt - 1) * X \in Nat
    BY <1>1, OneMore
  <2>4. began' <= Base + attempt * X
    BY <1>1, <1>2, <2>1, <2>2, <2>3, Times DEF TypeInv, TypeOK
  <2>5. attempt' - 1 = attempt /\ TryTime' = TryTime
    BY <1>1, <2>2 DEF TryTime
  <2> QED BY <2>2, <2>4, <2>5 DEF BeganInv
<1>4. CASE StartService
  <2>1. stage = "start" /\ kind \in Kind
    BY <1>4 DEF StartService, TypeInv, TypeOK
  <2>2. kind = "service"
    BY <2>1 DEF TimeInv, TryInv, QueryInv, ContainerInv, CommandInv, Kind
  <2>3. clock = 0 /\ attempt = 1
    BY <1>1, <2>1, <2>2 DEF TimeInv, TryInv, ServiceInv
  <2>4. began' <= CallTime /\ kind' = kind /\ attempt' = 1
    BY <1>4, <2>3 DEF StartService, Durations
  <2>5. TryTime' = TryTime
    BY <2>4 DEF TryTime
  <2>6. (attempt' - 1) * X = 0
    BY <1>1, <2>4
  <2>7. began' \in Nat
    BY <1>4, <1>1 DEF StartService, Durations
  <2> QED BY <2>2, <2>4, <2>5, <2>6, <2>7 DEF BeganInv
<1>5. CASE UNCHANGED <<kind, attempt, began>>
  BY <1>2, <1>5 DEF BeganInv, TryTime
<1>6. NextTry \/ StartService \/ UNCHANGED <<kind, attempt, began>>
  <2>1. HttpNext => UNCHANGED <<kind, attempt, began>>
    BY DEF HttpNext, SendRequest, Receive, Proceed, Succeed, Fail
  <2>2. ContainerNext => UNCHANGED <<kind, attempt, began>>
    BY DEF ContainerNext, PollSocket, SocketNotReady, FindToStop, StopContainer, WaitAgain,
           NotRestarted, FindRestarted, PsFails, Proceed, Succeed, Fail
  <2>3. RunCommand \/ RunUntil \/ Sample => UNCHANGED <<kind, attempt, began>>
    BY DEF RunCommand, RunUntil, Sample, Proceed, Succeed, Fail
  <2>4. ProcessChanges \/ UNCHANGED vars => UNCHANGED <<kind, attempt, began>>
    BY DEF ProcessChanges, loop, vars
  <2> QED BY <2>1, <2>2, <2>3, <2>4, Steps
<1> QED BY <1>3, <1>4, <1>5, <1>6

LEMMA TimeInvariant == Spec => []TimeInv
<1>1. Init => TimeInv
  <2> SUFFICES ASSUME Init PROVE BeganInv
    BY TryInit DEF TimeInv
  <2>1. began = 0 /\ attempt = 1 /\ kind \in Kind
    BY DEF Init, LoopInit
  <2>2. TryTime + Interval \in Nat
    BY <2>1, Times
  <2>3. (attempt - 1) * (TryTime + Interval) = 0
    BY <2>1, <2>2
  <2> QED BY <2>1, <2>3 DEF BeganInv
<1>2. TypeInv /\ TimeInv /\ [Next]_vars => TimeInv'
  BY TryStep, BeganStep DEF TimeInv
<1> QED BY <1>1, <1>2, TypeInvariant, PTL DEF Spec

LEMMA InTime == TypeInv /\ TimeInv => GivesUpInTime
<1> SUFFICES ASSUME TypeInv, TimeInv PROVE clock <= Limit
  BY DEF GivesUpInTime
<1> DEFINE A    == Attempts[kind]
           X    == TryTime + Interval
           Base == IF kind = "service" THEN CallTime ELSE 0
<1>1. /\ A \in Nat \ {0} /\ attempt \in Nat \ {0} /\ attempt <= A
      /\ TryTime \in Nat /\ X \in Nat /\ clock \in Nat /\ began \in Nat
  BY Times DEF TypeInv, TypeOK
<1>2. began <= Base + (attempt - 1) * X
  BY DEF TimeInv, BeganInv
<1>3. (attempt - 1) * X <= (A - 1) * X
  BY <1>1, NoMore
<1>4. /\ A * X = (A - 1) * X + X /\ (A - 1) * X \in Nat
      /\ A * TryTime = (A - 1) * TryTime + TryTime /\ (A - 1) * TryTime \in Nat
  BY <1>1, OneMore
<1>5. (A - 1) * X = (A - 1) * TryTime + (A - 1) * Interval
  BY <1>1
<1>6. /\ (attempt - 1) * X \in Nat /\ (A - 1) * Interval \in Nat
  BY <1>1
<1>7. CASE kind = "service"
  <2>1. clock <= began + X
    BY <1>1, <1>7, TryInTime DEF TimeInv
  <2>2. TryTime = CallTime
    BY <1>7 DEF TryTime, Queries
  <2>3. Limit = CallTime + A * X
    BY <1>7, <2>2 DEF Limit
  <2> HIDE DEF A, X
  <2> QED BY <1>1, <1>2, <1>3, <1>4, <1>6, <1>7, <2>1, <2>3
<1>8. CASE kind # "service"
  <2>1. clock <= began + TryTime
    BY <1>1, <1>8, TryInTime DEF TimeInv
  <2>2. Limit = A * TryTime + (A - 1) * Interval
    BY <1>8 DEF Limit
  <2> HIDE DEF A, X
  <2> QED BY <1>1, <1>2, <1>3, <1>4, <1>5, <1>6, <1>8, <2>1, <2>2
<1> QED BY <1>7, <1>8

\* However the deadlines are nested, the state ends within Limit: the attempts
\* times the longest try, and the sleeps between them.
THEOREM GivesUpTheorem == Spec => []GivesUpInTime
BY InTime, TypeInvariant, TimeInvariant, PTL

LEMMA Difference ==
  ASSUME NEW l \in Int, NEW a \in Int, NEW c \in Int, NEW d \in Int, NEW x \in Int,
         NEW y \in Int, NEW t \in Int, NEW u \in Int, 4 * d + 4 * y - u > 4 * c + 4 * x - t
  PROVE  4 * (l - d) + 4 * (a - y) + u < 4 * (l - c) + 4 * (a - x) + t
OBVIOUS

LEMMA LimitType == TypeInv => Limit \in Int
<1> SUFFICES ASSUME TypeInv PROVE Limit \in Int
  OBVIOUS
<1>1. kind \in Kind /\ Attempts[kind] \in Nat /\ TryTime \in Nat
  BY Times DEF TypeInv, TypeOK
<1> QED BY <1>1 DEF Limit

\* A step of a state comes nearer to the end when it takes time, begins a try, or
\* has fewer turns before it.
LEMMA Nearer ==
  ASSUME TypeInv, TypeInv', kind' = kind,
         4 * clock' + 4 * attempt' - Turns' > 4 * clock + 4 * attempt - Turns
  PROVE  StepsLeft' < StepsLeft
<1>1. Limit' = Limit
  BY DEF Limit, TryTime
<1>2. Limit \in Int /\ Limit' \in Int
  BY <1>1, LimitType
<1>3. /\ clock \in Nat /\ clock' \in Nat /\ attempt \in Nat /\ attempt' \in Nat
      /\ Attempts[kind] \in Nat /\ Turns \in Nat /\ Turns' \in Nat
  BY DEF TypeInv, TypeOK, Turns
<1>4. Attempts[kind'] = Attempts[kind]
  OBVIOUS
<1> HIDE DEF Turns, Limit
<1>5. StepsLeft' = 4 * (Limit - clock') + 4 * (Attempts[kind] - attempt') + Turns'
  BY <1>1, <1>4 DEF StepsLeft
<1>6. StepsLeft = 4 * (Limit - clock) + 4 * (Attempts[kind] - attempt) + Turns
  BY DEF StepsLeft
<1>7. /\ Limit \in Int /\ Attempts[kind] \in Int /\ clock \in Int /\ clock' \in Int
      /\ attempt \in Int /\ attempt' \in Int /\ Turns \in Int /\ Turns' \in Int
  BY <1>2, <1>3
<1> QED BY <1>5, <1>6, <1>7, Difference, Zenon

\* So does what ends a try, whichever way.
LEMMA TryEnds ==
  ASSUME TypeInv, TypeInv', ~Ended, stage \notin {"sleep", "wait"},
         NEW d \in Nat, Succeed(d) \/ Fail(d)
  PROVE  4 * clock' + 4 * attempt' - Turns' > 4 * clock + 4 * attempt - Turns
BY DEF Succeed, Fail, Turns, Ended, TypeInv, TypeOK

LEMMA TryGoesOn ==
  ASSUME TypeInv, TypeInv', ~Ended, stage # "sleep", NEW d \in Durations, NEW to,
         Proceed(d, to)
  PROVE  4 * clock' + 4 * attempt' - Turns' > 4 * clock + 4 * attempt - Turns
BY DEF Proceed, Turns, Ended, TypeInv, TypeOK, Durations

LEMMA EndStep ==
  ASSUME TypeInv, TypeInv', StateStep
  PROVE  StepsLeft' < StepsLeft
<1> SUFFICES /\ kind' = kind
             /\ 4 * clock' + 4 * attempt' - Turns' > 4 * clock + 4 * attempt - Turns
  BY Nearer
<1>1. CASE HttpNext
  <2>1. CASE SendRequest
    BY <2>1 DEF SendRequest, Proceed, Turns, Ended, TypeInv, TypeOK
  <2>2. CASE Receive
    <3>1. PICK d \in Durations : Succeed(d) \/ Proceed(d, "send") \/ Fail(d)
      BY <2>2 DEF Receive
    <3>2. stage = "receive" /\ d \in Nat
      BY <2>2 DEF Receive, Durations
    <3>3. kind' = kind
      BY <3>1 DEF Succeed, Proceed, Fail
    <3> QED BY <3>1, <3>2, <3>3, TryEnds, TryGoesOn DEF Ended
  <2> QED BY <1>1, <2>1, <2>2 DEF HttpNext
<1>2. CASE ContainerNext
  <2>1. CASE SocketNotReady
    BY <2>1, TryEnds DEF SocketNotReady, Fail, Ended
  <2>2. CASE WaitAgain
    BY <2>2 DEF WaitAgain, Proceed, Turns, Ended, TypeInv, TypeOK
  <2>3. CASE NotRestarted
    BY <2>3 DEF NotRestarted, Fail, Turns, Ended, TypeInv, TypeOK
  <2>4. CASE PollSocket \/ FindToStop \/ StopContainer \/ FindRestarted \/ PsFails
    <3>1. \E d \in Durations : Succeed(d) \/ Fail(d) \/ \E to : Proceed(d, to)
      BY <2>4 DEF PollSocket, FindToStop, StopContainer, FindRestarted, PsFails
    <3>2. stage \in {"socket", "ps", "stop"} /\ Durations \subseteq Nat
      BY <2>4 DEF PollSocket, FindToStop, StopContainer, FindRestarted, PsFails, Durations
    <3>3. kind' = kind
      BY <3>1 DEF Succeed, Proceed, Fail
    <3> QED BY <3>1, <3>2, <3>3, TryEnds, TryGoesOn DEF Ended
  <2> QED BY <1>2, <2>1, <2>2, <2>3, <2>4 DEF ContainerNext
<1>3. CASE RunCommand \/ RunUntil
  <2>1. \E d \in Durations : Succeed(d) \/ Fail(d) \/ Proceed(d, "until")
    BY <1>3 DEF RunCommand, RunUntil
  <2>2. stage \in {"command", "until"} /\ Durations \subseteq Nat
    BY <1>3 DEF RunCommand, RunUntil, Durations
  <2>3. kind' = kind
    BY <2>1 DEF Succeed, Proceed, Fail
  <2> QED BY <2>1, <2>2, <2>3, TryEnds, TryGoesOn DEF Ended
<1>4. CASE StartService
  BY <1>4 DEF StartService, Turns, Ended, TypeInv, TypeOK, Durations
<1>5. CASE Sample
  <2>1. \E d \in Nat : Succeed(d) \/ Fail(d)
    BY <1>5 DEF Sample, Durations
  <2>2. kind' = kind /\ stage = "sample"
    BY <1>5 DEF Sample, Succeed, Fail
  <2> QED BY <2>1, <2>2, TryEnds DEF Ended
<1>6. CASE NextTry
  BY <1>6 DEF NextTry, Sleep, First, Turns, Ended, TypeInv, TypeOK, Kind, Queries, Commands
<1> QED BY <1>1, <1>2, <1>3, <1>4, <1>5, <1>6 DEF StateStep

\* There is a number of steps after which every state has ended, whatever it waits
\* for: the variant that makes RetryEnds true, for all attempts and deadlines.
THEOREM EndsTheorem == Spec => ComesToAnEnd
<1>1. TypeInv /\ TimeInv => StepsLeft >= 0
  <2> SUFFICES ASSUME TypeInv, TimeInv PROVE StepsLeft >= 0
    OBVIOUS
  <2>1. clock <= Limit /\ Limit \in Int
    BY InTime, LimitType DEF GivesUpInTime
  <2>2. /\ clock \in Nat /\ attempt \in Nat /\ Attempts[kind] \in Nat
        /\ attempt <= Attempts[kind] /\ Turns \in Nat
    BY DEF TypeInv, TypeOK, Turns
  <2> QED BY <2>1, <2>2 DEF StepsLeft
<1>2. TypeInv /\ TypeInv' /\ [Next]_vars => UNCHANGED loop \/ StepsLeft' < StepsLeft
  BY EndStep DEF Next, ProcessChanges, vars
<1> DEFINE InBounds == StepsLeft >= 0
<1>3. TypeInv /\ TimeInv => InBounds
  BY <1>1
<1>4. InBounds' => StepsLeft' >= 0
  OBVIOUS
<1> HIDE DEF InBounds
<1> QED BY <1>2, <1>3, <1>4, TypeInvariant, TimeInvariant, PTL DEF Spec, ComesToAnEnd

-------------------------------------------------------------------------------
(* What the states report *)

\* The processes are numbered; the last one was started at upSince.
ProcessInv == inst <= starts /\ upSince <= clock

\* Between the request and the response no process that has answered the request
\* is taken for one that was up throughout.
RequestInv ==
  /\ asked.at <= clock /\ asked.inst <= starts
  /\ stage = "receive" /\ inst # 0 /\ inst # asked.inst => upSince >= asked.at
  /\ ServiceNotMissed

\* Once the container has been stopped, any that runs is another one.
StopInv ==
  /\ before <= starts
  /\ kind = "container" => stage \in {"socket", "ps", "stop", "wait", "sleep", "success", "failure"}
  /\ goal = "wait" /\ stopped # "error" /\ inst # 0 => inst # before
  /\ stage = "success" /\ kind = "container" /\ stopped # "error" => seen # before

\* While a streak lasts, the process is the one that the first sample has seen.
StreakInv ==
  status = "pid" =>
    /\ latest <= starts
    /\ streak > 0 => latest # 0 /\ (inst = latest => upSince <= streakFrom)
    /\ StableIsSame

ReportInv == ProcessInv /\ RequestInv /\ StopInv /\ StreakInv

LEMMA ReportInit == Init => ReportInv
BY DEF Init, LoopInit, HttpInit, ContainerInit, ReportInv, ProcessInv, RequestInv, StopInv,
       StreakInv, ServiceNotMissed, StableIsSame, First, Kind, Queries, Commands

LEMMA ReportHttp ==
  ASSUME TypeInv, TryInv, ReportInv, HttpNext, UNCHANGED <<container, service>>
  PROVE  ReportInv'
<1> USE DEF TypeInv, TypeOK, TryInv, QueryInv, ReportInv, ProcessInv, RequestInv, StopInv, StreakInv,
            ServiceNotMissed, StableIsSame, container, service, process, Kind, Queries, Commands
<1>1. CASE SendRequest
  BY <1>1 DEF SendRequest, Proceed, ContainerInv, CommandInv, ServiceInv
<1>2. CASE Receive
  <2>1. PICK d \in Durations, r \in Responses :
          LET late  == clock + d > from + WaitFor
              later == clock + d > began + WaitFor
              data  == ~r.error \/ late
          IN  \/ data /\ r.matches /\ Succeed(d)
              \/ ~data /\ Proceed(d, "send") /\ UNCHANGED from
              \/ data /\ ~r.matches /\ ~later /\ Proceed(d, "send") /\ from' = clock + d
              \/ data /\ ~r.matches /\ later /\ Fail(d)
    BY <1>2 DEF Receive
  <2>2. d \in Nat
    BY DEF Durations
  <2>3. ~r.matches => inst = 0 \/ inst # asked.inst
    BY DEF Responses
  <2>4. \/ Succeed(d)
        \/ Proceed(d, "send")
        \/ Fail(d) /\ (inst = 0 \/ inst # asked.inst)
    BY <2>1, <2>3
  <2>5. stage = "receive" /\ UNCHANGED <<asked, process>>
    BY <1>2 DEF Receive
  <2>6. kind \in Queries
    BY <2>5 DEF ContainerInv, CommandInv, ServiceInv
  <2> QED BY <2>2, <2>4, <2>5, <2>6 DEF Succeed, Proceed, Fail
<1> QED BY <1>1, <1>2 DEF HttpNext

LEMMA ReportContainer ==
  ASSUME TypeInv, TryInv, ReportInv, ContainerNext, UNCHANGED <<asked, service>>
  PROVE  ReportInv'
<1>1. kind = "container"
  <2>1. stage \in {"socket", "ps", "stop", "wait"}
    BY DEF ContainerNext, PollSocket, SocketNotReady, FindToStop, StopContainer, WaitAgain,
           NotRestarted, FindRestarted, PsFails
  <2> QED BY <2>1 DEF TypeInv, TypeOK, TryInv, QueryInv, CommandInv, ServiceInv, Kind
<1> USE <1>1 DEF TypeInv, TypeOK, TryInv, ContainerInv, ReportInv, ProcessInv, RequestInv, StopInv,
            StreakInv, ServiceNotMissed, StableIsSame, container, service, process, Durations, Queries
<1>2. CASE PollSocket
  BY <1>2 DEF PollSocket, Proceed
<1>3. CASE SocketNotReady
  BY <1>3 DEF SocketNotReady, Fail
<1>4. CASE FindToStop
  BY <1>4 DEF FindToStop, Proceed
<1>5. CASE StopContainer
  BY <1>5 DEF StopContainer, Proceed
<1>6. CASE WaitAgain
  BY <1>6 DEF WaitAgain, Proceed
<1>7. CASE NotRestarted
  BY <1>7 DEF NotRestarted, Fail
<1>8. CASE FindRestarted
  BY <1>8 DEF FindRestarted, Succeed, Proceed
<1>9. CASE PsFails
  BY <1>9 DEF PsFails, Fail
<1> QED BY <1>2, <1>3, <1>4, <1>5, <1>6, <1>7, <1>8, <1>9 DEF ContainerNext

LEMMA ReportStep == TypeInv /\ TryInv /\ ReportInv /\ [Next]_vars => ReportInv'
<1> SUFFICES ASSUME TypeInv, TryInv, ReportInv, [Next]_vars PROVE ReportInv'
  OBVIOUS
<1>1. CASE HttpNext /\ UNCHANGED <<container, service>>
  BY <1>1, ReportHttp
<1>2. CASE ContainerNext /\ UNCHANGED <<asked, service>>
  BY <1>2, ReportContainer
<1> USE DEF TypeInv, TypeOK, TryInv, QueryInv, ContainerInv, CommandInv, ServiceInv, ReportInv,
            ProcessInv, RequestInv, StopInv, StreakInv, ServiceNotMissed, StableIsSame, Ended,
            container, service, process, Kind, Queries, Commands, Durations
<1>3. CASE RunCommand /\ UNCHANGED <<asked, container, service>>
  BY <1>3 DEF RunCommand, Proceed, Succeed, Fail, Begin
<1>4. CASE RunUntil /\ UNCHANGED <<asked, container, service>>
  BY <1>4 DEF RunUntil, Succeed, Fail
<1>5. CASE StartService /\ UNCHANGED <<asked, container, service>>
  BY <1>5 DEF StartService, Begin
<1>6. CASE Sample /\ UNCHANGED <<asked, container>>
  BY <1>6 DEF Sample, Succeed, Fail, SameAsLatest, Status
<1>7. CASE NextTry /\ UNCHANGED <<asked, service>>
  BY <1>7 DEF NextTry, Sleep, First
<1>8. CASE ProcessChanges /\ UNCHANGED <<asked, container, service>>
  BY <1>8 DEF ProcessChanges, Begin, Die, loop
<1>9. CASE UNCHANGED vars
  BY <1>9 DEF vars, loop
<1> QED BY <1>1, <1>2, <1>3, <1>4, <1>5, <1>6, <1>7, <1>8, <1>9, Steps

LEMMA ReportInvariant == Spec => []ReportInv
<1>1. TypeInv /\ TimeInv /\ ReportInv /\ [Next]_vars => ReportInv'
  BY ReportStep DEF TimeInv
<1> QED BY <1>1, ReportInit, TypeInvariant, TimeInvariant, PTL DEF Spec

\* An HTTP service that was up since before the last request was not missed.
THEOREM NotMissedTheorem == Spec => []ServiceNotMissed
<1>1. ReportInv => ServiceNotMissed
  BY DEF ReportInv, RequestInv
<1> QED BY <1>1, ReportInvariant, PTL

\* A container that is reported restarted is not the one that was stopped.
THEOREM RestartTheorem == Spec => []RestartIsNew
<1>1. ReportInv => RestartIsNew
  BY DEF ReportInv, StopInv, RestartIsNew
<1> QED BY <1>1, ReportInvariant, PTL

\* A service that is reported stable has not been restarted during the samples.
THEOREM StableTheorem == Spec => []StableIsSame
<1>1. ReportInv => StableIsSame
  BY DEF ReportInv, StreakInv, StableIsSame
<1> QED BY <1>1, ReportInvariant, PTL
===============================================================================
