------------------------------ MODULE EtcdMembership -----------------------------
(***************************************************************************)
(* _modules/caasp_etcd.py: how a node becomes a member of an etcd cluster  *)
(* that runs (should_register_etcd_member, member_add), how it ceases to   *)
(* be one (member_remove), and which members it is configured with         *)
(* (get_current_endpoints_with_self).  Every call of etcdctl is a step of  *)
(* its own; the nodes work at the same time.                               *)
(***************************************************************************)
EXTENDS Naturals, FiniteSets

CONSTANTS
  Node,
  MaxAdds,      \* bound: how often a member is added
  MaxCrashes    \* bound: how often etcd goes down or a call is killed

ASSUME NodeAssumption == IsFiniteSet(Node)
ASSUME BoundAssumption == MaxAdds \in Nat /\ MaxCrashes \in Nat

VARIABLES
  members,   \* of the cluster: [node, id, started], an id is never used again
  up,        \* the nodes whose etcd runs
  complete,  \* grains, as the mine knows them: bootstrap_complete,
  removal,   \* node_removal_in_progress; all of the nodes have the role etcd
  op,        \* of each node, what its call does next
  about,     \* the node that it is about
  found,     \* the member id that it has found, 0 for none
  unit,      \* the members that the node is configured with, {} for not configured
  adds, crashes

grains == <<complete, removal>>
calls  == <<op, about, found>>
vars   == <<members, up, grains, calls, unit, adds, crashes>>

Started   == {m \in members : m.started}
NodesOf(S) == {m.node : m \in S}

Init ==
  \E S \in (SUBSET Node) \ {{}} : \E ids \in [S -> 1..Cardinality(S)] :
    /\ \A a, b \in S : ids[a] = ids[b] => a = b
    /\ members = {[node |-> n, id |-> ids[n], started |-> TRUE] : n \in S}
    /\ up = S /\ complete \in {{}, S, Node}
    /\ removal \in SUBSET Node
    /\ op = [n \in Node |-> "idle"] /\ about = [n \in Node |-> n]
    /\ found = [n \in Node |-> 0] /\ unit = [n \in Node |-> IF n \in S THEN S ELSE {}]
    /\ adds = 0 /\ crashes = 0

-------------------------------------------------------------------------------
(* etcdctl *)

FirstBootstrap == complete = {}

\* get_endpoints on node n: the members as the grains tell, in any case the node
\* itself, unless it is skipped.  The names come from the grain nodename in the
\* mine, as if the pillar exported it (mine.sls does not: in this deployment there
\* is no endpoint, and get_endpoints raises).
Endpoints(n, skipThis, skipRemoved) ==
  {m \in Node : /\ skipThis => m # n
                /\ skipRemoved => m \notin removal
                /\ ~FirstBootstrap => m \in complete \cup {n}}

\* Without an endpoint get_endpoints raises; without one that answers etcdctl
\* fails.  Any of them serves the list of the members here; etcd 3.5 does so only
\* with a quorum, so that the model knows more behaviours.
Answers(n, skipThis) == Endpoints(n, skipThis, FALSE) \cap NodesOf(Started) \cap up # {}

\* External: what etcd does with a change of its membership.
Quorum     == Cardinality(NodesOf(Started) \cap up) * 2 > Cardinality(members)
\* strict-reconfig-check
Growable   == \/ Cardinality(Started) * 2 > Cardinality(members) + 1
              \/ Cardinality(members) = 1

\* healthy: every member that has been started answers, and there is a quorum.
Healthy(n) == Answers(n, FALSE) /\ NodesOf(Started) \subseteq up /\ Quorum

\* Mutant of MemberId: the URL is looked for in the whole output.
MemberIdAnyLine(n, node) ==
  {m.id : m \in {m \in members : Answers(n, FALSE) /\ node \in NodesOf(Started)}}

\* get_member_id looks for the client URL of the node in the list; a member that
\* has not been started has none, and an exception counts as not found.
MemberId(n, node) ==
  {m.id : m \in {m \in Started : m.node = node /\ Answers(n, FALSE)}}

\* is_member_registered, as should_register_etcd_member calls it: the client port
\* is looked for among peer URLs.
Registered(node) == FALSE

-------------------------------------------------------------------------------
(* Becoming a member *)

Goto(n, to) == op' = [op EXCEPT ![n] = to]

\* The call is over: its variables are gone.
Forget(n) == about' = [about EXCEPT ![n] = n] /\ found' = [found EXCEPT ![n] = 0]

\* should_register_etcd_member.  The list of the members, which is asked for after
\* the health, does not matter, as Registered says.
ShouldRegister(n) ==
  /\ op[n] = "idle"
  /\ ~FirstBootstrap /\ Healthy(n) /\ ~Registered(n)
  /\ Goto(n, "add-lookup")
  /\ UNCHANGED <<members, up, grains, about, found, unit, adds, crashes>>

\* member_add: a member that is found is taken for added.
LookUpToAdd(n) ==
  /\ op[n] = "add-lookup"
  /\ Goto(n, IF MemberId(n, n) # {} THEN "idle" ELSE "add")
  /\ UNCHANGED <<members, up, grains, about, found, unit, adds, crashes>>

MemberAdd(n) ==
  /\ op[n] = "add"
  /\ IF Answers(n, TRUE) /\ Quorum /\ Growable /\ n \notin NodesOf(members)
     THEN /\ adds < MaxAdds
          /\ adds' = adds + 1
          /\ members' = members \cup
               {[node |-> n, id |-> Cardinality(Node) + adds', started |-> FALSE]}
     ELSE UNCHANGED <<members, adds>>
  /\ Goto(n, "idle")
  /\ UNCHANGED <<up, grains, about, found, unit, crashes>>

\* Mutant of Members: the node itself is left out.
MembersWithoutSelf(n) ==
  IF Answers(n, FALSE) THEN NodesOf(Started) ELSE Endpoints(n, TRUE, TRUE)

\* Mutant of Members: the ids of the members instead of their names.
MembersById(n) ==
  IF Answers(n, FALSE) THEN {m.id : m \in Started} \cup {n}
  ELSE Endpoints(n, TRUE, TRUE) \cup {n}

\* get_current_endpoints_with_self: the members that have been started, or, where
\* etcd does not answer, those that the grains tell.
Members(n) ==
  (IF Answers(n, FALSE) THEN NodesOf(Started) ELSE Endpoints(n, TRUE, TRUE)) \cup {n}

Configure(n) ==
  /\ op[n] = "idle" /\ n \notin up
  /\ unit' = [unit EXCEPT ![n] = Members(n)]
  /\ UNCHANGED <<members, up, grains, calls, adds, crashes>>

\* External: a new member starts when it is configured with the members that the
\* cluster has; one that has been started before goes by its data.
StartEtcd(n) ==
  /\ n \notin up
  /\ \E m \in members :
       /\ m.node = n
       /\ m.started \/ (unit[n] = NodesOf(members) /\ NodesOf(Started) \cap up # {})
       /\ members' = (members \ {m}) \cup {[m EXCEPT !.started = TRUE]}
  /\ up' = up \cup {n}
  /\ UNCHANGED <<grains, calls, unit, adds, crashes>>

-------------------------------------------------------------------------------
(* Ceasing to be one *)

LookUpToRemove(n, t) ==
  /\ op[n] = "idle" /\ t \in removal
  /\ \E id \in MemberId(n, t) : found' = [found EXCEPT ![n] = id]
  /\ Goto(n, "remove") /\ about' = [about EXCEPT ![n] = t]
  /\ UNCHANGED <<members, up, grains, unit, adds, crashes>>

\* etcdctl member remove of the id that was found.
MemberRemove(n) ==
  /\ op[n] = "remove"
  /\ members' = IF Answers(n, FALSE) /\ Quorum
                THEN {m \in members : m.id # found[n]} ELSE members
  /\ up' = up \cap NodesOf(members')
  /\ Goto(n, "idle")
  /\ Forget(n)
  /\ UNCHANGED <<grains, unit, adds, crashes>>

-------------------------------------------------------------------------------
(* Faults *)

EtcdStops(n) ==
  /\ n \in up /\ crashes < MaxCrashes
  /\ up' = up \ {n} /\ crashes' = crashes + 1
  /\ UNCHANGED <<members, grains, calls, unit, adds>>

KillCall(n) ==
  /\ op[n] # "idle" /\ crashes < MaxCrashes
  /\ Goto(n, "idle") /\ Forget(n) /\ crashes' = crashes + 1
  /\ UNCHANGED <<members, up, grains, unit, adds>>

Next ==
  \E n \in Node :
    \/ ShouldRegister(n) \/ LookUpToAdd(n) \/ MemberAdd(n)
    \/ Configure(n) \/ StartEtcd(n)
    \/ MemberRemove(n) \/ \E t \in removal : LookUpToRemove(n, t)
    \/ EtcdStops(n) \/ KillCall(n)

Spec == Init /\ [][Next]_vars

-------------------------------------------------------------------------------
(* Properties *)

TypeOK ==
  /\ members \subseteq [node : Node, id : Nat, started : BOOLEAN]
  /\ up \subseteq Node /\ complete \subseteq Node
  /\ removal \subseteq Node
  /\ op \in [Node -> {"idle", "add-lookup", "add", "remove"}]
  /\ about \in [Node -> Node] /\ found \in [Node -> Nat]
  /\ unit \in [Node -> SUBSET Node]
  /\ adds \in 0..MaxAdds /\ crashes \in 0..MaxCrashes

\* A member that goes is the one that a caller of member_remove named: not another
\* one, whatever was removed and added since the caller has looked it up.
RemovedIsTarget ==
  [][\A m \in members : m.id \notin {k.id : k \in members'} =>
       \E n \in Node : op[n] = "remove" /\ about[n] = m.node]_vars

\* Whoever is configured while etcd answers, and is the only one to join, gets the
\* members that the cluster has.
ListMatchesWhenAlone ==
  [][\A n \in Node :
       unit'[n] # unit[n] /\ Answers(n, FALSE) /\ NodesOf(members \ Started) = {n} =>
         unit'[n] = NodesOf(members)]_vars
===============================================================================
