-------------------------- MODULE EtcdMembershipProofs --------------------------
(***************************************************************************)
(* Theorems about EtcdMembership: for every set of nodes and however often *)
(* members come and go, a member that goes is the one that was asked for,  *)
(* and who joins alone is configured with the members there are.           *)
(***************************************************************************)
EXTENDS EtcdMembership, FiniteSetTheorems, TLAPS

USE NodeAssumption, BoundAssumption DEF NodeAssumption, BoundAssumption

\* The ids that have been given so far are those up to LastId.
LastId == Cardinality(Node) + adds

\* No id is given twice, and what a caller of member_remove has found is the id of
\* the node that it is about, or of no member any more.
IdInv ==
  /\ \A m \in members : m.id <= LastId
  /\ \A a, b \in members : a.id = b.id => a.node = b.node
  /\ \A n \in Node : found[n] <= LastId
  /\ \A n \in Node : op[n] = "remove" => \A m \in members : m.id = found[n] => m.node = about[n]

IInv == TypeOK /\ IdInv

LEMMA NodeCardinality == Cardinality(Node) \in Nat
BY FS_CardinalityType

LEMMA InvInit == Init => IInv
<1> SUFFICES ASSUME Init PROVE IInv
  OBVIOUS
<1>1. PICK S \in (SUBSET Node) \ {{}} : \E ids \in [S -> 1..Cardinality(S)] :
        /\ \A a, b \in S : ids[a] = ids[b] => a = b
        /\ members = {[node |-> n, id |-> ids[n], started |-> TRUE] : n \in S}
        /\ up = S /\ complete \in {{}, S, Node}
        /\ removal \in SUBSET Node
        /\ op = [n \in Node |-> "idle"] /\ about = [n \in Node |-> n]
        /\ found = [n \in Node |-> 0] /\ unit = [n \in Node |-> IF n \in S THEN S ELSE {}]
        /\ adds = 0 /\ crashes = 0
  BY DEF Init
<1>11. PICK ids \in [S -> 1..Cardinality(S)] :
        /\ \A a, b \in S : ids[a] = ids[b] => a = b
        /\ members = {[node |-> n, id |-> ids[n], started |-> TRUE] : n \in S}
        /\ up = S /\ complete \in {{}, S, Node}
        /\ removal \in SUBSET Node
        /\ op = [n \in Node |-> "idle"] /\ about = [n \in Node |-> n]
        /\ found = [n \in Node |-> 0] /\ unit = [n \in Node |-> IF n \in S THEN S ELSE {}]
        /\ adds = 0 /\ crashes = 0
  BY <1>1
<1>2. IsFiniteSet(S) /\ Cardinality(S) \in Nat /\ Cardinality(S) <= Cardinality(Node)
  BY FS_Subset, FS_CardinalityType
<1>3. \A n \in S : ids[n] \in Nat /\ ids[n] <= Cardinality(Node)
  BY <1>2, NodeCardinality
<1>4. members \subseteq [node : Node, id : Nat, started : BOOLEAN]
  <2>1. \A n \in S : [node |-> n, id |-> ids[n], started |-> TRUE] \in [node : Node, id : Nat, started : BOOLEAN]
    BY <1>3
  <2> QED BY <1>11, <2>1
<1>5. TypeOK
  BY <1>11, <1>4 DEF TypeOK
<1>6. \A m \in members : \E n \in S : m.node = n /\ m.id = ids[n]
  BY <1>11
<1>7. IdInv
  BY <1>11, <1>3, <1>6, NodeCardinality DEF IdInv, LastId
<1> QED BY <1>5, <1>7 DEF IInv

\* Of a node: where its call stands.
LEMMA GotoType ==
  ASSUME TypeOK, NEW n \in Node, NEW to \in {"idle", "add-lookup", "add", "remove"}, Goto(n, to)
  PROVE  /\ op' \in [Node -> {"idle", "add-lookup", "add", "remove"}]
         /\ op'[n] = to /\ \A k \in Node \ {n} : op'[k] = op[k]
BY DEF Goto, TypeOK

LEMMA ForgetType ==
  ASSUME TypeOK, NEW n \in Node, Forget(n)
  PROVE  /\ about' \in [Node -> Node] /\ found' \in [Node -> Nat]
         /\ found'[n] = 0
         /\ \A k \in Node \ {n} : about'[k] = about[k] /\ found'[k] = found[k]
BY DEF Forget, TypeOK

\* A call that ends, or goes on without a member id.
LEMMA OtherOp ==
  ASSUME IInv, NEW n \in Node, NEW to \in {"idle", "add-lookup", "add"}, Goto(n, to),
         Forget(n) \/ UNCHANGED <<about, found>>, UNCHANGED <<members, adds>>
  PROVE  IdInv'
<1>1. \A k \in Node : op'[k] = "remove" => op[k] = "remove" /\ k # n
  BY GotoType DEF IInv
<1>2. \A k \in Node : found'[k] <= LastId
  BY ForgetType, NodeCardinality DEF IInv, IdInv, LastId, TypeOK
<1>3. \A k \in Node \ {n} : about'[k] = about[k] /\ found'[k] = found[k]
  BY ForgetType DEF IInv
<1> QED BY <1>1, <1>2, <1>3 DEF IInv, IdInv, LastId

LEMMA InvAdd ==
  ASSUME IInv, NEW n \in Node, MemberAdd(n)
  PROVE  IInv'
<1>1. /\ Goto(n, "idle") /\ op[n] = "add"
      /\ UNCHANGED <<up, grains, about, found, unit, crashes>>
  BY DEF MemberAdd
<1>2. CASE UNCHANGED <<members, adds>>
  <2>1. IdInv'
    BY <1>1, <1>2, OtherOp
  <2>2. TypeOK'
    BY <1>1, <1>2, GotoType DEF IInv, TypeOK, grains
  <2> QED BY <2>1, <2>2 DEF IInv
<1>3. CASE /\ adds < MaxAdds /\ adds' = adds + 1
           /\ members' = members \cup
                {[node |-> n, id |-> Cardinality(Node) + adds', started |-> FALSE]}
  <2> DEFINE new == [node |-> n, id |-> Cardinality(Node) + adds', started |-> FALSE]
  <2>1. adds \in Nat /\ adds' \in 0..MaxAdds /\ LastId \in Nat /\ LastId' = LastId + 1
        /\ new.id = LastId'
    BY <1>3, NodeCardinality DEF IInv, TypeOK, LastId
  <2>2. new \in [node : Node, id : Nat, started : BOOLEAN]
    BY <2>1
  <2>3. TypeOK'
    <3>1. members' \subseteq [node : Node, id : Nat, started : BOOLEAN]
      BY <1>3, <2>2 DEF IInv, TypeOK
    <3> QED BY <1>1, <2>1, <3>1, GotoType DEF IInv, TypeOK, grains
  <2>4. \A m \in members : m.id \in Nat /\ m.id <= LastId
    BY DEF IInv, TypeOK, IdInv
  <2>5. \A k \in Node : found'[k] \in Nat /\ found'[k] <= LastId
    BY <1>1 DEF IInv, TypeOK, IdInv
  <2>6. \A k \in Node : op'[k] = "remove" => op[k] = "remove"
    BY <1>1, GotoType DEF IInv
  <2>7. \A m \in members' : m \in members \/ m = new
    BY <1>3
  <2> HIDE DEF new
  <2>8. \A m \in members' : m.id <= LastId'
    BY <2>1, <2>4, <2>7
  <2>9. \A a, b \in members' : a.id = b.id => a.node = b.node
    BY <2>1, <2>4, <2>7 DEF IInv, IdInv
  <2>10. \A k \in Node : op'[k] = "remove" =>
           \A m \in members' : m.id = found'[k] => m.node = about'[k]
    BY <1>1, <2>1, <2>5, <2>6, <2>7 DEF IInv, IdInv
  <2>11. \A k \in Node : found'[k] <= LastId'
    BY <2>1, <2>5
  <2>12. IdInv'
    BY <2>8, <2>9, <2>10, <2>11 DEF IdInv
  <2> QED BY <2>3, <2>12 DEF IInv
<1> QED BY <1>2, <1>3 DEF MemberAdd

LEMMA InvStart ==
  ASSUME IInv, NEW n \in Node, StartEtcd(n)
  PROVE  IInv'
<1>1. PICK m \in members : /\ m.node = n
                          /\ members' = (members \ {m}) \cup {[m EXCEPT !.started = TRUE]}
  BY DEF StartEtcd
<1> DEFINE new == [m EXCEPT !.started = TRUE]
<1>2. m \in [node : Node, id : Nat, started : BOOLEAN]
  BY DEF IInv, TypeOK
<1>3. new.id = m.id /\ new.node = m.node /\ new \in [node : Node, id : Nat, started : BOOLEAN]
  BY <1>2
<1>4. up' = up \cup {n} /\ UNCHANGED <<grains, calls, unit, adds, crashes>>
  BY DEF StartEtcd
<1>5. \A k \in members' : k \in members \/ k = new
  BY <1>1
<1>6. TypeOK'
  <2>1. members' \subseteq [node : Node, id : Nat, started : BOOLEAN]
    BY <1>3, <1>5 DEF IInv, TypeOK
  <2> QED BY <1>4, <2>1 DEF IInv, TypeOK, grains, calls
<1> HIDE DEF new
<1>7. IdInv'
  BY <1>3, <1>4, <1>5 DEF IInv, IdInv, calls, LastId
<1> QED BY <1>6, <1>7 DEF IInv

LEMMA InvLookUp ==
  ASSUME IInv, NEW n \in Node, NEW t \in removal, LookUpToRemove(n, t)
  PROVE  IInv'
<1>1. t \in Node
  BY DEF IInv, TypeOK
<1>2. PICK id \in MemberId(n, t) : found' = [found EXCEPT ![n] = id]
  BY DEF LookUpToRemove
<1>3. PICK m \in members : m.id = id /\ m.node = t
  BY <1>2 DEF MemberId, Started
<1>4. id \in Nat /\ id <= LastId
  BY <1>3 DEF IInv, TypeOK, IdInv
<1>5. /\ Goto(n, "remove") /\ about' = [about EXCEPT ![n] = t]
      /\ UNCHANGED <<members, up, grains, unit, adds, crashes>>
  BY DEF LookUpToRemove
<1>6. /\ about' \in [Node -> Node] /\ found' \in [Node -> Nat]
      /\ found'[n] = id /\ about'[n] = t
      /\ \A k \in Node \ {n} : about'[k] = about[k] /\ found'[k] = found[k]
  BY <1>1, <1>2, <1>4, <1>5 DEF IInv, TypeOK
<1>7. TypeOK'
  BY <1>5, <1>6, GotoType DEF IInv, TypeOK, grains
<1>8. \A k \in Node \ {n} : op'[k] = op[k]
  BY <1>5, GotoType DEF IInv
<1>9. \A k \in members : k.id = id => k.node = t
  BY <1>3 DEF IInv, IdInv
<1>10. IdInv'
  BY <1>4, <1>5, <1>6, <1>8, <1>9 DEF IInv, IdInv, LastId
<1> QED BY <1>7, <1>10 DEF IInv

LEMMA InvRemove ==
  ASSUME IInv, NEW n \in Node, MemberRemove(n)
  PROVE  IInv'
<1>1. /\ Goto(n, "idle") /\ Forget(n) /\ UNCHANGED <<grains, unit, adds, crashes>>
      /\ members' \subseteq members /\ up' \subseteq up
  BY DEF MemberRemove
<1>2. TypeOK'
  BY <1>1, GotoType, ForgetType DEF IInv, TypeOK, grains
<1>3. \A k \in Node : op'[k] = "remove" => op[k] = "remove" /\ k # n
  BY <1>1, GotoType DEF IInv
<1>4. \A k \in Node : found'[k] <= LastId
  BY <1>1, ForgetType, NodeCardinality DEF IInv, IdInv, LastId, TypeOK
<1>5. \A k \in Node \ {n} : about'[k] = about[k] /\ found'[k] = found[k]
  BY <1>1, ForgetType DEF IInv
<1>6. IdInv'
  BY <1>1, <1>3, <1>4, <1>5 DEF IInv, IdInv, LastId
<1> QED BY <1>2, <1>6 DEF IInv

LEMMA MembersType ==
  ASSUME TypeOK, NEW n \in Node
  PROVE  Members(n) \subseteq Node
<1>1. \A m \in Started : m.node \in Node  BY DEF TypeOK, Started
<1>2. NodesOf(Started) \subseteq Node  BY <1>1 DEF NodesOf
<1>3. Endpoints(n, TRUE, TRUE) \subseteq Node  BY DEF Endpoints
<1> QED  BY <1>2, <1>3 DEF Members

LEMMA InvStep == IInv /\ [Next]_vars => IInv'
<1> SUFFICES ASSUME IInv, [Next]_vars PROVE IInv'
  OBVIOUS
<1>1. CASE UNCHANGED vars
  BY <1>1 DEF vars, grains, calls, IInv, TypeOK, IdInv, LastId
<1>2. ASSUME NEW n \in Node,
             \/ ShouldRegister(n) \/ LookUpToAdd(n) \/ KillCall(n)
      PROVE  IInv'
  <2>1. PICK to \in {"idle", "add-lookup", "add"} : Goto(n, to)
    BY <1>2 DEF ShouldRegister, LookUpToAdd, KillCall
  <2>2. /\ Forget(n) \/ UNCHANGED <<about, found>>
        /\ UNCHANGED <<members, up, grains, unit, adds>>
        /\ crashes' \in 0..MaxCrashes
    BY <1>2 DEF ShouldRegister, LookUpToAdd, KillCall, IInv, TypeOK
  <2>3. IdInv'
    BY <2>1, <2>2, OtherOp
  <2>4. TypeOK'
    BY <2>1, <2>2, GotoType, ForgetType DEF IInv, TypeOK, grains
  <2> QED BY <2>3, <2>4 DEF IInv
<1>3. ASSUME NEW n \in Node, Configure(n)
      PROVE  IInv'
  <2>1. /\ unit' \in [Node -> SUBSET Node]
        /\ UNCHANGED <<members, up, grains, calls, adds, crashes>>
    BY <1>3, MembersType DEF Configure, IInv, TypeOK
  <2> QED BY <2>1 DEF IInv, TypeOK, IdInv, LastId, grains, calls
<1>4. ASSUME NEW n \in Node, EtcdStops(n)
      PROVE  IInv'
  <2>1. /\ up' \subseteq Node /\ crashes' \in 0..MaxCrashes
        /\ UNCHANGED <<members, grains, calls, unit, adds>>
    BY <1>4 DEF EtcdStops, IInv, TypeOK
  <2> QED BY <2>1 DEF IInv, TypeOK, IdInv, LastId, grains, calls
<1> QED BY <1>1, <1>2, <1>3, <1>4, InvAdd, InvStart, InvLookUp, InvRemove DEF Next

LEMMA Invariant == Spec => []IInv
BY InvInit, InvStep, PTL DEF Spec

\* The types, ids being numbers.
THEOREM TypeTheorem == Spec => []TypeOK
<1>1. IInv => TypeOK
  BY DEF IInv
<1> QED BY <1>1, Invariant, PTL

\* Only the member of the node that member_remove was called for goes, as the id
\* that was found for it is never given to another.
THEOREM RemovalTheorem == Spec => RemovedIsTarget
<1>1. IInv /\ [Next]_vars =>
        [\A m \in members : m.id \notin {k.id : k \in members'} =>
           \E n \in Node : op[n] = "remove" /\ about[n] = m.node]_vars
  <2> SUFFICES ASSUME IInv, [Next]_vars, NEW m \in members, m.id \notin {k.id : k \in members'}
               PROVE  \E n \in Node : op[n] = "remove" /\ about[n] = m.node
    OBVIOUS
  <2>1. m \notin members'
    OBVIOUS
  <2>2. CASE \E n \in Node : MemberRemove(n)
    <3>1. PICK n \in Node : MemberRemove(n)
      BY <2>2
    <3>2. op[n] = "remove" /\ m.id = found[n]
      BY <2>1, <3>1 DEF MemberRemove
    <3> QED BY <3>2 DEF IInv, IdInv
  <2>3. CASE \E n \in Node : StartEtcd(n)
    <3>1. PICK n \in Node : StartEtcd(n)
      BY <2>3
    <3>2. PICK k \in members : members' = (members \ {k}) \cup {[k EXCEPT !.started = TRUE]}
      BY <3>1 DEF StartEtcd
    <3>3. m = k /\ [k EXCEPT !.started = TRUE] \in members'
      BY <2>1, <3>2
    <3>4. k \in [node : Node, id : Nat, started : BOOLEAN]
      BY DEF IInv, TypeOK
    <3>5. [k EXCEPT !.started = TRUE].id = m.id
      BY <3>3, <3>4
    <3> QED BY <3>3, <3>5
  <2>4. CASE members \subseteq members'
    BY <2>1, <2>4
  <2>5. \/ \E n \in Node : MemberRemove(n) \/ StartEtcd(n)
        \/ members \subseteq members'
    BY DEF Next, vars, ShouldRegister, LookUpToAdd, MemberAdd, Configure, LookUpToRemove, EtcdStops,
           KillCall
  <2> QED BY <2>2, <2>3, <2>4, <2>5
<1> QED BY <1>1, Invariant, PTL DEF Spec, RemovedIsTarget

\* The node that joins, and is the only one to, is configured with all the members.
THEOREM JoinTheorem == Spec => ListMatchesWhenAlone
<1>1. IInv /\ [Next]_vars =>
        [\A n \in Node :
           unit'[n] # unit[n] /\ Answers(n, FALSE) /\ NodesOf(members \ Started) = {n} =>
             unit'[n] = NodesOf(members)]_vars
  <2> SUFFICES ASSUME IInv, [Next]_vars, NEW n \in Node, unit'[n] # unit[n], Answers(n, FALSE),
                      NodesOf(members \ Started) = {n}
               PROVE  unit'[n] = NodesOf(members)
    OBVIOUS
  <2>1. PICK k \in Node : Configure(k)
    BY DEF Next, vars, ShouldRegister, LookUpToAdd, MemberAdd, StartEtcd, LookUpToRemove, MemberRemove,
           EtcdStops, KillCall
  <2>2. k = n /\ unit'[n] = Members(n)
    BY <2>1 DEF Configure, IInv, TypeOK
  <2>3. Members(n) = NodesOf(Started) \cup {n}
    BY DEF Members
  <2>4. NodesOf(members) = NodesOf(Started) \cup NodesOf(members \ Started)
    BY DEF NodesOf, Started
  <2> QED BY <2>2, <2>3, <2>4
<1> QED BY <1>1, Invariant, PTL DEF Spec, ListMatchesWhenAlone
===============================================================================
