-------------------------- MODULE NodeSelectionProofs ---------------------------
(***************************************************************************)
(* Theorems about NodeSelection: what get_replacement_for promises, for    *)
(* every set of nodes, every node to remove and every replacement that the *)
(* user gives, however the grains change during the call.                  *)
(***************************************************************************)
EXTENDS NodeSelection, NodeSearchProofs

USE NodeAssumption, SituationsAssumption, BoundAssumption, NoneAssumption
  DEF NodeAssumption, SituationsAssumption, BoundAssumption, NoneAssumption

\* The part of the function about role s is over.
Passed(s) ==
  \/ stage \in {"final", "done", "internal"}
  \/ s = "etcd" /\ stage \in {"kube-master", "kube-minion"}
  \/ s = "kube-master" /\ stage = "kube-minion"

\* A role is only given in its part of the function, and only to a replacement.
OrderInv == \A s \in newroles : Passed(s) \/ stage = "aborted"

\* The replacement is the user's, or was chosen because it gets a role.
OriginInv ==
  /\ given # None => replacement = given
  /\ given = None => (replacement # None <=> newroles # {})

CompatibleInv ==
  /\ "kube-master" \in newroles => replacement \notin With("kube-minion")
  /\ "kube-minion" \in newroles =>
       replacement \notin With("kube-master") /\ "kube-master" \notin newroles

\* A role of the node to remove has been given away, or there are others with it.
KeptInv ==
  \A s \in ClusterRole : Passed(s) /\ s \in grains[target].roles =>
    s \in newroles \/ (given = None /\ ~TooFew(s))

EndInv == stage = "internal" => replacement # None /\ newroles = {}

CallInv == OrderInv /\ OriginInv /\ CompatibleInv /\ KeptInv /\ EndInv

IInv == SearchInv /\ TypeOK /\ CallInv

-------------------------------------------------------------------------------

LEMMA InitInv == Init => IInv
<1> SUFFICES ASSUME Init PROVE IInv OBVIOUS
<1>1. found = <<>> /\ Len(found) = 0 /\ found \in Seq(Node)
  BY DEF Init
<1>2. grains \in [Node -> Grains]
  BY DEF Init
<1>3. SearchInv
  BY <1>1, <1>2 DEF Init, Purpose, SearchInv, SearchTypeOK, FoundSound, Found
<1>4. TypeOK
  BY <1>3 DEF Init, TypeOK, SearchInv, Stage
<1>5. CallInv
  BY DEF Init, CallInv, OrderInv, OriginInv, CompatibleInv, KeptInv, EndInv, Passed,
         ClusterRole
<1> QED BY <1>3, <1>4, <1>5 DEF IInv

\* Where neither the roles nor the call change, its invariant does not either.
LEMMA CallUnchanged ==
  ASSUME IInv, UNCHANGED call, SearchInv',
         \A m \in Node : grains'[m].roles = grains[m].roles
  PROVE  IInv'
<1>1. TypeOK'
  BY DEF IInv, TypeOK, SearchInv, call
<1>2. \A s : With(s)' = With(s)
  BY DEF With
<1>3. (\A s : Passed(s)' = Passed(s)) /\ (\A s : TooFew(s)' = TooFew(s))
  BY <1>2 DEF Passed, TooFew, call
<1>4. target' = target /\ target \in Node /\ grains'[target].roles = grains[target].roles
  BY DEF IInv, TypeOK, call
<1>5. CallInv'
  BY <1>2, <1>3, <1>4 DEF IInv, CallInv, OrderInv, OriginInv, CompatibleInv, KeptInv,
                          EndInv, call
<1> QED BY <1>1, <1>5 DEF IInv

\* The parts of the function leave what the search uses alone.
LEMMA SearchUnchanged ==
  ASSUME IInv, UNCHANGED <<grains, changes, search>>
  PROVE  SearchInv' /\ \A s : With(s)' = With(s) /\ TooFew(s)' = TooFew(s)
BY DEF IInv, SearchInv, SearchTypeOK, FoundSound, Found, search, With, TooFew

LEMMA CheckStep == IInv /\ Check => IInv'
<1> SUFFICES ASSUME IInv, Check PROVE IInv' OBVIOUS
<1>1. SearchInv' /\ stage = "check" /\ stage' \in {"aborted", "etcd"}
      /\ UNCHANGED <<grains, target, given, replacement, newroles>>
  BY SearchUnchanged DEF Check
<1>2. newroles = {}
  BY <1>1 DEF IInv, CallInv, OrderInv, Passed
<1>3. TypeOK'
  BY <1>1 DEF IInv, TypeOK, SearchInv, Stage
<1>4. CallInv'
  BY <1>1, <1>2 DEF IInv, CallInv, OrderInv, OriginInv, CompatibleInv, KeptInv, EndInv,
                    Passed
<1> QED BY <1>1, <1>3, <1>4 DEF IInv

\* When a part ends without giving its role, it must not be needed.
LEMMA MoveOn ==
  ASSUME IInv, NEW s \in ClusterRole, stage = s, stage' = After(s),
         UNCHANGED <<grains, changes, search, target, given, replacement, newroles>>,
         s \in grains[target].roles => given = None /\ ~TooFew(s)
  PROVE  IInv'
<1>1. SearchInv' /\ \A r : With(r)' = With(r) /\ TooFew(r)' = TooFew(r)
  BY SearchUnchanged
<1>2. stage' \in {"kube-master", "kube-minion", "final"}
      /\ \A r \in ClusterRole : Passed(r)' => Passed(r) \/ r = s
  BY DEF After, Passed, ClusterRole
<1>3. \A r \in ClusterRole : Passed(r) => Passed(r)'
  BY DEF After, Passed, ClusterRole
<1>4. TypeOK'
  BY <1>1, <1>2 DEF IInv, TypeOK, SearchInv, Stage
<1>5. newroles \subseteq ClusterRole /\ stage # "aborted"
  BY DEF IInv, TypeOK, ClusterRole
<1>6. OrderInv' /\ OriginInv' /\ EndInv'
  BY <1>2, <1>3, <1>5 DEF IInv, CallInv, OrderInv, OriginInv, EndInv
<1>7. CompatibleInv'
  BY <1>1 DEF IInv, CallInv, CompatibleInv
<1>8. KeptInv'
  BY <1>1, <1>2 DEF IInv, CallInv, KeptInv
<1> QED BY <1>1, <1>4, <1>6, <1>7, <1>8 DEF IInv, CallInv

\* An aborted call makes no promise.
LEMMA Aborting ==
  ASSUME IInv, stage' = "aborted",
         UNCHANGED <<grains, changes, search, target, given, replacement, newroles>>
  PROVE  IInv'
<1>1. SearchInv' /\ \A r : With(r)' = With(r) /\ TooFew(r)' = TooFew(r)
  BY SearchUnchanged
<1>2. TypeOK'
  BY <1>1 DEF IInv, TypeOK, SearchInv, Stage
<1>3. CallInv'
  BY <1>1 DEF IInv, CallInv, OrderInv, OriginInv, CompatibleInv, KeptInv, EndInv, Passed,
              ClusterRole
<1> QED BY <1>1, <1>2, <1>3 DEF IInv

LEMMA AssignStep ==
  ASSUME IInv, NEW s \in ClusterRole, Assign(s)
  PROVE  IInv'
<1>1. /\ SearchInv' /\ \A r : With(r)' = With(r) /\ TooFew(r)' = TooFew(r)
      /\ UNCHANGED <<grains, target, given>>
      /\ stage = s /\ s \in grains[target].roles /\ stage' = After(s)
      /\ replacement' = Candidate /\ newroles' = newroles \cup {s}
      /\ Candidate # None /\ ~Unfit(s, Candidate)
  BY SearchUnchanged DEF Assign, Ready, Leaves, Accepted
<1>2. Candidate \in Node
  <2>1. CASE replacement # None
    BY <2>1 DEF Candidate, IInv, TypeOK
  <2>2. CASE replacement = None
    <3>1. found # <<>> /\ found \in Seq(Node)
      BY <1>1, <2>2 DEF Candidate, IInv, SearchInv, SearchTypeOK
    <3> QED BY <2>2, <3>1 DEF Candidate
  <2> QED BY <2>1, <2>2
<1>3. /\ stage' \in {"kube-master", "kube-minion", "final"}
      /\ \A r \in ClusterRole : Passed(r)' <=> Passed(r) \/ r = s
  BY <1>1 DEF After, Passed, ClusterRole
<1>4. TypeOK'
  BY <1>1, <1>2, <1>3 DEF IInv, TypeOK, SearchInv, Stage
<1>5. replacement # None => replacement' = replacement
  BY <1>1 DEF Candidate
<1>6. replacement = None => newroles = {}
  BY DEF IInv, CallInv, OriginInv, TypeOK
<1>7. \A r \in newroles : r \in ClusterRole /\ Passed(r)
  BY <1>1 DEF IInv, TypeOK, CallInv, OrderInv, ClusterRole
<1>8. OrderInv' /\ OriginInv' /\ EndInv'
  BY <1>1, <1>3, <1>5, <1>7 DEF IInv, TypeOK, CallInv, OrderInv, OriginInv, EndInv
<1>9. CompatibleInv'
  <2>1. CASE s = "etcd"
    BY <2>1, <1>1, <1>7 DEF Passed, CompatibleInv
  <2>2. CASE s = "kube-master"
    BY <2>2, <1>1, <1>7 DEF Passed, CompatibleInv, Unfit
  <2>3. CASE s = "kube-minion"
    BY <2>3, <1>1, <1>7 DEF Passed, CompatibleInv, Unfit
  <2> QED BY <2>1, <2>2, <2>3 DEF ClusterRole
<1>10. KeptInv'
  BY <1>1, <1>3 DEF IInv, CallInv, KeptInv
<1> QED BY <1>1, <1>4, <1>8, <1>9, <1>10 DEF IInv, CallInv

LEMMA ConcludeStep == IInv /\ Conclude => IInv'
<1> SUFFICES ASSUME IInv, Conclude PROVE IInv' OBVIOUS
<1>1. /\ SearchInv' /\ \A r : With(r)' = With(r) /\ TooFew(r)' = TooFew(r)
      /\ UNCHANGED <<grains, target, given, replacement, newroles>> /\ stage = "final"
      /\ stage' = IF replacement # None /\ newroles = {} THEN "internal" ELSE "done"
  BY SearchUnchanged DEF Conclude
<1>2. \A r : Passed(r) /\ Passed(r)'
  BY <1>1 DEF Passed
<1>3. TypeOK'
  BY <1>1 DEF IInv, TypeOK, SearchInv, Stage
<1>4. CallInv'
  BY <1>1, <1>2 DEF IInv, CallInv, OrderInv, OriginInv, CompatibleInv, KeptInv, EndInv
<1> QED BY <1>1, <1>3, <1>4 DEF IInv

LEMMA NextInv == IInv /\ [Next]_vars => IInv'
<1> SUFFICES ASSUME IInv, [Next]_vars PROVE IInv' OBVIOUS
<1>1. CASE Check
  BY <1>1, CheckStep
<1>2. CASE Conclude
  BY <1>2, ConcludeStep
<1>3. ASSUME NEW s \in ClusterRole, SkipRole(s) PROVE IInv'
  BY <1>3, MoveOn DEF SkipRole
<1>4. ASSUME NEW s \in ClusterRole, LookFor(s) PROVE IInv'
  <2>1. s \in Purpose /\ 1 \in Nat /\ excluded \in SUBSET Node
    BY DEF ClusterRole, Purpose, IInv, SearchInv, SearchTypeOK
  <2>2. SearchInv'
    BY <1>4, <2>1, SearchForStep DEF LookFor, IInv
  <2> QED BY <1>4, <2>2, CallUnchanged DEF LookFor
<1>5. ASSUME NEW s \in ClusterRole, Refuse(s) PROVE IInv'
  BY <1>5, Aborting DEF Refuse
<1>6. ASSUME NEW s \in ClusterRole, Assign(s) PROVE IInv'
  BY <1>6, AssignStep
<1>7. ASSUME NEW s \in ClusterRole, GoWithout(s) PROVE IInv'
  <2>1. CASE TooFew(s)
    BY <1>7, <2>1, Aborting DEF GoWithout
  <2>2. CASE ~TooFew(s)
    BY <1>7, <2>2, MoveOn DEF GoWithout, Ready, Leaves
  <2> QED BY <2>1, <2>2
<1>8. CASE TryRule /\ UNCHANGED call
  BY <1>8, TryRuleStep, CallUnchanged DEF IInv
<1>9. ASSUME NEW n \in Node, Change(n), UNCHANGED call PROVE IInv'
  BY <1>9, ChangeStep, CallUnchanged DEF IInv
<1>10. CASE UNCHANGED vars
  BY <1>10, SearchUnchanged, CallUnchanged DEF vars
<1> QED BY <1>1, <1>2, <1>3, <1>4, <1>5, <1>6, <1>7, <1>8, <1>9, <1>10 DEF Next

THEOREM Invariant == Spec => []IInv
<1> QED BY InitInv, NextInv, PTL DEF Spec

-------------------------------------------------------------------------------

\* Type correctness.
THEOREM TypeCorrect == Spec => []TypeOK
<1>1. IInv => TypeOK
  BY DEF IInv
<1> QED BY <1>1, Invariant, PTL

\* A node may only be removed when each of its roles is left with another one: it
\* has been given to the replacement, or the minimum is not reached.
THEOREM RolesAreKept == Spec => []RoleKept
<1>1. IInv => RoleKept
  <2> SUFFICES ASSUME IInv, stage = "done", replacement # target,
                      NEW s \in grains[target].roles \cap ClusterRole
               PROVE  \E n \in Node \ {target} : s \in RolesAfter(n)
    BY DEF RoleKept
  <2>1. CASE s \in newroles
    <3>1. replacement \in Node
      BY <2>1 DEF IInv, TypeOK, CallInv, OriginInv
    <3> QED BY <2>1, <3>1 DEF RolesAfter
  <2>2. CASE ~TooFew(s)
    <3>1. IsFiniteSet(With(s))
      BY FS_Subset DEF With
    <3>2. \E n \in With(s) : n # target
      <4> SUFFICES ASSUME With(s) \subseteq {target} PROVE FALSE OBVIOUS
      <4>1. Cardinality(With(s)) <= Cardinality({target})
        BY FS_Singleton, FS_Subset
      <4>2. Cardinality({target}) = 1 /\ Cardinality(With(s)) \in Nat
        BY <3>1, FS_Singleton, FS_CardinalityType
      <4> QED BY <4>1, <4>2, <2>2 DEF TooFew
    <3> QED BY <3>2 DEF With, RolesAfter
  <2>3. Passed(s)
    BY DEF Passed
  <2> QED BY <2>1, <2>2, <2>3 DEF IInv, CallInv, KeptInv
<1> QED BY <1>1, Invariant, PTL

\* Nobody becomes a master and a minion by replacing a node.
THEOREM RolesAreCompatible == Spec => []RolesCompatible
<1>1. IInv => RolesCompatible
  <2> SUFFICES ASSUME IInv, NEW s \in newroles \cap Kube
               PROVE  (Kube \ {s}) \cap RolesAfter(replacement) = {}
    BY DEF RolesCompatible
  <2>1. replacement \in Node
    BY DEF IInv, TypeOK, CallInv, OriginInv
  <2>2. CASE s = "kube-master"
    BY <2>1, <2>2 DEF IInv, CallInv, CompatibleInv, RolesAfter, Kube, With
  <2>3. CASE s = "kube-minion"
    BY <2>1, <2>3 DEF IInv, CallInv, CompatibleInv, RolesAfter, Kube, With
  <2> QED BY <2>2, <2>3 DEF Kube
<1> QED BY <1>1, Invariant, PTL

\* The final consistency check can only fail for a node that has no role to give.
THEOREM NoInternalErrors == Spec => []NoInternalError
<1>1. IInv => NoInternalError
  <2> SUFFICES ASSUME IInv, stage = "internal", NEW s \in grains[target].roles \cap ClusterRole
               PROVE  FALSE
    BY DEF NoInternalError
  <2>1. Passed(s) /\ replacement # None /\ newroles = {}
    BY DEF Passed, IInv, CallInv, EndInv
  <2>2. given # None
    BY <2>1 DEF IInv, CallInv, OriginInv
  <2> QED BY <2>1, <2>2 DEF IInv, CallInv, KeptInv
<1> QED BY <1>1, Invariant, PTL

\* The searches of the call find no node twice, one at most, and never the admin or
\* the CA.
THEOREM ReplacementsSound == Spec => []FoundSound
<1>1. IInv => FoundSound
  BY DEF IInv, SearchInv
<1> QED BY <1>1, Invariant, PTL

\* Whatever changes during the call, the node that is found for a role is the best of
\* those whose grains do not change while it is looked for.
THEOREM ReplacementsBest == Spec => []SearchIsBest
<1>1. Init => AskedInv
  BY DEF Init, AskedInv, Purpose
<1>2. IInv /\ AskedInv /\ [Next]_vars => AskedInv'
  <2> SUFFICES ASSUME IInv, AskedInv, [Next]_vars PROVE AskedInv' OBVIOUS
  <2>1. CASE Check \/ Conclude \/ UNCHANGED vars
    BY <2>1, BestUnchanged DEF Check, Conclude, vars
  <2>2. ASSUME NEW s \in ClusterRole, SkipRole(s) \/ Refuse(s) \/ Assign(s) \/ GoWithout(s)
        PROVE  AskedInv'
    BY <2>2, BestUnchanged DEF SkipRole, Refuse, Assign, GoWithout
  <2>3. ASSUME NEW s \in ClusterRole, LookFor(s) PROVE AskedInv'
    <3>1. s \in Purpose /\ 1 \in Nat \ {0}
      BY DEF ClusterRole, Purpose
    <3> QED BY <2>3, <3>1, BestBegun DEF LookFor
  <2>4. CASE TryRule \/ \E n \in Node : Change(n)
    BY <2>4, BestStep DEF IInv
  <2> QED BY <2>1, <2>2, <2>3, <2>4 DEF Next
<1>3. IInv /\ AskedInv => SearchIsBest
  BY AskedFound DEF IInv
<1> QED BY <1>1, <1>2, <1>3, Invariant, PTL DEF Spec
===============================================================================
