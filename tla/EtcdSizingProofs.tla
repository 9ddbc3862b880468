---------------------------- MODULE EtcdSizingProofs ----------------------------
(***************************************************************************)
(* Theorems about EtcdSizing: the size of the etcd cluster for every       *)
(* number of nodes, and that the members found fit it, however the grains  *)
(* change during the search.                                               *)
(***************************************************************************)
EXTENDS EtcdSizing, NodeSearchProofs

USE NodeAssumption, SituationsAssumption, BoundAssumption, SizeAssumption
  DEF NodeAssumption, SituationsAssumption, BoundAssumption, SizeAssumption

\* The size that get_cluster_size computes is the documented one where that is 1, 3, 5
\* or 7, and elsewhere the largest of these below it (at least 1): with the pillar not
\* set, for any number of masters and minions.
THEOREM SizesAsDocumented ==
  ASSUME NEW masters \in Nat, NEW minions \in Nat
  PROVE  LET size       == ClusterSize(0, masters, minions)
             documented == DocumentedSize(masters, minions)
         IN  IF documented \in OddSizes THEN size = documented
             ELSE /\ size \in OddSizes /\ (size < documented \/ size = 1)
                  /\ \A k \in OddSizes : k < documented => k <= size
BY DEF ClusterSize, Optimal, AtMost, MinRecommended, DocumentedSize, OddSizes

\* The same for the sizes that the runs check.
THEOREM SizeTheorem == Spec => []SizeIsDocumentedIfOdd
<1>1. SizeIsDocumentedIfOdd
  <2> SUFFICES ASSUME NEW masters \in 0..9, NEW minions \in 0..9
               PROVE  LET size       == ClusterSize(0, masters, minions)
                          documented == DocumentedSize(masters, minions)
                      IN  IF documented \in OddSizes THEN size = documented
                          ELSE /\ size \in OddSizes /\ (size < documented \/ size = 1)
                               /\ \A k \in OddSizes : k < documented => k <= size
    BY DEF SizeIsDocumentedIfOdd
  <2> QED BY SizesAsDocumented
<1> QED BY <1>1, PTL

-------------------------------------------------------------------------------

\* The members of a sequence are not more than its length.
LEMMA RangeCardinality ==
  ASSUME NEW S, NEW s \in Seq(S)
  PROVE  LET R == {s[i] : i \in 1..Len(s)}
         IN  IsFiniteSet(R) /\ Cardinality(R) <= Len(s)
<1> DEFINE R == {s[i] : i \in 1..Len(s)}
<1>1. Len(s) \in Nat /\ s \in [1..Len(s) -> R]
  OBVIOUS
<1>2. s \in Surjection(1..Len(s), R)
  BY <1>1 DEF Surjection
<1>3. IsFiniteSet(1..Len(s)) /\ Cardinality(1..Len(s)) = Len(s)
  <2>1. ASSUME NEW n \in Nat PROVE IsFiniteSet(1..n) /\ Cardinality(1..n) = n
    BY FS_Interval
  <2> QED BY <1>1, <2>1
<1> HIDE DEF R
<1>4. IsFiniteSet(R) /\ Cardinality(R) <= Len(s)
  BY <1>2, <1>3, FS_Surjection
<1> QED BY <1>4 DEF R

Cut == Cardinality(targets \cap Members)

\* What is looked for, and what the result may have at most.
SizingInv ==
  /\ stage = "search" => wanted = IF fun = "surplus" THEN Surplus ELSE Missing
  /\ stage = "done" /\ result # <<>> =>
       Len(result) <= IF fun = "surplus" THEN Surplus - Cut ELSE Missing

IInv == SearchInv /\ TypeOK /\ SizingInv

LEMMA Numbers ==
  ASSUME TypeOK
  PROVE  /\ IsFiniteSet(Members) /\ Cardinality(Members) \in Nat /\ Cut \in Nat
         /\ WantedMembers \in Nat /\ Surplus \in Int /\ Missing \in Int
<1>1. \A r : IsFiniteSet(With(r)) /\ Cardinality(With(r)) \in Nat
  <2> SUFFICES ASSUME NEW r PROVE IsFiniteSet(With(r)) /\ Cardinality(With(r)) \in Nat
    OBVIOUS
  <2>1. With(r) \in SUBSET Node
    BY DEF With
  <2> QED BY <2>1, FS_Subset, FS_CardinalityType
<1>2. IsFiniteSet(Members) /\ Cardinality(Members) \in Nat
  BY <1>1 DEF Members
<1>3. Cut \in Nat
  BY <1>2, FS_Intersection, FS_CardinalityType DEF Cut
<1>4. \A p \in Int, a, b \in Nat : ClusterSize(p, a, b) \in Nat
  BY DEF ClusterSize, Optimal, AtMost, MinRecommended
<1>5. Size \in Nat
  BY <1>1, <1>4 DEF Size, TypeOK
<1>6. WantedMembers \in Nat
  BY <1>5 DEF WantedMembers, TypeOK
<1> QED BY <1>2, <1>3, <1>6 DEF Surplus, Missing

\* All the numbers are functions of the roles.
LEMMA SameNumbers ==
  ASSUME UNCHANGED call, \A m \in Node : grains'[m].roles = grains[m].roles
  PROVE  /\ Members' = Members /\ Cut' = Cut /\ WantedMembers' = WantedMembers
         /\ Surplus' = Surplus /\ Missing' = Missing
<1>1. \A r : With(r)' = With(r)
  BY DEF With
<1>2. UNCHANGED <<fun, pillar, numWanted, targets>>
  BY DEF call
<1>3. Members' = Members /\ Size' = Size
  BY <1>1, <1>2 DEF Members, Size
<1> QED BY <1>2, <1>3 DEF Cut, WantedMembers, Surplus, Missing

LEMMA InitInv == Init => IInv
<1> SUFFICES ASSUME Init PROVE IInv OBVIOUS
<1>1. found = <<>> /\ Len(found) = 0 /\ found \in Seq(Node) /\ result \in Seq(Node)
  BY DEF Init
<1>2. grains \in [Node -> Grains] /\ excluded \subseteq Node
  BY DEF Init
<1>3. SearchInv
  BY <1>1, <1>2 DEF Init, Purpose, SearchInv, SearchTypeOK, FoundSound, Found
<1>4. TypeOK
  BY <1>1, <1>3 DEF Init, TypeOK, SearchInv
<1> QED BY <1>3, <1>4 DEF Init, IInv, SizingInv

LEMMA LookForStep ==
  ASSUME IInv, NEW p \in Purpose, NEW num, NEW nodes \in SUBSET Node,
         SearchFor(p, num, nodes), stage' = "search",
         UNCHANGED <<grains, changes, call, result>>,
         num = IF fun = "surplus" THEN Surplus ELSE Missing, num > 0
  PROVE  IInv'
<1>1. num \in Nat
  BY Numbers DEF IInv
<1>2. SearchInv'
  BY <1>1, SearchForStep DEF IInv
<1>3. TypeOK'
  BY <1>2 DEF IInv, SearchInv, TypeOK, call
<1>4. Surplus' = Surplus /\ Missing' = Missing /\ fun' = fun
  BY SameNumbers DEF call
<1>5. SizingInv'
  BY <1>4 DEF SizingInv, SearchFor
<1> QED BY <1>2, <1>3, <1>5 DEF IInv

LEMMA ReturnStep == IInv /\ Return => IInv'
<1> SUFFICES ASSUME IInv, Return PROVE IInv' OBVIOUS
<1>1. /\ stage = "search" /\ stage' = "done" /\ UNCHANGED <<grains, changes, search, call>>
      /\ result' = IF fun = "surplus" THEN ButLast(found, Cut) ELSE found
  BY DEF Return, Cut
<1>2. SearchInv'
  BY <1>1 DEF IInv, SearchInv, SearchTypeOK, FoundSound, Found, search
<1>3. /\ found \in Seq(Node) /\ Len(found) \in Nat /\ Len(found) <= wanted /\ wanted \in Nat
      /\ wanted = IF fun = "surplus" THEN Surplus ELSE Missing
  BY <1>1 DEF IInv, SearchInv, SearchTypeOK, FoundSound, SizingInv
<1>4. Cut \in Nat /\ Surplus \in Int /\ Missing \in Int
  BY Numbers DEF IInv
<1>5. /\ ButLast(found, Cut) \in Seq(Node)
      /\ ButLast(found, Cut) # <<>> => Len(ButLast(found, Cut)) <= Len(found) - Cut
  <2>1. CASE Cut = 0 \/ Cut >= Len(found)
    BY <2>1 DEF ButLast
  <2>2. CASE ~(Cut = 0 \/ Cut >= Len(found))
    <3>1. ButLast(found, Cut) = SubSeq(found, 1, Len(found) - Cut)
      BY <2>2 DEF ButLast
    <3>2. \A i \in 1..Len(found) - Cut : found[i] \in Node
      BY <1>3, <1>4
    <3>3. Len(found) - Cut \in Int /\ 1 <= Len(found) - Cut
      BY <1>3, <1>4, <2>2
    <3>4. /\ SubSeq(found, 1, Len(found) - Cut) \in Seq(Node)
          /\ Len(SubSeq(found, 1, Len(found) - Cut)) = Len(found) - Cut
      BY <3>2, <3>3, SubSeqProperties
    <3> QED BY <3>1, <3>3, <3>4
  <2> QED BY <2>1, <2>2
<1>6. TypeOK'
  BY <1>1, <1>2, <1>3, <1>5 DEF IInv, SearchInv, TypeOK, call
<1>7. Surplus' = Surplus /\ Missing' = Missing /\ Cut' = Cut /\ fun' = fun
  BY <1>1, SameNumbers DEF call
<1>8. SizingInv'
  BY <1>1, <1>3, <1>4, <1>5, <1>7 DEF SizingInv
<1> QED BY <1>2, <1>6, <1>8 DEF IInv

LEMMA NextInv == IInv /\ [Next]_vars => IInv'
<1> SUFFICES ASSUME IInv, [Next]_vars PROVE IInv' OBVIOUS
<1>0. ASSUME SearchInv', UNCHANGED <<call, stage, result>>, wanted' = wanted,
             \A m \in Node : grains'[m].roles = grains[m].roles
      PROVE  IInv'
  <2>1. TypeOK'
    BY <1>0 DEF IInv, SearchInv, TypeOK, call
  <2>2. Surplus' = Surplus /\ Missing' = Missing /\ Cut' = Cut /\ fun' = fun
    BY <1>0, SameNumbers DEF call
  <2>3. SizingInv'
    BY <1>0, <2>2 DEF IInv, SizingInv
  <2> QED BY <1>0, <2>1, <2>3 DEF IInv
<1>1. CASE NothingToDo
  <2>1. SearchInv' /\ stage' = "done" /\ result' = <<>>
    BY <1>1 DEF NothingToDo, IInv, SearchInv, SearchTypeOK, FoundSound, Found, search
  <2>2. TypeOK'
    BY <1>1, <2>1 DEF NothingToDo, IInv, SearchInv, TypeOK, call
  <2> QED BY <2>1, <2>2 DEF IInv, SizingInv
<1>2. CASE LookForSurplus
  <2>1. "etcd-removal" \in Purpose /\ targets \cup excluded \in SUBSET Node
    BY DEF Purpose, IInv, TypeOK, SearchTypeOK
  <2>2. Surplus > 0
    BY <1>2, Numbers DEF LookForSurplus, Enough, IInv
  <2> QED BY <1>2, <2>1, <2>2, LookForStep DEF LookForSurplus
<1>3. CASE LookForAdditional
  <2>1. "etcd" \in Purpose /\ Members \cup excluded \in SUBSET Node
    BY DEF Purpose, IInv, TypeOK, SearchTypeOK, Members, With
  <2>2. Missing > 0 /\ fun # "surplus"
    BY <1>3, Numbers DEF LookForAdditional, Enough, IInv
  <2> QED BY <1>3, <2>1, <2>2, LookForStep DEF LookForAdditional
<1>4. CASE Return
  BY <1>4, ReturnStep
<1>5. CASE TryRule /\ UNCHANGED <<call, stage, result>>
  BY <1>0, <1>5, TryRuleStep DEF IInv
<1>6. ASSUME NEW n \in Node, Change(n), UNCHANGED <<call, stage, result>> PROVE IInv'
  BY <1>0, <1>6, ChangeStep DEF IInv
<1>7. CASE UNCHANGED vars
  <2>1. SearchInv' /\ UNCHANGED <<call, stage, result, wanted, grains>>
    BY <1>7 DEF vars, search, IInv, SearchInv, SearchTypeOK, FoundSound, Found
  <2> QED BY <1>0, <2>1
<1>8. CASE AddListToKeys
  <2>1. SearchInv' /\ stage' = "error" /\ UNCHANGED <<result, call>>
    BY <1>8 DEF AddListToKeys, IInv, SearchInv, SearchTypeOK, FoundSound, Found, search
  <2>2. TypeOK'
    BY <2>1 DEF IInv, SearchInv, TypeOK, call
  <2> QED BY <2>1, <2>2 DEF IInv, SizingInv
<1> QED BY <1>1, <1>2, <1>3, <1>4, <1>5, <1>6, <1>7, <1>8 DEF Next

THEOREM Invariant == Spec => []IInv
<1> QED BY InitInv, NextInv, PTL DEF Spec

-------------------------------------------------------------------------------

\* Type correctness.
THEOREM TypeCorrect == Spec => []TypeOK
<1>1. IInv => TypeOK
  BY DEF IInv
<1> QED BY <1>1, Invariant, PTL

\* Giving up the surplus and the nodes to be removed never takes etcd below the
\* size that is wanted.
THEOREM SurplusIsSafe == Spec => []SurplusKeepsWanted
<1>1. IInv => SurplusKeepsWanted
  <2> SUFFICES ASSUME IInv, stage = "done", fun = "surplus", result # <<>>
               PROVE  Cardinality((Members \ targets) \ Result) >= WantedMembers
    BY DEF SurplusKeepsWanted
  <2>1. Len(result) <= Surplus - Cut
    BY DEF IInv, SizingInv
  <2>2. IsFiniteSet(Result) /\ Cardinality(Result) <= Len(result)
    BY RangeCardinality DEF IInv, TypeOK, Result
  <2>3. /\ IsFiniteSet(Members) /\ Cardinality(Members) \in Nat
        /\ Cut \in Nat /\ WantedMembers \in Nat
    BY Numbers DEF IInv
  <2>4. /\ IsFiniteSet(Members \ targets)
        /\ Cardinality(Members \ targets) = Cardinality(Members) - Cut
    <3>1. Members \cap targets = targets \cap Members
      OBVIOUS
    <3> QED BY <2>3, <3>1, FS_Difference DEF Cut
  <2>5. Cardinality((Members \ targets) \ Result)
          = Cardinality(Members \ targets) - Cardinality((Members \ targets) \cap Result)
    BY <2>4, FS_Difference
  <2>6. /\ Cardinality((Members \ targets) \cap Result) <= Cardinality(Result)
        /\ Cardinality((Members \ targets) \cap Result) \in Nat
    BY <2>2, FS_Intersection, FS_CardinalityType
  <2>7. Cardinality(Result) \in Nat /\ Len(result) \in Nat
    BY <2>2, FS_CardinalityType DEF IInv, TypeOK
  <2> QED BY <2>1, <2>2, <2>3, <2>4, <2>5, <2>6, <2>7 DEF Surplus
<1> QED BY <1>1, Invariant, PTL

\* The additional members never make etcd larger than wanted.
THEOREM AdditionalIsSafe == Spec => []AdditionalWithinWanted
<1>1. IInv => AdditionalWithinWanted
  <2> SUFFICES ASSUME IInv, stage = "done", fun = "additional", result # <<>>
               PROVE  Cardinality(Members \cup Result) <= WantedMembers
    BY DEF AdditionalWithinWanted
  <2>1. Len(result) <= Missing
    BY DEF IInv, SizingInv
  <2>2. IsFiniteSet(Result) /\ Cardinality(Result) <= Len(result)
    BY RangeCardinality DEF IInv, TypeOK, Result
  <2>3. IsFiniteSet(Members) /\ Cardinality(Members) \in Nat /\ WantedMembers \in Nat
    BY Numbers DEF IInv
  <2>4. Cardinality(Members \cup Result)
          = Cardinality(Members) + Cardinality(Result) - Cardinality(Members \cap Result)
    BY <2>2, <2>3, FS_Union
  <2>5. Cardinality(Members \cap Result) \in Nat
    BY <2>3, FS_Intersection, FS_CardinalityType
  <2>6. Cardinality(Result) \in Nat /\ Len(result) \in Nat
    BY <2>2, FS_CardinalityType DEF IInv, TypeOK
  <2> QED BY <2>1, <2>2, <2>3, <2>4, <2>5, <2>6 DEF Missing
<1> QED BY <1>1, Invariant, PTL

\* The search for members of etcd, or for those to give up, finds no node twice, no
\* more than are missing or left over, and never the admin or the CA.
THEOREM MembersFoundSound == Spec => []FoundSound
<1>1. IInv => FoundSound
  BY DEF IInv, SearchInv
<1> QED BY <1>1, Invariant, PTL

\* Whatever changes meanwhile, the members found are the best of those left alone.
THEOREM MembersFoundBest == Spec => []SearchIsBest
<1>1. Init => AskedInv
  BY DEF Init, AskedInv, Purpose
<1>2. IInv /\ AskedInv /\ [Next]_vars => AskedInv'
  <2> SUFFICES ASSUME IInv, AskedInv, [Next]_vars PROVE AskedInv' OBVIOUS
  <2>1. CASE NothingToDo \/ AddListToKeys \/ Return \/ UNCHANGED vars
    BY <2>1, BestUnchanged DEF NothingToDo, AddListToKeys, Return, vars
  <2>2. CASE LookForSurplus
    <3>1. Surplus \in Nat \ {0} /\ "etcd-removal" \in Purpose
      BY <2>2, Numbers DEF LookForSurplus, Enough, IInv, Purpose
    <3> QED BY <2>2, <3>1, BestBegun DEF LookForSurplus
  <2>3. CASE LookForAdditional
    <3>1. Missing \in Nat \ {0} /\ "etcd" \in Purpose
      BY <2>3, Numbers DEF LookForAdditional, Enough, IInv, Purpose
    <3> QED BY <2>3, <3>1, BestBegun DEF LookForAdditional
  <2>4. CASE TryRule \/ \E n \in Node : Change(n)
    BY <2>4, BestStep DEF IInv
  <2> QED BY <2>1, <2>2, <2>3, <2>4 DEF Next
<1>3. IInv /\ AskedInv => SearchIsBest
  BY AskedFound DEF IInv
<1> QED BY <1>1, <1>2, <1>3, Invariant, PTL DEF Spec
===============================================================================
