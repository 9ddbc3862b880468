--------------------------- MODULE NodeSearchProofs ----------------------------
(***************************************************************************)
(* Theorems about NodeSearch, for every set of nodes, every choice of      *)
(* grains and every number of changes, and the lemmas that the modules     *)
(* which call the search rely on.                                          *)
(***************************************************************************)
EXTENDS NodeSearch, FiniteSetTheorems, SequenceTheorems, TLAPS

USE NodeAssumption, SituationsAssumption, BoundAssumption
  DEF NodeAssumption, SituationsAssumption, BoundAssumption

\* FoundSound is inductive once the types are known.
SearchInv == SearchTypeOK /\ FoundSound

\* Every purpose has at least one rule.
LEMMA PrioLen ==
  ASSUME NEW p \in Purpose
  PROVE  Len(Prio(p)) \in Nat /\ 1 <= Len(Prio(p))
<1>1. CASE p = "etcd"
  BY <1>1 DEF Prio
<1>2. CASE p = "etcd-removal"
  BY <1>2 DEF Prio
<1>3. CASE p \in {"kube-master", "kube-minion"}
  BY <1>3 DEF Prio
<1> QED BY <1>1, <1>2, <1>3 DEF Purpose

\* A rule selects nodes that are neither the admin nor the CA.
LEMMA CandidatesAllowed ==
  ASSUME NEW r
  PROVE  /\ Candidates(r) \subseteq Node
         /\ \A n \in Candidates(r) : grains[n].roles \cap {"admin", "ca"} = {}
BY DEF Candidates

\* What the members of Lists are.
LEMMA ListsProperties ==
  ASSUME NEW S, NEW k \in Nat, NEW q \in Lists(S, k)
  PROVE  /\ q \in Seq(S) /\ Len(q) = k
         /\ \A i \in 1..k : q[i] \in S
         /\ \A i, j \in 1..k : q[i] = q[j] => i = j
<1>1. q \in [1..k -> S] /\ \A i, j \in 1..k : q[i] = q[j] => i = j
  BY DEF Lists
<1>2. q \in Seq(S)
  BY <1>1, SeqDef
<1>3. Len(q) = k
  BY <1>1, <1>2, LenProperties
<1> QED BY <1>1, <1>2, <1>3

\* Appending new elements to a sequence without repetitions.
LEMMA ConcatDistinct ==
  ASSUME NEW S, NEW s \in Seq(S), NEW q \in Seq(S),
         \A i, j \in 1..Len(s) : s[i] = s[j] => i = j,
         \A i, j \in 1..Len(q) : q[i] = q[j] => i = j,
         \A i \in 1..Len(s), j \in 1..Len(q) : s[i] # q[j]
  PROVE  /\ s \o q \in Seq(S) /\ Len(s \o q) = Len(s) + Len(q)
         /\ \A i, j \in 1..Len(s \o q) : (s \o q)[i] = (s \o q)[j] => i = j
         /\ \A i \in 1..Len(s \o q) :
              \/ i \in 1..Len(s) /\ (s \o q)[i] = s[i]
              \/ i - Len(s) \in 1..Len(q) /\ (s \o q)[i] = q[i - Len(s)]
<1>1. /\ s \o q \in Seq(S) /\ Len(s \o q) = Len(s) + Len(q)
      /\ \A i \in 1..Len(s) + Len(q) :
           (s \o q)[i] = IF i <= Len(s) THEN s[i] ELSE q[i - Len(s)]
  BY ConcatProperties
<1>2. Len(s) \in Nat /\ Len(q) \in Nat
  OBVIOUS
<1>3. \A i \in 1..Len(s) + Len(q) :
        \/ i \in 1..Len(s) /\ (s \o q)[i] = s[i]
        \/ i - Len(s) \in 1..Len(q) /\ (s \o q)[i] = q[i - Len(s)]
  BY <1>1, <1>2
<1>4. ASSUME NEW i \in 1..Len(s) + Len(q), NEW j \in 1..Len(s) + Len(q),
             (s \o q)[i] = (s \o q)[j]
      PROVE  i = j
  BY <1>2, <1>3, <1>4
<1> QED BY <1>1, <1>3, <1>4

\* Whatever the grains are by then, a rule adds nodes that were not found before.
LEMMA TryRuleStep ==
  ASSUME SearchInv, TryRule
  PROVE  SearchInv' /\ UNCHANGED <<purpose, wanted, excluded, touched, grains, changes>>
<1> DEFINE new == Candidates(Prio(purpose)[rule]) \ Found
           k   == AtMost(wanted - Len(found), Cardinality(new))
<1>1. PICK q \in Lists(new, k) :
        /\ found' = found \o q
        /\ rule' = IF Len(found) + k >= wanted \/ rule = Len(Prio(purpose))
                   THEN 0 ELSE rule + 1
  BY DEF TryRule
<1>2. /\ UNCHANGED <<purpose, wanted, excluded, touched, grains, changes>> /\ rule # 0
      /\ found \in Seq(Node) /\ Len(found) <= wanted /\ wanted \in Nat
      /\ rule \in Nat /\ purpose \in Purpose /\ rule <= Len(Prio(purpose))
  BY DEF TryRule, SearchInv, SearchTypeOK, FoundSound
<1>3. new \subseteq Node /\ IsFiniteSet(new)
  BY CandidatesAllowed, FS_Subset
<1>4. k \in Nat /\ k <= wanted - Len(found)
  <2>1. Cardinality(new) \in Nat
    BY <1>3, FS_CardinalityType
  <2> HIDE DEF new
  <2> QED BY <2>1, <1>2 DEF AtMost
<1>5. /\ q \in Seq(new) /\ Len(q) = k /\ \A i \in 1..k : q[i] \in new
      /\ \A i, j \in 1..k : q[i] = q[j] => i = j
  <2> HIDE DEF new, k
  <2> QED BY <1>4, ListsProperties
<1>6. q \in Seq(Node)
  BY <1>5, <1>3, SeqDef
<1>7. \A i \in 1..Len(found), j \in 1..Len(q) : found[i] # q[j]
  BY <1>5 DEF Found
<1> HIDE DEF new, k
<1>8. \A i, j \in 1..Len(found) : found[i] = found[j] => i = j
  BY DEF SearchInv, FoundSound
<1>9. /\ found' \in Seq(Node) /\ Len(found') = Len(found) + k
      /\ \A i, j \in 1..Len(found') : found'[i] = found'[j] => i = j
      /\ \A i \in 1..Len(found') :
           \/ i \in 1..Len(found) /\ found'[i] = found[i]
           \/ i - Len(found) \in 1..Len(q) /\ found'[i] = q[i - Len(found)]
  <2>1. \A i, j \in 1..Len(q) : q[i] = q[j] => i = j
    BY <1>5
  <2>2. /\ found \o q \in Seq(Node) /\ Len(found \o q) = Len(found) + Len(q)
        /\ \A i, j \in 1..Len(found \o q) : (found \o q)[i] = (found \o q)[j] => i = j
        /\ \A i \in 1..Len(found \o q) :
             \/ i \in 1..Len(found) /\ (found \o q)[i] = found[i]
             \/ i - Len(found) \in 1..Len(q) /\ (found \o q)[i] = q[i - Len(found)]
    BY <1>2, <1>6, <1>7, <1>8, <2>1, ConcatDistinct
  <2>3. found' = found \o q /\ Len(q) = k
    BY <1>1, <1>5
  <2> QED BY <2>2, <2>3
<1>10. Len(found') <= wanted'
  BY <1>2, <1>4, <1>9
<1>11. \A i \in 1..Len(found') : grains[found'[i]].roles \cap {"admin", "ca"} = {}
  <2>1. \A n \in new : grains[n].roles \cap {"admin", "ca"} = {}
    BY CandidatesAllowed DEF new
  <2>2. \A i \in 1..Len(found) : grains[found[i]].roles \cap {"admin", "ca"} = {}
    BY DEF SearchInv, FoundSound, Found
  <2> QED BY <1>5, <1>9, <2>1, <2>2
<1>12. FoundSound'
  BY <1>2, <1>9, <1>10, <1>11 DEF FoundSound, Found
<1>13. rule' \in Nat /\ (rule' # 0 => rule' <= Len(Prio(purpose)))
  BY <1>1, <1>2, PrioLen
<1> QED BY <1>2, <1>9, <1>12, <1>13 DEF SearchInv, SearchTypeOK

\* The changes never touch the roles.
LEMMA ChangeStep ==
  ASSUME SearchInv, NEW n \in Node, Change(n)
  PROVE  /\ SearchInv' /\ UNCHANGED <<purpose, wanted, excluded, rule, found>>
         /\ \A m \in Node : grains'[m].roles = grains[m].roles
         /\ \A m \in Node \ {n} : grains'[m] = grains[m]
<1>1. UNCHANGED <<purpose, wanted, excluded, rule, found>> /\ touched' \subseteq Node
  BY DEF Change, SearchInv, SearchTypeOK
<1>2. changes' \in 0..MaxChanges
  BY DEF Change, SearchInv, SearchTypeOK
<1>3. /\ grains' \in [Node -> Grains] /\ \A m \in Node : grains'[m].roles = grains[m].roles
      /\ \A m \in Node \ {n} : grains'[m] = grains[m]
  <2>1. grains \in [Node -> Grains]
    BY DEF SearchInv, SearchTypeOK
  <2>2. \E g \in Grains : g.roles = grains[n].roles /\ grains' = [grains EXCEPT ![n] = g]
    <3>1. CASE grains' = [grains EXCEPT ![n].complete = TRUE]
      <4>1. [grains[n] EXCEPT !.complete = TRUE] \in Grains
        BY <2>1 DEF Grains
      <4> QED BY <2>1, <3>1, <4>1 DEF Grains
    <3>2. CASE grains' = [grains EXCEPT ![n].busy = ~@]
      <4>1. [grains[n] EXCEPT !.busy = ~grains[n].busy] \in Grains
        BY <2>1 DEF Grains
      <4> QED BY <2>1, <3>2, <4>1 DEF Grains
    <3> QED BY <3>1, <3>2 DEF Change
  <2> QED BY <2>1, <2>2
<1>4. Found' \subseteq Node /\ Found' = Found
  BY <1>1 DEF SearchInv, SearchTypeOK, Found
<1>5. FoundSound'
  BY <1>1, <1>3, <1>4 DEF SearchInv, FoundSound
<1> QED BY <1>1, <1>2, <1>3, <1>5 DEF SearchInv, SearchTypeOK

\* A search that begins has found nothing.
LEMMA SearchForStep ==
  ASSUME SearchInv, NEW p \in Purpose, NEW num \in Nat, NEW nodes \in SUBSET Node,
         SearchFor(p, num, nodes), UNCHANGED <<grains, changes>>
  PROVE  SearchInv'
<1>1. 1 <= Len(Prio(p))
  BY PrioLen
<1>2. found' = <<>> /\ Len(found') = 0 /\ found' \in Seq(Node) /\ Found' = {}
  BY DEF SearchFor, Found
<1> QED BY <1>1, <1>2 DEF SearchFor, SearchInv, SearchTypeOK, FoundSound, Found

-------------------------------------------------------------------------------

\* The search on its own: get_with_prio finds no node twice, no more than were
\* asked for and never the admin or the CA, whatever happens to the grains of any
\* number of nodes between its queries.
THEOREM SearchIsSound == SearchSpec => [](SearchTypeOK /\ FoundSound)
<1>1. SearchInit => SearchInv
  <2> SUFFICES ASSUME SearchInit PROVE SearchInv OBVIOUS
  <2>1. found = <<>> /\ Len(found) = 0 /\ found \in Seq(Node)
    BY DEF SearchInit
  <2>2. FoundSound
    <3>1. Cardinality(Node) \in Nat /\ wanted \in Nat
      BY FS_CardinalityType DEF SearchInit
    <3> QED BY <2>1, <3>1 DEF FoundSound, Found
  <2>3. wanted \in Nat
    BY FS_CardinalityType DEF SearchInit
  <2>4. grains \in [Node -> Grains]
    BY DEF SearchInit
  <2> QED BY <2>1, <2>2, <2>3, <2>4, PrioLen DEF SearchInit, SearchInv, SearchTypeOK
<1>2. SearchInv /\ [SearchNext]_searchVars => SearchInv'
  <2> SUFFICES ASSUME SearchInv, [SearchNext]_searchVars PROVE SearchInv' OBVIOUS
  <2>1. CASE TryRule
    BY <2>1, TryRuleStep
  <2>2. CASE \E n \in Node : Change(n)
    BY <2>2, ChangeStep
  <2>3. CASE UNCHANGED searchVars
    BY <2>3 DEF searchVars, search, SearchInv, SearchTypeOK, FoundSound, Found
  <2> QED BY <2>1, <2>2, <2>3 DEF SearchNext
<1> QED BY <1>1, <1>2, PTL DEF SearchSpec, SearchInv

-------------------------------------------------------------------------------
(* What is found is the best that there is *)

\* Rule i of the search and the nodes it selects.
Rank(n) ==
  CHOOSE i \in 1..Len(Prio(purpose)) :
    /\ n \in Candidates(Prio(purpose)[i])
    /\ \A j \in 1..(i-1) : n \notin Candidates(Prio(purpose)[j])

\* The nodes that rule i selects, as far as they have been left alone.
Chosen == [i \in 1..Len(Prio(purpose)) |-> Candidates(Prio(purpose)[i]) \ touched]

\* After the first r rules, of which rule i selects C[i] and T have changed: what the
\* rules select has been found, in their order; they have selected too many only if
\* enough are found.
BestOf(r, C, T, list, next, num) ==
  /\ next # 0 => r = next - 1 /\ Len(list) < num
  /\ next = 0 => Len(list) = num \/ r = Len(Prio(purpose))
  /\ \A a \in 1..Len(list) : list[a] \notin T => \E i \in 1..r : list[a] \in C[i]
  /\ \A i \in 1..r : i < r \/ Len(list) < num =>
       \A n \in C[i] : \E a \in 1..Len(list) : list[a] = n
  /\ \A a, b \in 1..Len(list) : \A j \in 1..r :
       a < b /\ list[a] \notin T /\ list[b] \in C[j] => \E i \in 1..j : list[a] \in C[i]

Best(r) == BestOf(r, Chosen, touched, found, rule, wanted)

BestInv == purpose \in Purpose /\ \E r \in 0..Len(Prio(purpose)) : Best(r)

\* No list has more than six rules.
LEMMA PrioShort ==
  ASSUME NEW p \in Purpose
  PROVE  Len(Prio(p)) <= 6
<1>1. CASE p = "etcd"
  BY <1>1 DEF Prio
<1>2. CASE p = "etcd-removal"
  BY <1>2 DEF Prio
<1>3. CASE p \in {"kube-master", "kube-minion"}
  BY <1>3 DEF Prio
<1> QED BY <1>1, <1>2, <1>3 DEF Purpose

LEMMA Least ==
  ASSUME NEW T \in SUBSET (1..6), T # {}
  PROVE  \E i \in T : \A j \in T : i <= j
<1>1. \A i \in T : i \in {1, 2, 3, 4, 5, 6}
  OBVIOUS
<1>2. CASE 1 \in T
  BY <1>1, <1>2
<1>3. CASE 1 \notin T /\ 2 \in T
  BY <1>1, <1>3
<1>4. CASE 1 \notin T /\ 2 \notin T /\ 3 \in T
  BY <1>1, <1>4
<1>5. CASE 1 \notin T /\ 2 \notin T /\ 3 \notin T /\ 4 \in T
  BY <1>1, <1>5
<1>6. CASE 1 \notin T /\ 2 \notin T /\ 3 \notin T /\ 4 \notin T /\ 5 \in T
  BY <1>1, <1>6
<1>7. CASE 1 \notin T /\ 2 \notin T /\ 3 \notin T /\ 4 \notin T /\ 5 \notin T
  <2>1. \A i \in T : i = 6
    BY <1>1, <1>7
  <2>2. PICK i \in T : TRUE
    OBVIOUS
  <2> QED BY <2>1, <2>2
<1> QED BY <1>2, <1>3, <1>4, <1>5, <1>6, <1>7

\* The rank of a node is that of the first rule that selects it.
LEMMA RankIsFirst ==
  ASSUME purpose \in Purpose, NEW n, NEW i \in 1..Len(Prio(purpose)),
         n \in Candidates(Prio(purpose)[i])
  PROVE  /\ Rank(n) \in 1..Len(Prio(purpose))
         /\ n \in Candidates(Prio(purpose)[Rank(n)])
         /\ \A j \in 1..Len(Prio(purpose)) :
              n \in Candidates(Prio(purpose)[j]) => Rank(n) <= j
<1> DEFINE L == Len(Prio(purpose))
           T == {j \in 1..L : n \in Candidates(Prio(purpose)[j])}
<1>1. L \in Nat /\ L <= 6
  BY PrioLen, PrioShort
<1>2. T \in SUBSET (1..6) /\ T # {}
  BY <1>1
<1>3. PICK m \in T : \A j \in T : m <= j
  BY <1>2, Least
<1> HIDE DEF L
<1>4. /\ m \in 1..L /\ n \in Candidates(Prio(purpose)[m])
      /\ \A j \in 1..(m-1) : n \notin Candidates(Prio(purpose)[j])
  BY <1>1, <1>3
<1>5. /\ Rank(n) \in 1..L /\ n \in Candidates(Prio(purpose)[Rank(n)])
      /\ \A j \in 1..(Rank(n)-1) : n \notin Candidates(Prio(purpose)[j])
  BY <1>4, Zenon DEF Rank, L
<1>6. \A j \in 1..L : n \in Candidates(Prio(purpose)[j]) => Rank(n) <= j
  BY <1>1, <1>5
<1> QED BY <1>5, <1>6 DEF L

\* A list of k different members of a set: there are no more than the set has, and
\* all of them when there are as many.
LEMMA ListFills ==
  ASSUME NEW S, IsFiniteSet(S), NEW k \in Nat, NEW q,
         q \in Seq(S), Len(q) = k,
         \A i, j \in 1..k : q[i] = q[j] => i = j
  PROVE  /\ k <= Cardinality(S)
         /\ k = Cardinality(S) <=> \A x \in S : \E i \in 1..k : q[i] = x
<1>1. q \in [1..k -> S]
  OBVIOUS
<1>2. q \in Injection(1..k, S)
  BY <1>1 DEF Injection, IsInjective
<1>3. IsFiniteSet(1..k) /\ Cardinality(1..k) = k
  BY FS_Interval
<1>4. /\ Cardinality(1..k) <= Cardinality(S)
      /\ Cardinality(1..k) = Cardinality(S) <=> q \in Surjection(1..k, S)
  BY <1>2, FS_Injection
<1>5. q \in Surjection(1..k, S) <=> \A x \in S : \E i \in 1..k : q[i] = x
  BY <1>1 DEF Surjection
<1> QED BY <1>3, <1>4, <1>5

\* One more rule.
LEMMA TryRuleBest ==
  ASSUME SearchInv, BestInv, TryRule
  PROVE  BestInv'
<1> SUFFICES \E r \in 0..Len(Prio(purpose)) : Best(r)'
  BY DEF BestInv, TryRule
<1> DEFINE C == Chosen
           L == Len(Prio(purpose))
           new == Candidates(Prio(purpose)[rule]) \ Found
           k == AtMost(wanted - Len(found), Cardinality(new))
<1>0. /\ UNCHANGED <<purpose, wanted, excluded, touched, grains, changes>> /\ rule # 0
      /\ found \in Seq(Node) /\ Len(found) <= wanted /\ wanted \in Nat
      /\ rule \in Nat /\ purpose \in Purpose /\ rule <= L /\ L \in Nat
      /\ Len(found) \in Nat
  BY PrioLen DEF TryRule, SearchInv, SearchTypeOK, FoundSound
<1>1. PICK q \in Lists(new, k) :
        /\ found' = found \o q
        /\ rule' = IF Len(found) + k >= wanted \/ rule = L THEN 0 ELSE rule + 1
  BY DEF TryRule
<1>2. Chosen' = C
  BY <1>0 DEF Chosen, Candidates, Matches
<1>3. new \subseteq Node /\ IsFiniteSet(new) /\ Cardinality(new) \in Nat
  <2>1. new \subseteq Node
    BY CandidatesAllowed
  <2> QED BY <2>1, FS_Subset, FS_CardinalityType
<1>4. k \in Nat /\ k <= wanted - Len(found)
      /\ (k # wanted - Len(found) => k = Cardinality(new))
  <2> HIDE DEF new
  <2> QED BY <1>0, <1>3 DEF AtMost
<1>5. /\ q \in Seq(new) /\ Len(q) = k /\ \A i \in 1..k : q[i] \in new
      /\ \A i, j \in 1..k : q[i] = q[j] => i = j
  <2> HIDE DEF new, k
  <2> QED BY <1>4, ListsProperties
<1>6. q \in Seq(Node)
  BY <1>5, <1>3, SeqDef
<1>7. PICK r \in 0..L : Best(r)
  BY DEF BestInv
<1>8. r = rule - 1 /\ Len(found) < wanted
  BY <1>0, <1>7 DEF Best, BestOf
<1>9. /\ \A a \in 1..Len(found) : found[a] \notin touched => \E i \in 1..r : found[a] \in C[i]
      /\ \A i \in 1..r : C[i] \subseteq Found
      /\ \A a, b \in 1..Len(found) : \A j \in 1..r :
           a < b /\ found[a] \notin touched /\ found[b] \in C[j] =>
             \E i \in 1..j : found[a] \in C[i]
  <2>1. BestOf(r, C, touched, found, rule, wanted)
    BY <1>7 DEF Best
  <2> HIDE DEF C
  <2> QED BY <1>8, <2>1 DEF BestOf, Found
<1>10. C[rule] = Candidates(Prio(purpose)[rule]) \ touched
  BY <1>0 DEF Chosen
<1> HIDE DEF L, k, C
<1>11. /\ Len(found') = Len(found) + k
       /\ \A i \in 1..Len(found') :
            \/ i \in 1..Len(found) /\ found'[i] = found[i]
            \/ i - Len(found) \in 1..k /\ found'[i] = q[i - Len(found)]
       /\ \A i \in 1..Len(found) : found'[i] = found[i]
       /\ \A i \in 1..k : found'[Len(found) + i] = q[i]
       /\ \A i \in 1..Len(found) : i \in 1..Len(found')
       /\ \A i \in 1..k : Len(found) + i \in 1..Len(found')
  <2>1. /\ Len(found \o q) = Len(found) + Len(q)
        /\ \A i \in 1..Len(found) + Len(q) :
             (found \o q)[i] = IF i <= Len(found) THEN found[i] ELSE q[i - Len(found)]
    BY <1>0, <1>6, ConcatProperties
  <2> HIDE DEF new
  <2> QED BY <1>0, <1>1, <1>4, <1>5, <2>1
<1>12. \A i \in 1..k : (q[i] \notin touched => q[i] \in C[rule]) /\ q[i] \notin Found
  BY <1>5, <1>10
<1>13. rule \in 0..L /\ rule \in 1..rule /\ \A i \in 1..r : i \in 1..rule /\ i < rule
  BY <1>0, <1>8
<1>14. \A i \in 1..rule : i \in 1..r \/ i = rule
  BY <1>0, <1>8
<1>15. Found \subseteq Found'
  BY <1>11 DEF Found
<1>16. \A a \in 1..Len(found') : found'[a] \notin touched => \E i \in 1..rule : found'[a] \in C[i]
  BY <1>9, <1>11, <1>12, <1>13
<1>17. \A i \in 1..rule : i < rule \/ Len(found') < wanted => C[i] \subseteq Found'
  <2>1. ASSUME Len(found') < wanted PROVE C[rule] \subseteq Found'
    <3> HIDE DEF new
    <3>1. k = Cardinality(new)
      BY <1>0, <1>4, <1>11, <2>1
    <3>2. k = Cardinality(new) <=> \A x \in new : \E i \in 1..k : q[i] = x
      <4>1. /\ IsFiniteSet(new) /\ k \in Nat /\ q \in Seq(new) /\ Len(q) = k
            /\ \A i, j \in 1..k : q[i] = q[j] => i = j
        BY <1>3, <1>4, <1>5
      <4>2. PICK T : T = new
        OBVIOUS
      <4>3. PICK m \in Nat : m = k
        BY <4>1
      <4>4. /\ IsFiniteSet(T) /\ q \in Seq(T) /\ Len(q) = m
            /\ \A i, j \in 1..m : q[i] = q[j] => i = j
        BY <4>1, <4>2, <4>3
      <4>5. m = Cardinality(T) <=> \A x \in T : \E i \in 1..m : q[i] = x
        BY <4>4, ListFills
      <4> QED BY <4>2, <4>3, <4>5
    <3>3. new \subseteq Found'
      BY <1>11, <3>1, <3>2 DEF Found
    <3> QED BY <1>10, <1>15, <3>3 DEF new
  <2>2. \A i \in 1..r : C[i] \subseteq Found'
    BY <1>9, <1>15
  <2> QED BY <1>0, <1>13, <1>14, <2>1, <2>2
<1>18. ASSUME NEW a \in 1..Len(found'), NEW b \in 1..Len(found'), NEW j \in 1..rule,
              a < b, found'[a] \notin touched, found'[b] \in C[j]
       PROVE  \E i \in 1..j : found'[a] \in C[i]
  <2>1. CASE j = rule
    BY <1>16, <1>18, <2>1
  <2>2. CASE j # rule
    <3>1. j \in 1..r /\ C[j] \subseteq Found
      BY <1>9, <1>14, <2>2
    <3>2. b \in 1..Len(found) /\ found'[b] = found[b]
      BY <1>11, <1>12, <1>18, <3>1
    <3>3. a \in 1..Len(found) /\ found'[a] = found[a]
      BY <1>0, <1>11, <1>18, <3>2
    <3> QED BY <1>9, <1>18, <3>1, <3>2, <3>3
  <2> QED BY <2>1, <2>2
<1>19. /\ rule' # 0 => rule = rule' - 1 /\ Len(found') < wanted
       /\ rule' = 0 => Len(found') = wanted \/ rule = L
  <2>1. Len(found') = Len(found) + k
    BY <1>11
  <2>2. CASE Len(found) + k >= wanted
    <3>1. rule' = 0
      BY <1>1, <2>2
    <3>2. Len(found) + k = wanted
      BY <1>0, <1>4, <2>2
    <3> QED BY <2>1, <3>1, <3>2
  <2>3. CASE ~(Len(found) + k >= wanted)
    BY <1>0, <1>1, <1>4, <2>1, <2>3
  <2> QED BY <2>2, <2>3
<1>20. BestOf(rule, C, touched, found', rule', wanted)
  <2>1. \A i \in 1..rule : i < rule \/ Len(found') < wanted =>
          \A n \in C[i] : \E a \in 1..Len(found') : found'[a] = n
    BY <1>17 DEF Found
  <2> QED BY <1>16, <1>18, <1>19, <2>1 DEF BestOf, L
<1>21. PICK s \in 0..L : s = rule
  BY <1>13
<1>22. Best(s)'
  <2>1. BestOf(s, C, touched, found', rule', wanted)
    BY <1>20, <1>21
  <2>2. BestOf(s, Chosen', touched', found', rule', wanted')
    BY <1>0, <1>2, <2>1
  <2> QED BY <1>0, <2>2 DEF Best, BestOf
<1> QED BY <1>21, <1>22 DEF L

\* A node whose grains change is no longer one of those that were left alone.
LEMMA ChangeBest ==
  ASSUME SearchInv, BestInv, NEW n \in Node, Change(n)
  PROVE  BestInv'
<1> DEFINE C == Chosen
           D == Chosen'
           L == Len(Prio(purpose))
<1>1. /\ UNCHANGED <<purpose, wanted, excluded, rule, found>>
      /\ \A m \in Node \ {n} : grains'[m] = grains[m]
      /\ touched' = touched \cup {n}
  BY ChangeStep DEF Change
<1>2. PICK r \in 0..L : Best(r)
  BY DEF BestInv
<1>3. purpose \in Purpose /\ L \in Nat
  BY PrioLen DEF BestInv
<1>4. \A i \in 1..L : D[i] = C[i] \ {n}
  <2> SUFFICES ASSUME NEW i \in 1..L
               PROVE  Candidates(Prio(purpose)[i])' \ touched'
                        = (Candidates(Prio(purpose)[i]) \ touched) \ {n}
    BY <1>1 DEF Chosen
  <2>1. Prio(purpose)' = Prio(purpose) /\ LeftOut(excluded)' = LeftOut(excluded)
    BY <1>1
  <2>2. \A m \in Node \ {n} : m \in Candidates(Prio(purpose)[i])'
                                <=> m \in Candidates(Prio(purpose)[i])
    BY <1>1, <2>1 DEF Candidates, Matches
  <2>3. Candidates(Prio(purpose)[i])' \subseteq Node /\ Candidates(Prio(purpose)[i]) \subseteq Node
    BY DEF Candidates
  <2> QED BY <1>1, <2>2, <2>3
<1>5. \A i \in 1..r : i \in 1..L /\ \A j \in 1..i : j \in 1..r
  BY <1>3
<1>6. BestOf(r, C, touched, found, rule, wanted)
  BY <1>2 DEF Best
<1> HIDE DEF C, D, L
<1>7. BestOf(r, D, touched', found, rule, wanted)
  <2>1. \A a \in 1..Len(found) : found[a] \notin touched' => \E i \in 1..r : found[a] \in D[i]
    BY <1>1, <1>4, <1>5, <1>6 DEF BestOf
  <2>2. \A i \in 1..r : i < r \/ Len(found) < wanted =>
          \A m \in D[i] : \E a \in 1..Len(found) : found[a] = m
    BY <1>4, <1>5, <1>6 DEF BestOf
  <2>3. \A a, b \in 1..Len(found) : \A j \in 1..r :
          a < b /\ found[a] \notin touched' /\ found[b] \in D[j] => \E i \in 1..j : found[a] \in D[i]
    <3> SUFFICES ASSUME NEW a \in 1..Len(found), NEW b \in 1..Len(found), NEW j \in 1..r,
                        a < b, found[a] \notin touched', found[b] \in D[j]
                 PROVE  \E i \in 1..j : found[a] \in D[i]
      OBVIOUS
    <3>1. found[a] \notin touched /\ found[a] # n /\ found[b] \in C[j]
      BY <1>1, <1>4, <1>5
    <3>2. PICK i \in 1..j : found[a] \in C[i]
      BY <1>6, <3>1 DEF BestOf
    <3> QED BY <1>4, <1>5, <3>1, <3>2
  <2>4. /\ rule # 0 => r = rule - 1 /\ Len(found) < wanted
        /\ rule = 0 => Len(found) = wanted \/ r = Len(Prio(purpose))
    BY <1>6 DEF BestOf
  <2> QED BY <2>1, <2>2, <2>3, <2>4 DEF BestOf
<1>8. Best(r)'
  BY <1>1, <1>7 DEF Best, BestOf, D
<1> QED BY <1>1, <1>3, <1>8 DEF BestInv, L

\* What BestInv says when the search is over.
LEMMA BestFound ==
  ASSUME SearchInv, BestInv
  PROVE  SearchIsBest
<1> SUFFICES ASSUME rule = 0, purpose \in Purpose
             PROVE  SearchIsBest
  BY DEF SearchIsBest
<1> DEFINE L == Len(Prio(purpose))
           C(i) == Candidates(Prio(purpose)[i])
           pool == (UNION {C(i) : i \in 1..L}) \ touched
<1>0. /\ L \in Nat /\ wanted \in Nat /\ found \in Seq(Node) /\ Len(found) \in Nat
      /\ Len(found) <= wanted
  BY PrioLen DEF SearchInv, SearchTypeOK, FoundSound
<1>1. PICK r \in 0..L : Best(r)
  BY DEF BestInv
<1>2. /\ Len(found) = wanted \/ r = L
      /\ \A a \in 1..Len(found) : found[a] \notin touched => \E i \in 1..r : found[a] \in C(i)
      /\ \A i \in 1..r : i < r \/ Len(found) < wanted => C(i) \ touched \subseteq Found
      /\ \A a, b \in 1..Len(found) : \A j \in 1..r :
           a < b /\ found[a] \notin touched /\ found[b] \in C(j) \ touched =>
             \E i \in 1..j : found[a] \in C(i)
  <2>1. \A i \in 1..r : Chosen[i] = C(i) \ touched /\ \A j \in 1..i : Chosen[j] = C(j) \ touched
    BY <1>0 DEF Chosen
  <2> HIDE DEF C, L
  <2>2. BestOf(r, Chosen, touched, found, 0, wanted)
    BY <1>1 DEF Best
  <2>3. Len(found) = wanted \/ r = L
    BY <2>2 DEF BestOf, L
  <2>4. \A a \in 1..Len(found) : found[a] \notin touched => \E i \in 1..r : found[a] \in C(i)
    BY <2>1, <2>2 DEF BestOf
  <2>5. \A i \in 1..r : i < r \/ Len(found) < wanted => C(i) \ touched \subseteq Found
    BY <2>1, <2>2 DEF BestOf, Found
  <2>6. \A a, b \in 1..Len(found) : \A j \in 1..r :
           a < b /\ found[a] \notin touched /\ found[b] \in C(j) \ touched =>
             \E i \in 1..j : found[a] \in C(i)
    <3> SUFFICES ASSUME NEW a \in 1..Len(found), NEW b \in 1..Len(found), NEW j \in 1..r,
                        a < b, found[a] \notin touched, found[b] \in C(j) \ touched
                 PROVE  \E i \in 1..j : found[a] \in C(i)
      OBVIOUS
    <3>1. Chosen[j] = C(j) \ touched /\ \A i \in 1..j : Chosen[i] = C(i) \ touched
      BY <2>1
    <3>2. \E i \in 1..j : found[a] \in Chosen[i]
      BY <2>2, <3>1 DEF BestOf
    <3> QED BY <3>1, <3>2
  <2> QED BY <2>3, <2>4, <2>5, <2>6
<1>4. \A n : \A i \in 1..L : n \in C(i) \ touched => n \in pool
  OBVIOUS
<1>5. \A n \in pool : n \notin touched /\ \E i \in 1..L : n \in C(i)
  OBVIOUS
<1>6. ASSUME NEW n \in pool
      PROVE  /\ Rank(n) \in 1..L /\ n \in C(Rank(n))
             /\ \A j \in 1..L : n \in C(j) => Rank(n) <= j
  <2>1. PICK i \in 1..L : n \in C(i)
    BY <1>5
  <2> QED BY <2>1, RankIsFirst
<1> HIDE DEF C, pool, L
<1>7. \A a \in 1..Len(found) : found[a] \notin touched => found[a] \in pool
  BY <1>0, <1>2, <1>4
<1>8. Found \ touched \subseteq pool
  BY <1>7 DEF Found
<1>9. Len(found) < wanted => pool \subseteq Found
  BY <1>0, <1>2, <1>5
<1>10. ASSUME NEW a \in 1..Len(found), NEW b \in 1..Len(found), a < b,
              {found[a], found[b]} \cap touched = {}
       PROVE  Rank(found[a]) <= Rank(found[b])
  <2>0. found[a] \notin touched /\ found[b] \notin touched
    BY <1>10
  <2>1. /\ Rank(found[b]) \in 1..L /\ found[b] \in C(Rank(found[b]))
        /\ \A j \in 1..L : found[b] \in C(j) => Rank(found[b]) <= j
    BY <1>6, <1>7, <2>0
  <2>2. Rank(found[b]) \in 1..r
    <3>1. PICK i \in 1..r : found[b] \in C(i)
      BY <1>2, <2>0
    <3> QED BY <1>0, <2>1, <3>1
  <2>3. PICK i \in 1..Rank(found[b]) : found[a] \in C(i)
    BY <1>2, <1>10, <2>0, <2>1, <2>2
  <2>4. Rank(found[a]) \in 1..L /\ \A j \in 1..L : found[a] \in C(j) => Rank(found[a]) <= j
    BY <1>6, <1>7, <2>0
  <2> QED BY <1>0, <2>1, <2>3, <2>4
<1>11. ASSUME NEW m \in Found \ touched, NEW n \in pool \ Found
       PROVE  Rank(m) <= Rank(n)
  <2>1. PICK a \in 1..Len(found) : m = found[a]
    BY DEF Found
  <2>2. PICK i \in 1..r : m \in C(i)
    BY <1>2, <2>1
  <2>3. Rank(m) \in 1..L /\ Rank(m) <= i
    BY <1>0, <1>6, <1>8, <2>2
  <2>4. Rank(n) \in 1..L /\ n \in C(Rank(n)) /\ n \notin touched
    BY <1>5, <1>6
  <2>5. r <= Rank(n)
    BY <1>0, <1>2, <2>4
  <2>6. r \in Int /\ i \in Int /\ i <= r /\ Rank(m) \in Int /\ Rank(n) \in Int
    BY <1>0, <2>2, <2>3, <2>4
  <2> QED BY <2>3, <2>5, <2>6
<1> QED
  BY <1>8, <1>9, <1>10, <1>11, Zenon DEF SearchIsBest, Rank, pool, C, L

\* The search on its own: whatever changes while it runs, among the nodes that are left
\* alone it finds as many as there are and are asked for, the best ones by the first
\* rule that selects them, in that order, for any number of nodes and any grains.
THEOREM SearchFindsBest == SearchSpec => []SearchIsBest
<1>1. SearchInit => BestInv
  <2> SUFFICES ASSUME SearchInit PROVE BestInv OBVIOUS
  <2>1. /\ purpose \in Purpose /\ rule = 1 /\ found = <<>> /\ Len(found) = 0
        /\ wanted \in 1..Cardinality(Node) /\ Cardinality(Node) \in Nat
    BY FS_CardinalityType DEF SearchInit
  <2>2. Best(0)
    BY <2>1 DEF Best, BestOf
  <2>3. 0 \in 0..Len(Prio(purpose))
    BY <2>1, PrioLen
  <2> QED BY <2>1, <2>2, <2>3 DEF BestInv
<1>2. SearchInv /\ BestInv /\ [SearchNext]_searchVars => BestInv'
  <2> SUFFICES ASSUME SearchInv, BestInv, [SearchNext]_searchVars PROVE BestInv' OBVIOUS
  <2>1. CASE TryRule
    BY <2>1, TryRuleBest
  <2>2. CASE \E n \in Node : Change(n)
    BY <2>2, ChangeBest
  <2>3. CASE UNCHANGED searchVars
    <3>1. UNCHANGED <<purpose, wanted, excluded, rule, found, touched, grains, changes>>
      BY <2>3 DEF searchVars, search
    <3>2. Chosen' = Chosen
      BY <3>1 DEF Chosen, Candidates, Matches
    <3> QED BY <3>1, <3>2 DEF BestInv, Best, BestOf
  <2> QED BY <2>1, <2>2, <2>3 DEF SearchNext
<1>3. SearchSpec => [](SearchTypeOK /\ FoundSound)
  BY SearchIsSound
<1>4. SearchInv /\ BestInv => SearchIsBest
  BY BestFound
<1> QED BY <1>1, <1>2, <1>3, <1>4, PTL DEF SearchSpec, SearchInv

-------------------------------------------------------------------------------
(* A search as a part of a call *)

\* Once a search has begun, what it has found is the best.
AskedInv == purpose \in Purpose => BestInv

LEMMA BestUnchanged ==
  ASSUME AskedInv, UNCHANGED <<grains, changes, search>>
  PROVE  AskedInv'
<1>1. UNCHANGED <<purpose, wanted, excluded, rule, found, touched, grains, changes>>
  BY DEF search
<1>2. Chosen' = Chosen
  BY <1>1 DEF Chosen, Candidates, Matches
<1> QED BY <1>1, <1>2 DEF AskedInv, BestInv, Best, BestOf

LEMMA BestBegun ==
  ASSUME NEW p \in Purpose, NEW num \in Nat \ {0}, NEW nodes, SearchFor(p, num, nodes)
  PROVE  AskedInv'
<1>1. purpose' = p /\ wanted' = num /\ rule' = 1 /\ found' = <<>> /\ Len(found') = 0
  BY DEF SearchFor
<1>2. BestOf(0, Chosen, touched, found, rule, wanted)'
  BY <1>1 DEF BestOf
<1>3. 0 \in 0..Len(Prio(p))
  BY PrioLen
<1> QED BY <1>1, <1>2, <1>3 DEF AskedInv, BestInv, Best, BestOf

\* The steps of the search, and of those who change the grains meanwhile.
LEMMA BestStep ==
  ASSUME SearchInv, AskedInv, TryRule \/ \E n \in Node : Change(n)
  PROVE  AskedInv'
<1>1. CASE TryRule
  BY <1>1, TryRuleBest DEF AskedInv, TryRule
<1>2. CASE \E n \in Node : Change(n)
  BY <1>2, ChangeBest DEF AskedInv, Change
<1> QED BY <1>1, <1>2

LEMMA AskedFound ==
  ASSUME SearchInv, AskedInv
  PROVE  SearchIsBest
BY BestFound DEF AskedInv, SearchIsBest
===============================================================================
