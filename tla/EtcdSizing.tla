------------------------------ MODULE EtcdSizing -------------------------------
(***************************************************************************)
(* _modules/caasp_etcd.py: how many members etcd should have, which nodes  *)
(* should stop to be members (get_surplus_etcd_members), and which ones    *)
(* should become members (get_additional_etcd_members).                    *)
(***************************************************************************)
EXTENDS NodeSearch, Integers

CONSTANTS
  Pillar,   \* the values of the pillar etcd:masters to consider, 0 when not set
  MaxArg    \* bound: the largest value of the argument num_wanted

ASSUME SizeAssumption == Pillar \subseteq Int /\ MaxArg \in Nat

VARIABLES
  fun,       \* "surplus" or "additional"
  pillar, numWanted,
  targets,   \* the nodes that are to be removed overall
  listed,    \* the argument etcd_members is given (it only matters to "additional")
  stage, result

call == <<fun, pillar, numWanted, targets, listed>>
vars == <<grains, changes, search, call, stage, result>>

MinRecommended == 3

\* Mutant of Optimal: the bounds are one too high.
OptimalOver(n) == IF n > 7 THEN 7 ELSE IF n > 5 THEN 5 ELSE IF n > 3 THEN 3 ELSE 1

Optimal(n) == IF n >= 7 THEN 7 ELSE IF n >= 5 THEN 5 ELSE IF n >= 3 THEN 3 ELSE 1

\* get_cluster_size
ClusterSize(p, masters, minions) ==
  LET computed ==
        IF Optimal(masters) < MinRecommended
        THEN Optimal(AtMost(MinRecommended, masters + minions))
        ELSE Optimal(masters)
      count == IF p = 0 THEN computed ELSE p
  IN  IF count < 1 THEN 1 ELSE count

Size == ClusterSize(pillar, Cardinality(With("kube-master")), Cardinality(With("kube-minion")))

WantedMembers == IF numWanted # 0 THEN numWanted ELSE Size

Members == With("etcd")

TypeOK ==
  /\ SearchTypeOK
  /\ fun \in {"surplus", "additional"}
  /\ pillar \in Int /\ numWanted \in Nat /\ targets \subseteq Node /\ listed \in BOOLEAN
  /\ stage \in {"start", "search", "done", "error"} /\ result \in Seq(Node)

Init ==
  /\ grains \in [Node -> Situations] /\ changes = 0
  /\ purpose = "none" /\ wanted = 0 /\ rule = 0 /\ found = <<>> /\ touched = {}
  /\ excluded \in {{}} \cup {{n} : n \in Node}
  /\ fun \in {"surplus", "additional"}
  /\ pillar \in Pillar /\ numWanted \in 0..MaxArg
  /\ targets \in SUBSET Node
  /\ listed \in BOOLEAN
  /\ IF fun = "additional" THEN targets = {} ELSE listed
  /\ stage = "start" /\ result = <<>>

\* How many members there are too many, or too few.
Surplus == Cardinality(Members) - WantedMembers
Missing == WantedMembers - Cardinality(Members)

Enough == IF fun = "surplus" THEN Surplus <= 0 ELSE Missing <= 0

NothingToDo ==
  /\ stage = "start" /\ Enough
  /\ stage' = "done" /\ result' = <<>>
  /\ UNCHANGED <<grains, changes, search, call>>

\* Mutant of LookForSurplus: the number of members instead of the surplus.
LookForMembers ==
  /\ stage = "start" /\ fun = "surplus" /\ ~Enough
  /\ SearchFor("etcd-removal", Cardinality(Members), targets \cup excluded)
  /\ stage' = "search"
  /\ UNCHANGED <<grains, changes, call, result>>

LookForSurplus ==
  /\ stage = "start" /\ fun = "surplus" /\ ~Enough
  /\ SearchFor("etcd-removal", Surplus, targets \cup excluded)
  /\ stage' = "search"
  /\ UNCHANGED <<grains, changes, call, result>>

\* Mutant of LookForAdditional: the whole cluster instead of what is missing.
LookForCluster ==
  /\ stage = "start" /\ fun = "additional" /\ ~Enough /\ listed
  /\ SearchFor("etcd", WantedMembers, Members \cup excluded)
  /\ stage' = "search"
  /\ UNCHANGED <<grains, changes, call, result>>

LookForAdditional ==
  /\ stage = "start" /\ fun = "additional" /\ ~Enough /\ listed
  /\ SearchFor("etcd", Missing, Members \cup excluded)
  /\ stage' = "search"
  /\ UNCHANGED <<grains, changes, call, result>>

\* Without the argument etcd_members, current_etcd_members is what get_with_expr
\* returns, the keys of a dictionary: Python 3 does not add a list to them.
AddListToKeys ==
  /\ stage = "start" /\ fun = "additional" /\ ~Enough /\ ~listed
  /\ stage' = "error"
  /\ UNCHANGED <<grains, changes, search, call, result>>

\* The slice s[:-k] of Python.
ButLast(s, k) == IF k = 0 \/ k >= Len(s) THEN <<>> ELSE SubSeq(s, 1, Len(s) - k)

Return ==
  /\ stage = "search" /\ rule = 0
  /\ stage' = "done"
  /\ result' = IF fun = "surplus" THEN ButLast(found, Cardinality(targets \cap Members))
               ELSE found
  /\ UNCHANGED <<grains, changes, search, call>>

Next ==
  \/ NothingToDo \/ LookForSurplus \/ LookForAdditional \/ AddListToKeys \/ Return
  \/ TryRule /\ UNCHANGED <<call, stage, result>>
  \/ stage \in {"start", "search"} /\ \E n \in Node : Change(n) /\ UNCHANGED <<call, stage, result>>

Spec == Init /\ [][Next]_vars

-------------------------------------------------------------------------------

Result == {result[i] : i \in 1..Len(result)}

\* What the doc-string of get_cluster_size says of the size (caasp_etcd.py:50-53):
\* "falling back to match the number nodes with the kube-master role, and if this is
\* less than 3, it will bump it to 3 (or the number of nodes available if the number
\* of nodes is less than 3)."
DocumentedSize(masters, minions) ==
  IF masters >= 3 THEN masters ELSE AtMost(3, masters + minions)

OddSizes == {1, 3, 5, 7}

\* The size that is computed is the documented one, as far as that is odd and not
\* larger than seven.  Elsewhere the code and the doc-string disagree: "make sure we
\* are using an odd number" (caasp_etcd.py:79) makes 3 of four masters and 1 of two
\* nodes, where the doc-string says 4 and 2.  There it is the next smaller odd size.
SizeIsDocumentedIfOdd ==
  stage = "start" => \A masters, minions \in 0..9 :
    LET size       == ClusterSize(0, masters, minions)
        documented == DocumentedSize(masters, minions)
    IN  IF documented \in OddSizes THEN size = documented
        ELSE /\ size \in OddSizes /\ (size < documented \/ size = 1)
             /\ \A k \in OddSizes : k < documented => k <= size

\* Taking the surplus and the nodes to be removed away leaves as many members as
\* are wanted.
SurplusKeepsWanted ==
  stage = "done" /\ fun = "surplus" /\ result # <<>> =>
    Cardinality((Members \ targets) \ Result) >= WantedMembers

\* The additional members do not make the cluster larger than wanted.
AdditionalWithinWanted ==
  stage = "done" /\ fun = "additional" /\ result # <<>> =>
    Cardinality(Members \cup Result) <= WantedMembers

\* caasp_etcd.py:109: "get a list of surplus nodes (IDs) that should not run `etcd`,
\* not included in `targets`": when enough members could be taken, none is left
\* over.
Removable == {n \in Members \ (targets \cup excluded) :
                Matches(n, Rule({"kube-minion"}, {"admin", "ca"}, "booted")) /\ ~grains[n].busy}

SurplusComplete ==
  stage = "done" /\ fun = "surplus" /\ changes = 0 /\ Cardinality(Removable) >= Surplus =>
    Cardinality((Members \ targets) \ Result) <= WantedMembers
===============================================================================
