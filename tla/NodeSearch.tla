------------------------------ MODULE NodeSearch -------------------------------
(***************************************************************************)
(* _modules/caasp_nodes.py, get_with_prio: the search for nodes that could *)
(* take a role (or give up their etcd member), in the order of a list of   *)
(* priority rules.  Every rule is a query of the mine of its own, and the  *)
(* grains of the nodes may change between two of them.                     *)
(***************************************************************************)
EXTENDS Naturals, Sequences, FiniteSets

CONSTANTS
  Node,
  Situations,  \* the grains that a node may have when a search begins
  MaxChanges   \* bound: how often the grains change during a call

Role   == {"admin", "ca", "etcd", "kube-master", "kube-minion"}
Grains == [roles : SUBSET Role, complete : BOOLEAN, busy : BOOLEAN]

ASSUME NodeAssumption == IsFiniteSet(Node)
ASSUME SituationsAssumption == Situations \subseteq Grains
ASSUME BoundAssumption == MaxChanges \in Nat

VARIABLES
  grains,    \* of each node: its roles, bootstrap_complete, and whether it has
             \* one of the *_in_progress grains
  changes,
  purpose,   \* the list of rules that is tried
  wanted,    \* how many nodes are looked for
  excluded,  \* the argument excluded
  rule,      \* the rule to try next, 0 when no search is going on
  found,     \* the nodes found so far
  touched    \* history: the nodes whose grains have changed since the search began

search == <<purpose, wanted, excluded, rule, found, touched>>

With(role)   == {n \in Node : role \in grains[n].roles}
Booted(role) == {n \in With(role) : grains[n].complete}

-------------------------------------------------------------------------------
(* The rules.  Candidates without any role are never asked for              *)
(* (USE_UNASSIGNED is False).                                               *)

Kube == {"kube-master", "kube-minion"}

\* A rule asks for roles, refuses others, and may ask for nodes that have not
\* been bootstrapped yet ("new") or that have been ("booted").
Rule(has, lacks, when) == [has |-> has, lacks |-> lacks, when |-> when]

Purpose == {"etcd", "etcd-removal", "kube-master", "kube-minion"}

Prio(p) ==
  CASE p = "etcd" ->
         << Rule({"etcd"}, Kube, "new"), Rule({"etcd"}, {}, "new"),
            Rule({"kube-master"}, {"etcd"}, "new"), Rule({"kube-master"}, {"etcd"}, "any"),
            Rule({"kube-minion"}, {"etcd"}, "new"), Rule({"kube-minion"}, {"etcd"}, "any") >>
    [] p = "etcd-removal" ->
         << Rule({"kube-minion", "etcd"}, {}, "booted"),
            Rule({"kube-master", "etcd"}, {}, "booted") >>
    [] OTHER -> \* kube-master and kube-minion
         << Rule({p}, {"etcd"}, "new"), Rule({p}, {}, "new"),
            Rule({"etcd"}, Kube, "new"), Rule({"etcd"}, Kube, "any") >>

Matches(n, r) ==
  /\ r.has \subseteq grains[n].roles
  /\ r.lacks \cap grains[n].roles = {}
  /\ r.when = "new" => ~grains[n].complete
  /\ r.when = "booted" => grains[n].complete

\* get_with_expr joins the nodes to exclude with "|", while Salt's list matcher
\* L@ separates them with ",": two nodes or more are the name of no node.
LeftOut(nodes) == IF Cardinality(nodes) = 1 THEN nodes ELSE {}

\* exclude_admin, exclude_in_progress and excluded.  The nodes are those that have
\* the grain nodename in the mine, as if the pillar exported it (mine.sls does not:
\* in this deployment a query returns nobody).
Candidates(r) ==
  {n \in Node : /\ Matches(n, r)
                /\ grains[n].roles \cap {"admin", "ca"} = {}
                /\ ~grains[n].busy} \ LeftOut(excluded)

-------------------------------------------------------------------------------
(* The search *)

Found == {found[i] : i \in 1..Len(found)}

\* The lists of k members of S.
Lists(S, k) ==
  {q \in [1..k -> S] : \A i, j \in 1..k : q[i] = q[j] => i = j}

SearchFor(p, num, nodes) ==
  /\ rule = 0
  /\ purpose' = p /\ wanted' = num /\ excluded' = nodes
  /\ rule' = 1 /\ found' = <<>> /\ touched' = {}

AtMost(m, n) == IF m <= n THEN m ELSE n

\* Mutant of TryRule: nodes found by an earlier rule are not filtered out.
TryRuleAgain ==
  /\ rule # 0
  /\ LET new == Candidates(Prio(purpose)[rule])
         k   == AtMost(wanted - Len(found), Cardinality(new))
     IN  \E q \in Lists(new, k) :
           /\ found' = found \o q
           /\ rule' = IF Len(found) + k >= wanted \/ rule = Len(Prio(purpose))
                      THEN 0 ELSE rule + 1
  /\ UNCHANGED <<purpose, wanted, excluded, touched, grains, changes>>

\* Mutant of TryRule: the search ends with the first rule that matches.
TryRuleOnce ==
  /\ rule # 0
  /\ LET new == Candidates(Prio(purpose)[rule]) \ Found
         k   == AtMost(wanted - Len(found), Cardinality(new))
     IN  \E q \in Lists(new, k) :
           /\ found' = found \o q
           /\ rule' = IF k > 0 \/ rule = Len(Prio(purpose)) THEN 0 ELSE rule + 1
  /\ UNCHANGED <<purpose, wanted, excluded, touched, grains, changes>>

\* Mutant of TryRule: the list of rules has no end.
TryRuleEndless ==
  /\ rule # 0
  /\ LET new == Candidates(Prio(purpose)[rule]) \ Found
         k   == AtMost(wanted - Len(found), Cardinality(new))
     IN  \E q \in Lists(new, k) :
           /\ found' = found \o q
           /\ rule' = IF Len(found) + k >= wanted THEN 0 ELSE rule + 1
  /\ UNCHANGED <<purpose, wanted, excluded, touched, grains, changes>>

\* One turn of the loop over the rules.  The mine returns the nodes in any
\* order.
TryRule ==
  /\ rule # 0
  /\ LET new == Candidates(Prio(purpose)[rule]) \ Found
         k   == AtMost(wanted - Len(found), Cardinality(new))
     IN  \E q \in Lists(new, k) :
           /\ found' = found \o q
           /\ rule' = IF Len(found) + k >= wanted \/ rule = Len(Prio(purpose))
                      THEN 0 ELSE rule + 1
  /\ UNCHANGED <<purpose, wanted, excluded, touched, grains, changes>>

\* Meanwhile a node has been bootstrapped, or starts or ends being worked on.
Change(n) ==
  /\ changes < MaxChanges
  /\ changes' = changes + 1
  /\ \/ grains' = [grains EXCEPT ![n].complete = TRUE]
     \/ grains' = [grains EXCEPT ![n].busy = ~@]
  /\ touched' = touched \cup {n}
  /\ UNCHANGED <<purpose, wanted, excluded, rule, found>>

-------------------------------------------------------------------------------
(* The search on its own *)

SearchInit ==
  /\ grains \in [Node -> Situations]
  /\ changes = 0
  /\ purpose \in Purpose /\ wanted \in 1..Cardinality(Node)
  /\ excluded \in SUBSET Node
  /\ rule = 1 /\ found = <<>> /\ touched = {}

SearchNext == TryRule \/ (rule # 0 /\ \E n \in Node : Change(n))

searchVars == <<grains, changes, search>>

SearchSpec == SearchInit /\ [][SearchNext]_searchVars

SearchTypeOK ==
  /\ grains \in [Node -> Grains] /\ changes \in 0..MaxChanges
  /\ purpose \in Purpose \cup {"none"} /\ wanted \in Nat
  /\ excluded \subseteq Node
  /\ rule \in Nat /\ (rule # 0 => purpose \in Purpose /\ rule <= Len(Prio(purpose)))
  /\ found \in Seq(Node) /\ touched \subseteq Node

\* Whatever happens to the grains meanwhile, a search finds no node twice, no
\* more than were asked for, and never the admin or the CA.
FoundSound ==
  /\ \A i, j \in 1..Len(found) : found[i] = found[j] => i = j
  /\ Len(found) <= wanted
  /\ \A n \in Found : grains[n].roles \cap {"admin", "ca"} = {}

\* What get_with_prio returns.  Whatever happens between two of its queries, among
\* the nodes that were left alone it finds the best ones, in the order of their
\* ranks, and passes none over as long as nodes are missing.
SearchIsBest ==
  rule = 0 /\ purpose \in Purpose =>
    LET rules   == Prio(purpose)
        pool    == (UNION {Candidates(rules[i]) : i \in 1..Len(rules)}) \ touched
        rank(n) == CHOOSE i \in 1..Len(rules) :
                     /\ n \in Candidates(rules[i])
                     /\ \A j \in 1..(i-1) : n \notin Candidates(rules[j])
    IN  /\ Found \ touched \subseteq pool
        /\ Len(found) < wanted => pool \subseteq Found
        /\ \A i, j \in 1..Len(found) :
             i < j /\ {found[i], found[j]} \cap touched = {} => rank(found[i]) <= rank(found[j])
        /\ \A m \in Found \ touched, n \in pool \ Found : rank(m) <= rank(n)

\* caasp_nodes.py:143: "`excluded`: list of nodes to exclude".
ExcludedHonoured == Found \cap excluded = {}
===============================================================================
