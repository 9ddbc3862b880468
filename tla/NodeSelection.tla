---------------------------- MODULE NodeSelection ------------------------------
(***************************************************************************)
(* _modules/caasp_nodes.py, get_replacement_for: when a node is removed, a *)
(* node is chosen (or the one the user gives is checked) that takes over   *)
(* as many of its roles as it can.  The call aborts when the cluster could *)
(* not go on without the node.                                             *)
(***************************************************************************)
EXTENDS NodeSearch

CONSTANT None

ASSUME NoneAssumption == None \notin Node

VARIABLES
  target,       \* the node to remove
  given,        \* the replacement the user gives, or None
  stage,        \* the part of the function being executed, or how it ended
  replacement, newroles

call == <<target, given, stage, replacement, newroles>>
vars == <<grains, changes, search, call>>

Stage == {"check", "etcd", "kube-master", "kube-minion", "final",
          "done", "aborted", "internal"}
ClusterRole == {"etcd", "kube-master", "kube-minion"}

TypeOK ==
  /\ SearchTypeOK
  /\ target \in Node /\ given \in Node \cup {None}
  /\ stage \in Stage
  /\ replacement \in Node \cup {None} /\ newroles \subseteq ClusterRole

Init ==
  /\ grains \in [Node -> Situations]
  /\ changes = 0
  /\ excluded \in SUBSET Node
  /\ purpose = "none" /\ wanted = 0 /\ rule = 0 /\ found = <<>> /\ touched = {}
  /\ target \in Node
  /\ given \in Node \cup {None}
  /\ stage = "check"
  /\ replacement = given
  /\ newroles = {}

-------------------------------------------------------------------------------

Forbidden(n) == grains[n].roles \cap {"admin", "ca"} # {}

\* The request is refused when it touches the admin or the CA, or when the
\* replacement given is one of the nodes excluded.
Check ==
  /\ stage = "check"
  /\ stage' = IF \/ Forbidden(target)
                 \/ given # None /\ (Forbidden(given) \/ given \in excluded)
              THEN "aborted" ELSE "etcd"
  /\ UNCHANGED <<grains, changes, search, target, given, replacement, newroles>>

After(s) ==
  CASE s = "etcd" -> "kube-master" [] s = "kube-master" -> "kube-minion" [] OTHER -> "final"

Leaves(s) == stage = s /\ s \in ClusterRole /\ s \in grains[target].roles

\* The target does not have the role.
SkipRole(s) ==
  /\ stage = s /\ s \in ClusterRole /\ s \notin grains[target].roles
  /\ stage' = After(s)
  /\ UNCHANGED <<grains, changes, search, target, given, replacement, newroles>>

\* No replacement is known yet: _get_one_for_role.
LookFor(s) ==
  /\ Leaves(s) /\ replacement = None /\ purpose # s
  /\ SearchFor(s, 1, excluded)
  /\ UNCHANGED <<grains, changes, call>>

\* The node that is considered for role s: the replacement there is already, or
\* what the search has found.
Candidate ==
  IF replacement # None THEN replacement
  ELSE IF found = <<>> THEN None ELSE found[1]

Ready(s) == Leaves(s) /\ rule = 0 /\ (replacement # None \/ purpose = s)

\* Mutant of Unfit: a minion may become a master.
UnfitLax(s, n) ==
  \/ n \in Booted(s)
  \/ s = "kube-minion" /\ n \in With("kube-master")

\* A node that runs the role already, or that would be a master and a minion.
Unfit(s, n) ==
  \/ n \in Booted(s)
  \/ s = "kube-master" /\ n \in With("kube-minion")
  \/ s = "kube-minion" /\ (n \in With("kube-master") \/ "kube-master" \in newroles)

Accepted(s) == Candidate # None /\ ~Unfit(s, Candidate)

\* Mutant of Refuse: it only warns.
RefuseWarnOnly(s) ==
  /\ Ready(s) /\ given # None /\ ~Accepted(s)
  /\ stage' = After(s)
  /\ UNCHANGED <<grains, changes, search, target, given, replacement, newroles>>

\* warn_or_abort_on_replacement_provided: it is the user's.
Refuse(s) ==
  /\ Ready(s) /\ given # None /\ ~Accepted(s)
  /\ stage' = "aborted"
  /\ UNCHANGED <<grains, changes, search, target, given, replacement, newroles>>

Assign(s) ==
  /\ Ready(s) /\ Accepted(s)
  /\ replacement' = Candidate
  /\ newroles' = newroles \cup {s}
  /\ stage' = After(s)
  /\ UNCHANGED <<grains, changes, search, target, given>>

\* Mutant of TooFew: _MIN_*_AFTER_REMOVAL is compared with `<'.
TooFewLess(s) == Cardinality(With(s)) < 1

\* _MIN_*_AFTER_REMOVAL
TooFew(s) == Cardinality(With(s)) <= 1

\* Nobody takes over the role: the cluster goes on with one node less, or the
\* call is aborted.
GoWithout(s) ==
  /\ Ready(s) /\ given = None /\ ~Accepted(s)
  /\ stage' = IF TooFew(s) THEN "aborted" ELSE After(s)
  /\ UNCHANGED <<grains, changes, search, target, given, replacement, newroles>>

Conclude ==
  /\ stage = "final"
  /\ stage' = IF replacement # None /\ newroles = {} THEN "internal" ELSE "done"
  /\ UNCHANGED <<grains, changes, search, target, given, replacement, newroles>>

Ended == stage \in {"done", "aborted", "internal"}

Next ==
  \/ Check \/ Conclude
  \/ \E s \in ClusterRole :
       SkipRole(s) \/ LookFor(s) \/ Refuse(s) \/ Assign(s) \/ GoWithout(s)
  \/ TryRule /\ UNCHANGED call
  \/ ~Ended /\ \E n \in Node : Change(n) /\ UNCHANGED call

Spec == Init /\ [][Next]_vars

-------------------------------------------------------------------------------

\* The roles of node n once the replacement has got the new ones.
RolesAfter(n) == grains[n].roles \cup (IF n = replacement THEN newroles ELSE {})

\* When a node may be removed, each of its roles is held by another one then. The
\* exception is in the code: the search does not leave the target out, so a target
\* that has not been bootstrapped may be found as its own replacement.
RoleKept ==
  stage = "done" /\ replacement # target =>
    \A s \in grains[target].roles \cap ClusterRole :
      \E n \in Node \ {target} : s \in RolesAfter(n)

\* The node that gets new roles never becomes both a master and a minion by it.
RolesCompatible ==
  stage = "done" =>
    \A s \in newroles \cap Kube : (Kube \ {s}) \cap RolesAfter(replacement) = {}

\* The consistency check at the end only fails for a node without roles.
NoInternalError ==
  stage = "internal" => grains[target].roles \cap ClusterRole = {}
===============================================================================
