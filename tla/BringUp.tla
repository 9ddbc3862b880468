-------------------------------- MODULE BringUp --------------------------------
(***************************************************************************)
(* What the bootstrap is for, without the orchestration, the state runs    *)
(* and the minions that carry it out: the secrets of the CA are created    *)
(* and published, a node is trusted once it could look up what it needs,   *)
(* a trusted node joins the cluster of etcd for good, and its services are *)
(* ready when what they depend on is there.  Nothing of it is ever undone. *)
(***************************************************************************)
EXTENDS Naturals, FiniteSets

CONSTANTS
  Node,      \* the hosts
  Etcd,      \* those that are to be members of etcd
  Master,    \* those that are to run an API server
  Secret,    \* what the CA creates
  Required   \* the secrets a node looks up before anything is done to it

VARIABLES
  created,    \* the secrets that exist
  published,  \* those that the other nodes can look up
  known,      \* the nodes whose address can be looked up
  trusted,    \* the nodes with a certificate
  cluster,    \* the initial cluster a member has joined, {} before
  ready       \* the nodes whose services have been brought up

vars == <<created, published, known, trusted, cluster, ready>>

Init ==
  /\ created = {} /\ published = {} /\ known = {}
  /\ trusted = {} /\ ready = {}
  /\ cluster = [n \in Node |-> {}]

\* A majority of some initial cluster has joined it.
Formed ==
  \E n \in Etcd :
    /\ cluster[n] # {}
    /\ 2 * Cardinality({m \in cluster[n] : cluster[m] = cluster[n]})
         > Cardinality(cluster[n])

Create ==
  /\ created' \in SUBSET Secret /\ created \subseteq created'
  /\ UNCHANGED <<published, known, trusted, cluster, ready>>

Publish ==
  /\ published' \in {published, published \cup created}
  /\ known' \in SUBSET Node /\ known \subseteq known'
  /\ UNCHANGED <<created, trusted, cluster, ready>>

Trust(n) ==
  /\ Required[n] # {} /\ Required[n] \subseteq published
  /\ trusted' = trusted \cup {n}
  /\ UNCHANGED <<created, published, known, cluster, ready>>

Join(n) ==
  /\ n \in trusted /\ cluster[n] = {}
  /\ \E list \in SUBSET (Etcd \cap known) :
       n \in list /\ cluster' = [cluster EXCEPT ![n] = list]
  /\ UNCHANGED <<created, published, known, trusted, ready>>

Serve(n) ==
  /\ Required[n] \subseteq published
  /\ Required[n] # {} => n \in trusted
  /\ n \in Master => Formed
  /\ ready' = ready \cup {n}
  /\ UNCHANGED <<created, published, known, trusted, cluster>>

Next == Create \/ Publish \/ \E n \in Node : Trust(n) \/ Join(n) \/ Serve(n)

Spec == Init /\ [][Next]_vars
===============================================================================
