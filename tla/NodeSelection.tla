---------------------------- MODULE NodeSelection ----------------------------
(***************************************************************************)
(* internal/controller/imageprefetch_controller.go: which nodes an         *)
(* ImagePrefetch is for.  Pure functions of the ImagePrefetch and of the   *)
(* ready nodes that its node selector matches.                             *)
(*                                                                         *)
(* Node names are numbers, so that < is the order of sort.Strings; the     *)
(* list of selected nodes is sorted before it is used or stored, and is    *)
(* represented by its set.  sort.Slice leaves the order of equal scores    *)
(* open, hence several possible selections.                                *)
(***************************************************************************)
EXTENDS Naturals, FiniteSets

CONSTANTS
    Nodes,  \* names of the nodes that the node selector matches
    Zone    \* [Nodes -> zones]: label topology.kubernetes.io/zone

ASSUME NodesAssumption == Nodes \subseteq Nat \ {0} /\ IsFiniteSet(Nodes)

\* The position of node n in the sorted list of nodes.
Position(n, nodes) == Cardinality({m \in nodes : m < n})

First(count, nodes) == {n \in nodes : Position(n, nodes) < count}

\* scoreNode over getZoneCount of the nodes selected so far.
scoreNode(n, selected) == Cardinality({m \in selected : Zone[m] = Zone[n]})

\* Mutant: the candidates are not sorted.
AnyCandidate(ready, selected) == ready \ selected

\* filterSelectNodes, and the candidates the sort may put first.
Candidates(ready, selected) ==
    {n \in ready \ selected :
        \A m \in ready \ selected : scoreNode(n, selected) <= scoreNode(m, selected)}

\* Mutant: the selection starts from nothing each time.
ForgetSelected(previous, ready, replicas) == {}

\* The first loop of selectNodesByReplicas: selected nodes that are ready stay.
KeepSelected(previous, ready, replicas) == First(replicas, previous \cap ready)

\* What is selected after i rounds of the second loop, which has taken the nodes
\* of order one after the other.
After(kept, order, i) == kept \cup {order[j] : j \in 1..i}

\* The orders in which that loop may take as many nodes as are missing.
Orders(kept, ready, missing) ==
    {order \in [1..missing -> ready \ kept] :
        \A i \in 1..missing : order[i] \in Candidates(ready, After(kept, order, i - 1))}

\* The possible results; none when there are not enough nodes, which is an error.
\* The loop itself never runs out of candidates then.
selectNodesByReplicas(previous, ready, replicas) ==
    LET kept    == KeepSelected(previous, ready, replicas)
        missing == replicas - Cardinality(kept)
    IN  IF Cardinality(ready) < replicas THEN {}
        ELSE {After(kept, order, missing) : order \in Orders(kept, ready, missing)}

isNeedNodeSelection(obj, ready) ==
    \/ obj.selected = {}
    \/ obj.generation # obj.observed
    \/ ~(obj.selected \subseteq ready)

\* The possible results of selectTargetNodes for the ImagePrefetch obj; none
\* when it returns an error.
selectTargetNodes(obj, ready) ==
    IF obj.allNodes THEN {ready}
    ELSE IF obj.replicas = 0 THEN {}
    ELSE IF isNeedNodeSelection(obj, ready)
         THEN selectNodesByReplicas(obj.selected, ready, obj.replicas)
         ELSE {obj.selected}

=============================================================================
