--------------------------- MODULE SelectionHistory ---------------------------
(***************************************************************************)
(* The selection of one ImagePrefetch for a number of nodes, over every    *)
(* history of nodes becoming ready and not ready and of that number, where *)
(* each change is followed by a reconcile that sees it.                    *)
(***************************************************************************)
EXTENDS NodeSelection

CONSTANT MaxReplicas

ASSUME ReplicasAssumption == MaxReplicas \in Nat

VARIABLES
    ready,     \* the ready nodes
    replicas,  \* spec.replicas
    selected,  \* status.selectedNodes
    observed   \* whether status.observedGeneration is that of the spec

vars == <<ready, replicas, selected, observed>>

Init == ready = {} /\ replicas = 1 /\ selected = {} /\ observed = FALSE

\* What selectTargetNodes reads of the ImagePrefetch.
Object == [allNodes |-> FALSE, replicas |-> replicas', selected |-> selected,
           generation |-> 1, observed |-> IF observed /\ replicas' = replicas THEN 1 ELSE 0]

\* Reconcile as far as it concerns the selection: on an error of selectTargetNodes
\* it returns before it writes the status.
Reconcile ==
    LET results == selectTargetNodes(Object, ready')
    IN  IF results = {}
        THEN UNCHANGED selected /\ observed' = (observed /\ replicas' = replicas)
        ELSE selected' \in results /\ observed' = TRUE

NodeReady(n)    == ready' = ready \cup {n} /\ UNCHANGED replicas /\ Reconcile
NodeNotReady(n) == ready' = ready \ {n} /\ UNCHANGED replicas /\ Reconcile
Scale           == replicas' \in 1..MaxReplicas /\ UNCHANGED ready /\ Reconcile

Next == (\E n \in Nodes : NodeReady(n) \/ NodeNotReady(n)) \/ Scale

Spec == Init /\ [][Next]_vars

-----------------------------------------------------------------------------
\* Every selection of the wanted size that keeps the nodes in kept.
Alternatives(kept) ==
    {s \in SUBSET ready' : kept \subseteq s /\ Cardinality(s) = replicas'}

\* Pairs of nodes in the same zone, each node with itself included.
ZonePairs(s) == {pair \in s \X s : Zone[pair[1]] = Zone[pair[2]]}

\* How unevenly a selection uses the zones.
Imbalance(s) == Cardinality(ZonePairs(s))

(***************************************************************************)
(* selectTargetNodes finds as many ready nodes as asked for whenever there *)
(* are as many, and leaves no ready node it had selected for another one:  *)
(* pulled images are not pulled again elsewhere for nothing.               *)
(***************************************************************************)
SelectionSticky ==
    [][Cardinality(ready') >= replicas' =>
          /\ selected' \subseteq ready' /\ Cardinality(selected') = replicas'
          /\ selected \cap ready' \subseteq selected' \/ selected' \subseteq selected]_vars

(***************************************************************************)
(* Taking a node of the least used zone one at a time yields a selection   *)
(* that spreads over the zones as evenly as any selection that keeps the   *)
(* same nodes (the number of pairs that share a zone, which is the sum of  *)
(* the squared zone counts, is minimal).                                   *)
(***************************************************************************)
ZonesBalanced ==
    [][Cardinality(ready') >= replicas' =>
          LET kept == KeepSelected(selected, ready', replicas')
          IN  \A s \in Alternatives(kept) : Imbalance(selected') <= Imbalance(s)]_vars

=============================================================================
