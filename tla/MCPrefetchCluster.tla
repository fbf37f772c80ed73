-------------------------- MODULE MCPrefetchCluster --------------------------
(***************************************************************************)
(* PrefetchCluster for TLC.                                                *)
(***************************************************************************)
EXTENDS PrefetchCluster, TLC

CONSTANTS a, b

TwoNodes   == 1..2
ThreeNodes == 1..3
OneZone    == [n \in 1..3 |-> "zone"]

OneImage  == {a}
TwoImages == {a, b}
OneList   == {{a}}
TwoLists  == {{a}, {b}}
GrowingLists == {{a}, {a, b}}

\* What may still happen to users' objects, to nodes, to the process and to calls.
Budget(editsLeft, nodeEventsLeft, restartsLeft, faultsLeft) ==
    /\ edits = MaxEdits - editsLeft
    /\ nodeEvents = MaxNodeEvents - nodeEventsLeft
    /\ restarts = MaxRestarts - restartsLeft
    /\ faults = MaxFaults - faultsLeft

Quiet == Idle /\ CollectorIdle

\* Nothing has been done for the ImagePrefetch yet, if there is one.
Begun(obj, present) ==
    /\ prefetch = obj /\ prefetchCache = obj
    /\ sets = [n \in Nodes |-> NoNodeImageSet] /\ setsCache = sets
    /\ nodes = [n \in Nodes |-> IF n \in present THEN "ready" ELSE "absent"]
    /\ queued = obj.live
    /\ Quiet
    /\ seen = [n \in Nodes |-> NoNodeImageSet]
    /\ has = [n \in Nodes |-> {}]

\* An ImagePrefetch for all nodes that has just been created.
ForAllNodes == [NoPrefetch EXCEPT !.live = TRUE, !.uid = 1, !.generation = 1,
                                  !.images = {a}, !.allNodes = TRUE, !.finalizer = TRUE]

\* Node 1 has been selected, for the only replica or as the only node, and has
\* the image.
Selected(replicas, present) ==
    LET selected == [NoPrefetch EXCEPT !.live = TRUE, !.uid = 1, !.generation = 1,
                                       !.images = {a}, !.replicas = replicas,
                                       !.allNodes = (replicas = 0), !.finalizer = TRUE,
                                       !.observed = 1, !.selected = {1}, !.ready = TRUE]
        complete == [NoNodeImageSet EXCEPT !.live = TRUE, !.generation = 1, !.images = {a},
                                           !.policy = "Default", !.prefetchGeneration = 1,
                                           !.finalizer = TRUE, !.observed = 1,
                                           !.available = TRUE, !.statuses = 1]
    IN  /\ prefetch = selected /\ prefetchCache = selected
        /\ sets = [n \in Nodes |-> IF n = 1 THEN complete ELSE NoNodeImageSet]
        /\ setsCache = sets
        /\ nodes = [n \in Nodes |-> IF n \in present THEN "ready" ELSE "absent"]
        /\ queued = (1 \notin present)
        /\ Quiet
        /\ seen = [n \in Nodes |-> NoNodeImageSet]
        /\ has = [n \in Nodes |-> IF n = 1 THEN {a} ELSE {}]

\* The rollout of an ImagePrefetch for all nodes is under way: node 1 has the
\* image, the daemons of nodes 2 and 3 have read their NodeImageSets.
MidRollout ==
    LET applied(n) == [NoNodeImageSet EXCEPT !.live = TRUE, !.generation = 1, !.images = {a},
                                             !.policy = IF n = 1 THEN "Default" ELSE "MirrorOnly",
                                             !.prefetchGeneration = 1, !.finalizer = TRUE]
    IN  /\ prefetch = [ForAllNodes EXCEPT !.observed = 1, !.selected = Nodes]
        /\ prefetchCache = prefetch
        /\ sets = [n \in Nodes |->
                      IF n = 1
                      THEN [applied(n) EXCEPT !.observed = 1, !.available = TRUE, !.statuses = 1]
                      ELSE applied(n)]
        /\ setsCache = sets
        /\ nodes = [n \in Nodes |-> "ready"]
        /\ queued = TRUE
        /\ Quiet
        /\ seen = [n \in Nodes |-> IF n = 1 THEN NoNodeImageSet ELSE sets[n]]
        /\ has = [n \in Nodes |-> IF n = 1 THEN {a} ELSE {}]

AllNodesInit   == Begun(ForAllNodes, Nodes) /\ Budget(1, 0, 0, 0)
MidRolloutInit == MidRollout /\ Budget(1, 0, 0, 0)
SelectedInit   == Selected(1, Nodes) /\ Budget(0, 1, 0, 0)

AllNodesSpec   == AllNodesInit /\ [][Next]_vars
MidRolloutSpec == MidRolloutInit /\ [][Next]_vars
SelectedSpec   == SelectedInit /\ [][Next]_vars

\* A node joins the ImagePrefetch for all nodes, the selected node is disturbed,
\* or the ImagePrefetch is changed.
DisturbedInit == \/ Begun(ForAllNodes, Nodes \ {1}) /\ Budget(0, 1, 1, 1)
                 \/ Selected(1, Nodes) /\ Budget(0, 1, 1, 1)
                 \/ Selected(1, Nodes) /\ Budget(1, 0, 1, 1)

DisturbedSpec == DisturbedInit /\ [][Next]_vars

\* The ImagePrefetch on one node is deleted and created again; it is rolled out
\* over all nodes; the only replica moves, or is changed or deleted; the only
\* selected node has been removed, and may be back before the collector is done,
\* or the ImagePrefetch is deleted.
SettlingInit == \/ Begun(ForAllNodes, {1}) /\ Budget(2, 0, 0, 0)
                \/ Begun(ForAllNodes, Nodes) /\ Budget(0, 0, 0, 1)
                \/ Selected(1, Nodes) /\ Budget(0, 1, 0, 0)
                \/ Selected(1, Nodes) /\ Budget(1, 0, 0, 1)
                \/ Selected(1, {}) /\ Budget(0, 1, 0, 0)
                \/ Selected(0, {}) /\ Budget(1, 0, 0, 0)

SettlingSpec == SettlingInit /\ [][Next]_vars /\ Fairness

=============================================================================
