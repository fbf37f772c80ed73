--------------------------- MODULE PrefetchCluster ---------------------------
(***************************************************************************)
(* The imageprefetch-controller process, reconciler and garbage collector, *)
(* with the API server, the nodes, the users, and what the daemon of each  *)
(* node promises: it adds its finalizer to a NodeImageSet, reports, for    *)
(* the generation it has observed, whether all images are there, and       *)
(* removes the finalizer of a deleted NodeImageSet.                        *)
(***************************************************************************)
EXTENDS NodeImageSetGarbageCollector

CONSTANTS
    ImageLists,     \* lists of images users ask for
    MaxEdits,       \* bound: creations, updates and deletions of the ImagePrefetch
    MaxNodeEvents,  \* bound: changes of nodes
    MaxRestarts     \* bound: restarts of the controller

ASSUME ImageListsAssumption == ImageLists \subseteq (SUBSET Images) \ {{}}
ASSUME ClusterBoundsAssumption ==
    MaxEdits \in Nat /\ MaxNodeEvents \in Nat /\ MaxRestarts \in Nat

VARIABLES
    seen,        \* [Nodes -> NodeImageSet]: what the daemon of the node has read
    has,         \* [Nodes -> SUBSET Images]: images the node has reported so far
    edits, nodeEvents, restarts

boundVars == <<edits, nodeEvents, restarts>>
controllerVars == <<recVars, gcVars, queued>>
vars == <<objectVars, nodes, controllerVars, seen, has, faults, boundVars>>

TypeOK ==
    /\ ReconcilerTypeOK
    /\ CollectorTypeOK
    /\ seen \in [Nodes -> NodeImageSet]
    /\ has \in [Nodes -> SUBSET Images]
    /\ edits \in 0..MaxEdits
    /\ nodeEvents \in 0..MaxNodeEvents
    /\ restarts \in 0..MaxRestarts

Init ==
    /\ prefetch = NoPrefetch /\ prefetchCache = NoPrefetch
    /\ sets = [n \in Nodes |-> NoNodeImageSet] /\ setsCache = sets
    /\ nodes \in [Nodes -> {"absent", "ready"}]
    /\ queued = FALSE
    /\ Idle
    /\ CollectorIdle
    /\ faults = 0
    /\ seen = [n \in Nodes |-> NoNodeImageSet]
    /\ has = [n \in Nodes |-> {}]
    /\ edits = 0 /\ nodeEvents = 0 /\ restarts = 0

-----------------------------------------------------------------------------
(***************************************************************************)
(* The daemon of node n.  A reconcile of the NodeImageSet reads it and in  *)
(* the end reports on what it has read, which may have changed since.      *)
(***************************************************************************)

DaemonWrites(n, set) ==
    /\ nodes[n] # "absent"
    /\ sets' = [sets EXCEPT ![n] = set]
    /\ UNCHANGED <<prefetch, prefetchCache, setsCache, nodes, controllerVars, boundVars>>

DaemonAdopts(n) ==
    /\ sets[n].live /\ ~sets[n].deleting /\ ~sets[n].finalizer
    /\ DaemonWrites(n, [sets[n] EXCEPT !.finalizer = TRUE])
    /\ UNCHANGED <<seen, has, faults>>

\* Also when an earlier reconcile has ended without a report.
DaemonReads(n) ==
    /\ nodes[n] # "absent"
    /\ sets[n].live /\ ~sets[n].deleting /\ sets[n].finalizer
    /\ seen[n] # sets[n]
    /\ seen' = [seen EXCEPT ![n] = sets[n]]
    /\ UNCHANGED <<objectVars, nodes, controllerVars, has, faults, boundVars>>

\* Apply of the status; it fails when the object is gone.
DaemonReports(n, available) ==
    /\ seen[n].live /\ sets[n].live
    /\ DaemonWrites(n, [sets[n] EXCEPT !.observed = seen[n].generation,
                                       !.available = available,
                                       !.statuses = Cardinality(seen[n].images)])
    /\ seen' = [seen EXCEPT ![n] = NoNodeImageSet]

\* All images are there: pulled, by the kubelet perhaps, or left from before.
DaemonCompletes(n) ==
    /\ DaemonReports(n, TRUE)
    /\ has' = [has EXCEPT ![n] = @ \cup seen[n].images]
    /\ UNCHANGED faults

\* The first report about a generation finds images missing.
DaemonBegins(n) ==
    /\ seen[n].observed < seen[n].generation
    /\ DaemonReports(n, FALSE)
    /\ UNCHANGED <<has, faults>>

\* A pull fails, or images are evicted after they have been reported.
DaemonFallsBack(n) ==
    /\ CallFails
    /\ seen[n].available
    /\ DaemonReports(n, FALSE)
    /\ UNCHANGED has

DaemonFinalizes(n) ==
    /\ sets[n].live /\ sets[n].deleting /\ sets[n].finalizer
    /\ DaemonWrites(n, NoNodeImageSet)
    /\ seen' = [seen EXCEPT ![n] = NoNodeImageSet]
    /\ UNCHANGED <<has, faults>>

DaemonStep(n) == \/ DaemonAdopts(n) \/ DaemonReads(n) \/ DaemonCompletes(n)
                 \/ DaemonBegins(n) \/ DaemonFallsBack(n) \/ DaemonFinalizes(n)

-----------------------------------------------------------------------------
(***************************************************************************)
(* Users, nodes and restarts.                                              *)
(***************************************************************************)

Edit(obj) ==
    /\ edits < MaxEdits
    /\ edits' = edits + 1
    /\ prefetch' = obj
    /\ UNCHANGED <<prefetchCache, sets, setsCache, nodes, controllerVars, seen, has, faults,
                   nodeEvents, restarts>>

\* The admission policy: allNodes or a positive number of replicas.
Wishes == {<<TRUE, 0>>} \cup {<<FALSE, r>> : r \in 1..MaxReplicas}

CreatePrefetch ==
    /\ ~prefetch.live
    /\ \E images \in ImageLists, wish \in Wishes :
          Edit([NoPrefetch EXCEPT !.live = TRUE, !.uid = edits + 1, !.generation = 1,
                                  !.images = images, !.allNodes = wish[1],
                                  !.replicas = wish[2]])

UpdatePrefetch ==
    /\ prefetch.live /\ ~prefetch.deleting
    /\ \E images \in ImageLists, wish \in Wishes :
          /\ <<images, wish>> # <<prefetch.images, <<prefetch.allNodes, prefetch.replicas>>>>
          /\ Edit([prefetch EXCEPT !.images = images, !.allNodes = wish[1],
                                   !.replicas = wish[2], !.generation = @ + 1])

DeletePrefetch ==
    /\ prefetch.live /\ ~prefetch.deleting
    /\ Edit(IF prefetch.finalizer
            THEN [prefetch EXCEPT !.deleting = TRUE, !.generation = @ + 1]
            ELSE NoPrefetch)

NodeEvent(n) ==
    /\ nodeEvents < MaxNodeEvents
    /\ nodeEvents' = nodeEvents + 1
    /\ \E status \in {"absent", "notReady", "ready"} :
          /\ NodeChanges(n, status)
          /\ seen' = [seen EXCEPT ![n] = IF status = "absent" THEN NoNodeImageSet ELSE @]
    /\ UNCHANGED <<gcVars, has, edits, restarts>>

\* The process ends, or another replica takes the lead: the informers list all
\* objects anew.
Restart ==
    /\ restarts < MaxRestarts
    /\ restarts' = restarts + 1
    /\ prefetchCache' = prefetch /\ setsCache' = sets
    /\ queued' = prefetch.live
    /\ recPc' = "idle" /\ recObj' = NoPrefetch
    /\ recSelected' = {} /\ recApplied' = {} /\ recLimit' = 0
    /\ recSurplus' = {} /\ recReady' = FALSE
    /\ CollectorStops
    /\ UNCHANGED <<prefetch, sets, nodes, seen, has, faults, edits, nodeEvents>>

Environment == \/ CreatePrefetch \/ UpdatePrefetch \/ DeletePrefetch
               \/ \E n \in Nodes : NodeEvent(n)
               \/ Restart

-----------------------------------------------------------------------------
Rests == UNCHANGED <<seen, has, boundVars>>

Starts     == StartReconcile /\ UNCHANGED gcVars /\ Rests
Reconciles == ReconcileStep /\ UNCHANGED gcVars /\ Rests
Collects   == CollectorStep /\ Rests
Syncs      == PrefetchSync /\ UNCHANGED gcVars /\ Rests
SetSyncs(n) == NodeImageSetSync(n) /\ UNCHANGED gcVars /\ Rests

Next ==
    \/ Starts
    \/ Reconciles
    \/ Collects
    \/ Syncs
    \/ \E n \in Nodes : SetSyncs(n) \/ DaemonStep(n)
    \/ Environment

Spec == Init /\ [][Next]_vars

(***************************************************************************)
(* The worker, the collector's ticker and the informers go on; so does the *)
(* daemon of each node that exists.  A pull succeeds in the end, though    *)
(* failures may come first, if the upstream registry or a node that has    *)
(* had the images can supply them.                                         *)
(***************************************************************************)
Supplied(n) ==
    \/ seen[n].policy = "Default"
    \/ seen[n].images \subseteq UNION {has[m] : m \in Nodes}

Fairness ==
    /\ WF_vars(Starts) /\ WF_vars(Reconciles) /\ WF_vars(Collects) /\ WF_vars(Syncs)
    /\ \A n \in Nodes :
          /\ WF_vars(SetSyncs(n))
          /\ WF_vars(DaemonAdopts(n)) /\ WF_vars(DaemonReads(n)) /\ WF_vars(DaemonFinalizes(n))
          /\ SF_vars(Supplied(n) /\ DaemonCompletes(n))

FairSpec == Spec /\ Fairness

-----------------------------------------------------------------------------
(***************************************************************************)
(* Safety.                                                                 *)
(***************************************************************************)

\* The nodes that have had every image of the ImagePrefetch Reconcile read.
Served == {n \in Nodes : recObj.images \subseteq has[n]}

(***************************************************************************)
(* Ready is reported only when at least as many nodes as are selected have *)
(* reported every image of the spec it is reported for: a status of an     *)
(* earlier spec of a NodeImageSet, still there while the daemon has not    *)
(* looked at the new one, is not taken for the new one.                    *)
(***************************************************************************)
ReadyEarned ==
    recPc = "report" /\ recReady => Cardinality(Served) >= Cardinality(recSelected)

(***************************************************************************)
(* Ready means "All nodes have the desired image": each selected node has  *)
(* reported every image of the spec Ready is reported for.                 *)
(***************************************************************************)
ReadyMeansAllNodes == recPc = "report" /\ recReady => recSelected \subseteq Served

\* Ready nodes to which the current spec has been applied and that have not
\* yet reported it complete.
InRollout ==
    {n \in Nodes : /\ nodes[n] = "ready" /\ sets[n].live /\ ~sets[n].deleting
                   /\ sets[n].prefetchGeneration = prefetch.generation
                   /\ ~(sets[n].images \subseteq has[n])}

(***************************************************************************)
(* At most MaxConcurrentNodeImageSetCreations nodes work on the current    *)
(* spec at a time.                                                         *)
(***************************************************************************)
RolloutLimit == Cardinality(InRollout) <= MaxConcurrentNodeImageSetCreations

(***************************************************************************)
(* When the ImagePrefetch is gone every NodeImageSet of it is gone or      *)
(* being deleted: no reconcile that began before the deletion creates one  *)
(* that nobody owns.                                                       *)
(***************************************************************************)
NoOrphans == ~prefetch.live => \A n \in Nodes : sets[n].live => sets[n].deleting

\* A reconcile is in progress or to come.
WillReconcile ==
    \/ recPc # "idle" \/ queued
    \/ prefetchCache # prefetch
    \/ \E n \in Nodes : Notifies(n)

\* The reported selection cannot stay as it is.
Outdated ==
    \/ \E n \in prefetch.selected : nodes[n] # "ready"
    \/ prefetch.allNodes /\ prefetch.selected # ReadyNodes

(***************************************************************************)
(* An ImagePrefetch that is being deleted, not ready, or whose selection   *)
(* contains a node that is not ready, or misses a node of all, has a       *)
(* reconcile in progress or to come.  One that is ready is not requeued:   *)
(* only watch events bring it back.                                        *)
(***************************************************************************)
Attended ==
    /\ prefetch.live
    /\ prefetch.deleting \/ ~prefetch.ready \/ prefetch.observed # prefetch.generation
       \/ Outdated
    => WillReconcile

\* Node n has the NodeImageSet that the reported selection asks for.
InPlace(n) ==
    /\ sets[n].live /\ ~sets[n].deleting
    /\ sets[n].images = prefetch.images
    /\ sets[n].policy = registryPolicy(Position(n, prefetch.selected))

(***************************************************************************)
(* When no reconcile is in progress or to come, each selected node has a   *)
(* NodeImageSet with the images of the ImagePrefetch, and only the first   *)
(* ImagePullNodeLimit of them may fetch an evicted image from the upstream *)
(* registry: one that the collector deletes for a node that is back        *)
(* already is created again, and nodes that kept access to the upstream    *)
(* registry when others came in front of them lose it.                     *)
(***************************************************************************)
SelectedServed ==
    prefetch.live /\ ~WillReconcile => \A n \in prefetch.selected : InPlace(n)

(***************************************************************************)
(* When no reconcile is in progress or to come, each selected node has had *)
(* the images of the ImagePrefetch: though Ready may be reported too early *)
(* (ReadyMeansAllNodes), it does not stay so.                              *)
(***************************************************************************)
ReadyAtRest ==
    prefetch.live /\ ~WillReconcile =>
        \A n \in prefetch.selected : prefetch.images \subseteq has[n]

-----------------------------------------------------------------------------
(***************************************************************************)
(* Liveness.                                                               *)
(***************************************************************************)

\* The status tells of a finished rollout.
RolledOut ==
    /\ prefetch.ready /\ prefetch.observed = prefetch.generation
    /\ prefetch.selected \subseteq ReadyNodes
    /\ \A n \in Nodes :
          IF n \in prefetch.selected
          THEN InPlace(n) /\ prefetch.images \subseteq has[n]
          ELSE ~sets[n].live

(***************************************************************************)
(* Once users and nodes are quiet, and if there are nodes enough, every    *)
(* selected node gets the images, other nodes lose their NodeImageSet, and *)
(* the status says so and stays so.  Not from every state: when there are  *)
(* more ready nodes than replicas, a cache that is one status behind at    *)
(* each reconcile, for ever, lets two selections undo each other.          *)
(***************************************************************************)
RolloutSettles ==
    <>[](/\ prefetch.live /\ ~prefetch.deleting
         /\ prefetch.allNodes \/ Cardinality(ReadyNodes) >= prefetch.replicas
         => RolledOut)

(***************************************************************************)
(* A deleted ImagePrefetch goes away, and all its NodeImageSets with it,   *)
(* those of nodes that no longer exist included.                           *)
(***************************************************************************)
CleanedUp ==
    /\ prefetch.deleting ~> ~prefetch.deleting
    /\ <>[](~prefetch.live => \A n \in Nodes : ~sets[n].live)

=============================================================================
