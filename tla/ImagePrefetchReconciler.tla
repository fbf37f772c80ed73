----------------------- MODULE ImagePrefetchReconciler -----------------------
(***************************************************************************)
(* internal/controller/imageprefetch_controller.go: the reconciler of one  *)
(* ImagePrefetch, which owns one NodeImageSet for each selected node.      *)
(* ImagePrefetches share nothing: a NodeImageSet is named after its        *)
(* ImagePrefetch and its node, and is identified here by its node.         *)
(*                                                                         *)
(* One worker.  Gets and Lists read the informer caches, which trail the   *)
(* API server; Nodes are read through the cache only, so that nodes is     *)
(* what the cache holds.  A request that waits for its back-off or for     *)
(* RequeueAfter counts as queued.  Of the ImagePrefetch status the model   *)
(* keeps the observed generation, the selected nodes and the Ready         *)
(* condition; of the NodeImageSet status the observed generation, the      *)
(* condition ImageAvailable and the number of containerImageStatuses.      *)
(***************************************************************************)
EXTENDS NodeSelection

CONSTANTS
    Images,                              \* image references
    ImagePullNodeLimit,                  \* --image-pull-node-limit
    MaxConcurrentNodeImageSetCreations,  \* --max-concurrent-nodeimageset-creations
    MaxReplicas,                         \* bound: replicas users ask for
    MaxFaults                            \* bound: calls to the API that fail

ASSUME ImagesAssumption == IsFiniteSet(Images)
ASSUME LimitsAssumption ==
    /\ ImagePullNodeLimit \in Nat
    /\ MaxConcurrentNodeImageSetCreations \in Nat
    /\ MaxReplicas \in Nat
    /\ MaxFaults \in Nat

Prefetch == [live : BOOLEAN, uid : Nat, generation : Nat, images : SUBSET Images,
             allNodes : BOOLEAN, replicas : 0..MaxReplicas,
             deleting : BOOLEAN, finalizer : BOOLEAN,
             observed : Nat, selected : SUBSET Nodes, ready : BOOLEAN]

NoPrefetch == [live |-> FALSE, uid |-> 0, generation |-> 0, images |-> {},
               allNodes |-> FALSE, replicas |-> 0,
               deleting |-> FALSE, finalizer |-> FALSE,
               observed |-> 0, selected |-> {}, ready |-> FALSE]

NodeImageSet == [live : BOOLEAN, generation : Nat, images : SUBSET Images,
                 policy : {"Default", "MirrorOnly", "None"}, prefetchGeneration : Nat,
                 deleting : BOOLEAN, finalizer : BOOLEAN,
                 observed : Nat, available : BOOLEAN, statuses : Nat]

NoNodeImageSet == [live |-> FALSE, generation |-> 0, images |-> {},
                   policy |-> "None", prefetchGeneration |-> 0,
                   deleting |-> FALSE, finalizer |-> FALSE,
                   observed |-> 0, available |-> FALSE, statuses |-> 0]

VARIABLES
    prefetch,       \* the ImagePrefetch in the API server (external)
    prefetchCache,  \* the ImagePrefetch in the informer cache (external)
    sets,           \* [Nodes -> NodeImageSet]: NodeImageSets in the API server (external)
    setsCache,      \* [Nodes -> NodeImageSet]: in the informer cache (external)
    nodes,          \* [Nodes -> {"absent", "notReady", "ready"}]: Nodes in the cache (external)
    queued,         \* the ImagePrefetch is in the controller's work queue (external)
    recPc,          \* where Reconcile is
    recObj,         \* the ImagePrefetch it read
    recSelected,    \* selectNodes
    recApplied,     \* those whose NodeImageSet it has applied
    recLimit,       \* maxNodeImageSetsToProcess
    recSurplus,     \* NodeImageSets it has still to delete
    recReady,       \* availableNodes = desiredNodes
    faults          \* calls that failed so far

objectVars == <<prefetch, prefetchCache, sets, setsCache>>
recVars == <<recPc, recObj, recSelected, recApplied, recLimit, recSurplus, recReady>>

RecPcs == {"idle", "deleteAll", "removeFinalizer", "addFinalizer", "list", "apply",
           "surplus", "report"}

ReconcilerTypeOK ==
    /\ prefetch \in Prefetch /\ prefetchCache \in Prefetch
    /\ sets \in [Nodes -> NodeImageSet] /\ setsCache \in [Nodes -> NodeImageSet]
    /\ nodes \in [Nodes -> {"absent", "notReady", "ready"}]
    /\ queued \in BOOLEAN
    /\ recPc \in RecPcs
    /\ recObj \in Prefetch
    /\ recSelected \in SUBSET Nodes
    /\ recApplied \in SUBSET recSelected
    /\ recLimit \in Nat
    /\ recSurplus \in SUBSET Nodes
    /\ recReady \in BOOLEAN
    /\ faults \in 0..MaxFaults

Idle == /\ recPc = "idle" /\ recObj = NoPrefetch
        /\ recSelected = {} /\ recApplied = {} /\ recLimit = 0
        /\ recSurplus = {} /\ recReady = FALSE

\* A call to the API server that returns an error.
CallFails == faults < MaxFaults /\ faults' = faults + 1

-----------------------------------------------------------------------------
(***************************************************************************)
(* The steps of a NodeImageSet in the API server.                          *)
(***************************************************************************)

\* Delete: an object without finalizer goes away at once.
Deleted(set) ==
    IF ~set.live \/ set.deleting THEN set
    ELSE IF set.finalizer
         THEN [set EXCEPT !.deleting = TRUE, !.generation = @ + 1]
         ELSE NoNodeImageSet

SpecOf(set) == <<set.images, set.policy, set.prefetchGeneration>>

\* Server-side Apply of labels and spec: creates, or changes the spec.
Applied(set, images, policy, generation) ==
    LET new == [set EXCEPT !.images = images, !.policy = policy,
                           !.prefetchGeneration = generation, !.live = TRUE]
    IN  IF set.live /\ SpecOf(new) = SpecOf(set) THEN set
        ELSE [new EXCEPT !.generation = @ + 1]

-----------------------------------------------------------------------------
(***************************************************************************)
(* Reconcile.                                                              *)
(***************************************************************************)

ReadyNodes == {n \in Nodes : nodes[n] = "ready"}

\* Reconcile returns; the request is queued again when again is true.
Finish(again) ==
    /\ recPc' = "idle" /\ recObj' = NoPrefetch
    /\ recSelected' = {} /\ recApplied' = {} /\ recLimit' = 0
    /\ recSurplus' = {} /\ recReady' = FALSE
    /\ queued' = (queued \/ again)

Goto(pc) ==
    /\ recPc' = pc
    /\ UNCHANGED <<queued, recObj, recSelected, recApplied, recLimit, recSurplus, recReady>>

\* Get, the tests of deletion and finalizer, and selectTargetNodes.  When that
\* returns an error the request goes back to the queue and nothing changes.
StartReconcile ==
    /\ recPc = "idle" /\ queued
    /\ LET obj == prefetchCache
           results == selectTargetNodes(obj, ReadyNodes)
           Begin(pc) == recPc' = pc /\ recObj' = obj /\ queued' = FALSE
       IN  \/ /\ ~obj.live \/ (obj.deleting /\ ~obj.finalizer)
              /\ queued' = FALSE /\ UNCHANGED <<recPc, recObj, recSelected>>
           \/ /\ obj.deleting /\ obj.finalizer
              /\ Begin("deleteAll") /\ UNCHANGED recSelected
           \/ /\ obj.live /\ ~obj.deleting /\ ~obj.finalizer
              /\ Begin("addFinalizer") /\ UNCHANGED recSelected
           \/ /\ obj.live /\ ~obj.deleting /\ obj.finalizer
              /\ recSelected' \in results
              /\ Begin("list")
    /\ UNCHANGED <<objectVars, nodes, recApplied, recLimit, recSurplus, recReady, faults>>

\* r.Update: accepted when the object is still the one that was read.
Update(obj) == prefetch = recObj /\ prefetch' = obj

AddFinalizer ==
    /\ recPc = "addFinalizer"
    /\ \/ Update([recObj EXCEPT !.finalizer = TRUE]) /\ UNCHANGED faults
       \/ prefetch # recObj /\ UNCHANGED <<prefetch, faults>>
       \/ CallFails /\ UNCHANGED prefetch
    /\ Finish(TRUE)
    /\ UNCHANGED <<prefetchCache, sets, setsCache, nodes>>

-----------------------------------------------------------------------------
(***************************************************************************)
(* finalize.                                                               *)
(***************************************************************************)

\* Mutant: the NodeImageSets to delete are listed from the cache.
DeleteAllCached ==
    /\ recPc = "deleteAll"
    /\ sets' = [n \in Nodes |-> IF setsCache[n].live THEN Deleted(sets[n]) ELSE sets[n]]
    /\ Goto("removeFinalizer")
    /\ UNCHANGED <<prefetch, prefetchCache, setsCache, nodes, faults>>

\* DeleteAllOf is carried out by the API server; an error may come after some
\* of the objects.
DeleteAllOf ==
    /\ recPc = "deleteAll"
    /\ \/ /\ sets' = [n \in Nodes |-> Deleted(sets[n])]
          /\ Goto("removeFinalizer")
          /\ UNCHANGED faults
       \/ \E some \in SUBSET Nodes :
             /\ CallFails
             /\ sets' = [n \in Nodes |-> IF n \in some THEN Deleted(sets[n]) ELSE sets[n]]
             /\ Finish(TRUE)
    /\ UNCHANGED <<prefetch, prefetchCache, setsCache, nodes>>

RemoveFinalizer ==
    /\ recPc = "removeFinalizer"
    /\ \/ Update(NoPrefetch) /\ Finish(FALSE) /\ UNCHANGED faults
       \/ prefetch # recObj /\ Finish(TRUE) /\ UNCHANGED <<prefetch, faults>>
       \/ CallFails /\ Finish(TRUE) /\ UNCHANGED prefetch
    /\ UNCHANGED <<prefetchCache, sets, setsCache, nodes>>

-----------------------------------------------------------------------------
(***************************************************************************)
(* createOrUpdateNodeImageSet.                                             *)
(***************************************************************************)

\* Mutant: any NodeImageSet of this generation counts.
OfGeneration(set) == set.live /\ set.prefetchGeneration = recObj.generation

\* What getMaxNodeImageSetsToCreate counts as ready.
Pulled(set) ==
    /\ set.live /\ set.available
    /\ set.prefetchGeneration = recObj.generation
    /\ Cardinality(set.images) = set.statuses

getMaxNodeImageSetsToCreate ==
    LET ready   == Cardinality({n \in Nodes : Pulled(setsCache[n])})
        desired == Cardinality(recSelected)
    IN  IF ready < desired THEN ready + MaxConcurrentNodeImageSetCreations ELSE desired

ListNodeImageSets ==
    /\ recPc = "list"
    /\ recPc' = "apply"
    /\ recLimit' = getMaxNodeImageSetsToCreate
    /\ UNCHANGED <<objectVars, nodes, queued, recObj, recSelected, recApplied, recSurplus,
                   recReady, faults>>

\* The registry policy of the i-th selected node, counted from 0.
registryPolicy(i) == IF i < ImagePullNodeLimit THEN "Default" ELSE "MirrorOnly"

\* Mutant: the loop is over all nodes that exist.
ApplyNodeImageSetAnywhere ==
    /\ recPc = "apply"
    /\ LET i == Cardinality(recApplied) IN
       /\ i < recLimit
       /\ \E n \in {m \in Nodes : nodes[m] # "absent"} :
             /\ Position(n, {m \in Nodes : nodes[m] # "absent"}) = i
             /\ \/ /\ sets' = [sets EXCEPT ![n] =
                              Applied(@, recObj.images, registryPolicy(i), recObj.generation)]
                   /\ recApplied' = recApplied \cup {n}
                   /\ UNCHANGED <<queued, recPc, recObj, recSelected, recLimit, recSurplus,
                                  recReady, faults>>
                \/ CallFails /\ Finish(TRUE) /\ UNCHANGED sets
    /\ UNCHANGED <<prefetch, prefetchCache, setsCache, nodes>>

\* One round of the loop over the selected nodes in the order of their names.
ApplyNodeImageSet ==
    /\ recPc = "apply"
    /\ LET i == Cardinality(recApplied) IN
       /\ i < recLimit
       /\ \E n \in recSelected :
             /\ Position(n, recSelected) = i
             /\ \/ /\ sets' = [sets EXCEPT ![n] =
                              Applied(@, recObj.images, registryPolicy(i), recObj.generation)]
                   /\ recApplied' = recApplied \cup {n}
                   /\ UNCHANGED <<queued, recPc, recObj, recSelected, recLimit, recSurplus,
                                  recReady, faults>>
                \/ CallFails /\ Finish(TRUE) /\ UNCHANGED sets
    /\ UNCHANGED <<prefetch, prefetchCache, setsCache, nodes>>

\* Mutant: terminating NodeImageSets are the only surplus.
NoSurplus == {}

\* NodeImageSets of other nodes than the selected ones, in the cache.
Surplus == {n \in Nodes \ recSelected : setsCache[n].live}

\* The loop is through: the second List.
ListSurplus ==
    /\ recPc = "apply" /\ recApplied = recSelected
    /\ recPc' = "surplus"
    /\ recSurplus' = Surplus
    /\ UNCHANGED <<objectVars, nodes, queued, recObj, recSelected, recApplied, recLimit,
                   recReady, faults>>

DeleteSurplus ==
    /\ recPc = "surplus"
    /\ \E n \in recSurplus :
          \/ /\ sets' = [sets EXCEPT ![n] = Deleted(@)]
             /\ recSurplus' = recSurplus \ {n}
             /\ UNCHANGED <<queued, recPc, recObj, recSelected, recApplied, recLimit,
                            recReady, faults>>
          \/ CallFails /\ Finish(TRUE) /\ UNCHANGED sets
    /\ UNCHANGED <<prefetch, prefetchCache, setsCache, nodes>>

-----------------------------------------------------------------------------
(***************************************************************************)
(* updateStatus.                                                           *)
(***************************************************************************)

\* Mutant: the status of an earlier spec counts.
AnyObserved(set) ==
    /\ set.live /\ set.available
    /\ set.prefetchGeneration = recObj.generation

\* What calculateStatus counts as available.
Available(set) ==
    /\ set.live /\ set.available
    /\ set.prefetchGeneration = recObj.generation
    /\ set.generation = set.observed

calculateStatus == Cardinality({n \in Nodes : Available(setsCache[n])})

\* createOrUpdateNodeImageSet is through, or returned early at the limit; List
\* and calculateStatus.
CountNodeImageSets ==
    /\ \/ recPc = "surplus" /\ recSurplus = {}
       \/ /\ recPc = "apply" /\ recApplied # recSelected
          /\ Cardinality(recApplied) >= recLimit
    /\ recPc' = "report"
    /\ recReady' = (calculateStatus = Cardinality(recSelected))
    /\ UNCHANGED <<objectVars, nodes, queued, recObj, recSelected, recApplied, recLimit,
                   recSurplus, faults>>

\* The Apply of the status; RequeueAfter unless ready.
ReportStatus ==
    /\ recPc = "report"
    /\ \/ /\ prefetch.live
          /\ prefetch' = [prefetch EXCEPT !.observed = recObj.generation,
                                          !.selected = recSelected, !.ready = recReady]
          /\ Finish(~recReady)
          /\ UNCHANGED faults
       \/ ~prefetch.live /\ Finish(TRUE) /\ UNCHANGED <<prefetch, faults>>
       \/ CallFails /\ Finish(TRUE) /\ UNCHANGED prefetch
    /\ UNCHANGED <<prefetchCache, sets, setsCache, nodes>>

ReconcileStep == \/ AddFinalizer \/ DeleteAllOf \/ RemoveFinalizer
                 \/ ListNodeImageSets \/ ApplyNodeImageSet
                 \/ ListSurplus \/ DeleteSurplus
                 \/ CountNodeImageSets \/ ReportStatus

-----------------------------------------------------------------------------
(***************************************************************************)
(* SetupWithManager: what queues a request.                                *)
(***************************************************************************)

\* For(&ImagePrefetch{}).
PrefetchSync ==
    /\ prefetchCache # prefetch
    /\ prefetchCache' = prefetch
    /\ queued' = TRUE
    /\ UNCHANGED <<prefetch, sets, setsCache, nodes, recVars, faults>>

\* A NodeImageSet that nothing has been written to since its creation.
Fresh(set) ==
    set.generation = 1 /\ ~set.deleting /\ ~set.finalizer /\ set.observed = 0

\* Mutant: deletions of NodeImageSets are not watched.
NotifiesUpdates(n) == setsCache[n] # sets[n] /\ setsCache[n].live /\ sets[n].live

\* Watches(&NodeImageSet{}): updates and deletions, not creations.
Notifies(n) == setsCache[n] # sets[n] /\ (setsCache[n].live \/ ~Fresh(sets[n]))

NodeImageSetSync(n) ==
    /\ setsCache[n] # sets[n]
    /\ setsCache' = [setsCache EXCEPT ![n] = sets[n]]
    /\ queued' = (queued \/ Notifies(n))
    /\ UNCHANGED <<prefetch, prefetchCache, sets, nodes, recVars, faults>>

\* Mutant: nodes are not watched for ImagePrefetches for all nodes.
ConcernsSelected(n) == prefetchCache.live /\ n \in prefetchCache.selected

\* nodeHandler: the ImagePrefetch in the cache is for all nodes (the model's nodes
\* are those that match its selector) or has selected the node.
Concerns(n) ==
    prefetchCache.live /\ (prefetchCache.allNodes \/ n \in prefetchCache.selected)

\* Watches(&Node{}): nodes that come, go, or change their readiness.
NodeChanges(n, status) ==
    /\ nodes[n] # status
    /\ nodes' = [nodes EXCEPT ![n] = status]
    /\ queued' = (queued \/ Concerns(n))
    /\ UNCHANGED <<objectVars, recVars, faults>>

=============================================================================
