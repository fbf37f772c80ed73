-------------------- MODULE NodeImageSetGarbageCollector --------------------
(***************************************************************************)
(* internal/controller/garbage_collector.go: on a timer, remove the        *)
(* NodeImageSets of nodes that do not exist, their finalizers first, since *)
(* no daemon is left to remove them.  Runs in the process of the           *)
(* ImagePrefetch controller and shares its caches.                         *)
(***************************************************************************)
EXTENDS ImagePrefetchReconciler

VARIABLES
    gcPc,     \* where deleteNodeImageSet is
    gcStale,  \* nodes whose NodeImageSet is still to be deleted
    gcNode,   \* the one it works on
    gcObj     \* the NodeImageSet it read

gcVars == <<gcPc, gcStale, gcNode, gcObj>>

CollectorTypeOK ==
    /\ gcPc \in {"idle", "get", "update", "delete"}
    /\ gcStale \in SUBSET Nodes
    /\ gcNode \in Nodes \cup {0}
    /\ gcObj \in NodeImageSet

CollectorIdle == gcPc = "idle" /\ gcStale = {} /\ gcNode = 0 /\ gcObj = NoNodeImageSet

\* The run ends, at its end or with an error.
CollectorStops == gcPc' = "idle" /\ gcStale' = {} /\ gcNode' = 0 /\ gcObj' = NoNodeImageSet

Elsewhere == UNCHANGED <<prefetch, prefetchCache, setsCache, nodes, queued, recVars>>

Stale == {n \in Nodes : setsCache[n].live /\ nodes[n] = "absent"}

\* The two Lists of removeStaleNodeImageSets; a NodeImageSet that comes or goes
\* between them makes no difference to this run.  A run that finds nothing
\* stale changes nothing.
CollectorLists ==
    /\ gcPc = "idle" /\ Stale # {}
    /\ gcPc' = "get"
    /\ gcStale' = Stale
    /\ UNCHANGED <<gcNode, gcObj, sets, faults>> /\ Elsewhere

\* Mutant: the finalizer is left to the daemon.
CollectorSkipsFinalizer ==
    /\ gcPc = "get"
    /\ \E n \in IF gcNode = 0 THEN gcStale ELSE {gcNode} :
          /\ gcNode' = n
          /\ gcStale' = gcStale \ {n}
          /\ gcObj' = setsCache[n]
          /\ gcPc' = "delete"
    /\ UNCHANGED <<sets, faults>> /\ Elsewhere

\* deleteNodeImageSet: the Get, from the cache, and the test of the finalizer.
CollectorGets ==
    /\ gcPc = "get"
    /\ \E n \in IF gcNode = 0 THEN gcStale ELSE {gcNode} :
          /\ gcNode' = n
          /\ gcStale' = gcStale \ {n}
          /\ gcObj' = setsCache[n]
          /\ gcPc' = IF setsCache[n].live /\ setsCache[n].finalizer THEN "update" ELSE "delete"
    /\ UNCHANGED <<sets, faults>> /\ Elsewhere

\* The Update without finalizer: on a conflict RetryOnConflict gets the object
\* again or gives up.
CollectorUpdates ==
    /\ gcPc = "update"
    /\ \/ /\ sets[gcNode] = gcObj
          /\ sets' = [sets EXCEPT ![gcNode] = IF @.deleting THEN NoNodeImageSet
                                              ELSE [@ EXCEPT !.finalizer = FALSE]]
          /\ gcPc' = "delete"
          /\ UNCHANGED <<gcStale, gcNode, gcObj, faults>>
       \/ /\ sets[gcNode] # gcObj
          /\ gcPc' = "get"
          /\ UNCHANGED <<sets, gcStale, gcNode, gcObj, faults>>
       \/ /\ sets[gcNode] # gcObj
          /\ CollectorStops
          /\ UNCHANGED <<sets, faults>>
       \/ /\ CallFails
          /\ CollectorStops
          /\ UNCHANGED sets
    /\ Elsewhere

\* The Delete; on to the next one.
CollectorDeletes ==
    /\ gcPc = "delete"
    /\ \/ /\ sets' = [sets EXCEPT ![gcNode] = Deleted(@)]
          /\ IF gcStale = {} THEN CollectorStops
             ELSE gcPc' = "get" /\ gcNode' = 0 /\ gcObj' = NoNodeImageSet /\ UNCHANGED gcStale
          /\ UNCHANGED faults
       \/ /\ CallFails
          /\ CollectorStops
          /\ UNCHANGED sets
    /\ Elsewhere

CollectorStep == \/ CollectorLists \/ CollectorGets
                 \/ CollectorUpdates \/ CollectorDeletes

=============================================================================
