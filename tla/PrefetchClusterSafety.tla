------------------------ MODULE PrefetchClusterSafety ------------------------
(***************************************************************************)
(* PrefetchCluster is type-correct; no NodeImageSet outlives its           *)
(* ImagePrefetch unnoticed; and no ImagePrefetch that has something left   *)
(* to do is forgotten by the controller's queue: for any nodes, images and *)
(* bounds.                                                                 *)
(***************************************************************************)
EXTENDS PrefetchCluster, NodeSelectionProofs

(***************************************************************************)
(* Types.                                                                  *)
(***************************************************************************)

LEMMA EmptyTypes == NoPrefetch \in Prefetch /\ NoNodeImageSet \in NodeImageSet
  BY LimitsAssumption DEF NoPrefetch, Prefetch, NoNodeImageSet, NodeImageSet

LEMMA StatusesType ==
  ASSUME NEW S \in SUBSET Images
  PROVE  Cardinality(S) \in Nat
  BY ImagesAssumption, FS_Subset, FS_CardinalityType

(***************************************************************************)
(* The operations on a NodeImageSet.                                       *)
(***************************************************************************)

LEMMA FinalizerType ==
  ASSUME NEW set \in NodeImageSet, NEW finalizer \in BOOLEAN
  PROVE  [set EXCEPT !.finalizer = finalizer] \in NodeImageSet
  BY DEF NodeImageSet

LEMMA ReportedType ==
  ASSUME NEW set \in NodeImageSet, NEW generation \in Nat, NEW available \in BOOLEAN,
         NEW statuses \in Nat
  PROVE  [set EXCEPT !.observed = generation, !.available = available,
                     !.statuses = statuses] \in NodeImageSet
  BY DEF NodeImageSet

LEMMA DeletedType ==
  ASSUME NEW set \in NodeImageSet
  PROVE  Deleted(set) \in NodeImageSet
  <1>1. set.generation + 1 \in Nat
    BY DEF NodeImageSet
  <1>2. [set EXCEPT !.deleting = TRUE, !.generation = set.generation + 1] \in NodeImageSet
    BY <1>1 DEF NodeImageSet
  <1> QED
    BY <1>2, EmptyTypes DEF Deleted

LEMMA AppliedType ==
  ASSUME NEW set \in NodeImageSet, NEW images \in SUBSET Images,
         NEW policy \in {"Default", "MirrorOnly"}, NEW generation \in Nat
  PROVE  Applied(set, images, policy, generation) \in NodeImageSet
  <1> DEFINE new == [set EXCEPT !.images = images, !.policy = policy,
                                !.prefetchGeneration = generation, !.live = TRUE]
  <1>1. new \in NodeImageSet
    BY DEF NodeImageSet
  <1>2. new.generation + 1 \in Nat
    BY <1>1 DEF NodeImageSet
  <1>3. [new EXCEPT !.generation = new.generation + 1] \in NodeImageSet
    <2> HIDE DEF new
    <2> QED
      BY <1>1, <1>2 DEF NodeImageSet
  <1> QED
    BY <1>3 DEF Applied

LEMMA SelectionType ==
  ASSUME NEW obj \in Prefetch, NEW ready \in SUBSET Nodes,
         NEW selected \in selectTargetNodes(obj, ready)
  PROVE  selected \in SUBSET Nodes
  <1>1. ASSUME selected \in selectNodesByReplicas(obj.selected, ready, obj.replicas)
        PROVE  selected \in SUBSET Nodes
    BY <1>1, SelectionReady
  <1>2. obj.selected \in SUBSET Nodes
    BY DEF Prefetch
  <1> QED
    BY <1>1, <1>2 DEF selectTargetNodes

(***************************************************************************)
(* The invariant: a reconcile starts with no NodeImageSet applied.         *)
(***************************************************************************)

StartsClean == recPc = "idle" => recApplied = {}

TypeInv == TypeOK /\ StartsClean

\* The reconciler's part of it.
RecInv == ReconcilerTypeOK /\ StartsClean

\* The part about the locals of Reconcile.
RecLocalsOK ==
    /\ recPc \in RecPcs
    /\ recObj \in Prefetch
    /\ recSelected \in SUBSET Nodes
    /\ recApplied \in SUBSET recSelected
    /\ recLimit \in Nat
    /\ recSurplus \in SUBSET Nodes
    /\ recReady \in BOOLEAN
    /\ queued \in BOOLEAN
    /\ StartsClean

LEMMA FinishType ==
  ASSUME RecLocalsOK, NEW again \in BOOLEAN, Finish(again)
  PROVE  RecLocalsOK'
  BY EmptyTypes DEF RecLocalsOK, Finish, RecPcs, StartsClean

LEMMA CallFailsType ==
  ASSUME faults \in 0..MaxFaults, CallFails \/ UNCHANGED faults
  PROVE  faults' \in 0..MaxFaults
  BY LimitsAssumption DEF CallFails

LEMMA StartType == RecInv /\ StartReconcile => RecInv'
  <1> SUFFICES ASSUME RecInv, StartReconcile PROVE RecInv'
    OBVIOUS
  <1>1. RecLocalsOK /\ recApplied = {} /\ prefetchCache \in Prefetch
    BY DEF RecInv, ReconcilerTypeOK, StartReconcile, RecLocalsOK, StartsClean
  <1>2. recApplied' = {} /\ recLimit' \in Nat /\ recSurplus' \in SUBSET Nodes /\ recReady' \in BOOLEAN
    BY <1>1 DEF StartReconcile, RecLocalsOK
  <1>3. recPc' \in RecPcs /\ recObj' \in Prefetch /\ queued' \in BOOLEAN
    BY <1>1 DEF StartReconcile, RecLocalsOK, RecPcs
  <1>4. recSelected' \in SUBSET Nodes
    <2>1. ReadyNodes \in SUBSET Nodes
      BY DEF ReadyNodes
    <2>2. \/ recSelected' \in selectTargetNodes(prefetchCache, ReadyNodes)
          \/ recSelected' = recSelected
      BY DEF StartReconcile
    <2> QED
      BY <1>1, <2>1, <2>2, SelectionType DEF RecLocalsOK
  <1>5. RecLocalsOK'
    BY <1>2, <1>3, <1>4 DEF RecLocalsOK, StartsClean
  <1>6. UNCHANGED <<prefetch, prefetchCache, sets, setsCache, nodes, faults>>
    BY DEF StartReconcile, objectVars
  <1> QED
    BY <1>5, <1>6 DEF RecInv, ReconcilerTypeOK, RecLocalsOK

LEMMA ReconcileType == RecInv /\ ReconcileStep => RecInv'
  <1> SUFFICES ASSUME RecInv, ReconcileStep PROVE RecInv'
    OBVIOUS
  <1>t. /\ RecLocalsOK /\ prefetch \in Prefetch /\ sets \in [Nodes -> NodeImageSet]
        /\ faults \in 0..MaxFaults
    BY DEF RecInv, ReconcilerTypeOK, RecLocalsOK
  <1>o. recObj \in Prefetch /\ recSelected \in SUBSET Nodes /\ recApplied \in SUBSET recSelected
    BY <1>t DEF RecLocalsOK
  <1>c. UNCHANGED <<prefetchCache, setsCache, nodes>>
    BY DEF ReconcileStep, AddFinalizer, DeleteAllOf, RemoveFinalizer, ListNodeImageSets,
           ApplyNodeImageSet, ListSurplus, DeleteSurplus, CountNodeImageSets, ReportStatus,
           objectVars
  <1>f. faults' \in 0..MaxFaults
    <2>1. CallFails \/ UNCHANGED faults
      BY DEF ReconcileStep, AddFinalizer, DeleteAllOf, RemoveFinalizer, ListNodeImageSets,
             ApplyNodeImageSet, ListSurplus, DeleteSurplus, CountNodeImageSets, ReportStatus
    <2> QED
      BY <1>t, <2>1, CallFailsType
  <1>1. ASSUME AddFinalizer
        PROVE  RecLocalsOK' /\ prefetch' \in Prefetch /\ sets' \in [Nodes -> NodeImageSet]
    <2>1. [recObj EXCEPT !.finalizer = TRUE] \in Prefetch
      BY <1>o DEF Prefetch
    <2> QED
      BY <1>1, <1>t, <2>1, FinishType DEF AddFinalizer, Update
  <1>2. ASSUME DeleteAllOf
        PROVE  RecLocalsOK' /\ prefetch' \in Prefetch /\ sets' \in [Nodes -> NodeImageSet]
    <2>1. sets' \in [Nodes -> NodeImageSet]
      BY <1>2, <1>t, DeletedType DEF DeleteAllOf
    <2>2. CASE Goto("removeFinalizer")
      BY <1>2, <1>t, <2>1, <2>2 DEF DeleteAllOf, Goto, RecLocalsOK, RecPcs, StartsClean
    <2>3. CASE Finish(TRUE)
      BY <1>2, <1>t, <2>1, <2>3, FinishType DEF DeleteAllOf
    <2> QED
      BY <1>2, <2>2, <2>3 DEF DeleteAllOf
  <1>3. ASSUME RemoveFinalizer
        PROVE  RecLocalsOK' /\ prefetch' \in Prefetch /\ sets' \in [Nodes -> NodeImageSet]
    BY <1>3, <1>t, EmptyTypes, FinishType DEF RemoveFinalizer, Update
  <1>4. ASSUME ListNodeImageSets
        PROVE  RecLocalsOK' /\ prefetch' \in Prefetch /\ sets' \in [Nodes -> NodeImageSet]
    <2>1. Cardinality({n \in Nodes : Pulled(setsCache[n])}) \in Nat
      BY CountType
    <2>2. Cardinality(recSelected) \in Nat
      BY <1>o, CountType
    <2>3. recLimit' \in Nat
      BY <1>4, <2>1, <2>2, LimitsAssumption DEF ListNodeImageSets, getMaxNodeImageSetsToCreate
    <2> QED
      BY <1>4, <1>t, <2>3 DEF ListNodeImageSets, RecLocalsOK, RecPcs, StartsClean, objectVars
  <1>5. ASSUME ApplyNodeImageSet
        PROVE  RecLocalsOK' /\ prefetch' \in Prefetch /\ sets' \in [Nodes -> NodeImageSet]
    <2>1. prefetch' \in Prefetch
      BY <1>5, <1>t DEF ApplyNodeImageSet
    <2>2. PICK n \in recSelected :
             \/ /\ sets' = [sets EXCEPT ![n] =
                              Applied(@, recObj.images, registryPolicy(Cardinality(recApplied)),
                                      recObj.generation)]
                /\ recApplied' = recApplied \cup {n}
                /\ UNCHANGED <<queued, recPc, recObj, recSelected, recLimit, recSurplus, recReady>>
             \/ Finish(TRUE) /\ UNCHANGED sets
      BY <1>5 DEF ApplyNodeImageSet
    <2>3. CASE Finish(TRUE) /\ UNCHANGED sets
      BY <2>1, <2>3, <1>t, FinishType
    <2>4. CASE /\ sets' = [sets EXCEPT ![n] =
                              Applied(@, recObj.images, registryPolicy(Cardinality(recApplied)),
                                      recObj.generation)]
               /\ recApplied' = recApplied \cup {n}
               /\ UNCHANGED <<queued, recPc, recObj, recSelected, recLimit, recSurplus, recReady>>
      <3>1. registryPolicy(Cardinality(recApplied)) \in {"Default", "MirrorOnly"}
        BY DEF registryPolicy
      <3>2. n \in Nodes /\ recObj.images \in SUBSET Images /\ recObj.generation \in Nat
        BY <1>o DEF Prefetch
      <3>3. Applied(sets[n], recObj.images, registryPolicy(Cardinality(recApplied)),
                    recObj.generation) \in NodeImageSet
        BY <3>1, <3>2, <1>t, AppliedType
      <3>4. sets' \in [Nodes -> NodeImageSet]
        BY <2>4, <3>2, <3>3, <1>t
      <3>5. RecLocalsOK'
        BY <1>5, <2>4, <1>t DEF RecLocalsOK, StartsClean, ApplyNodeImageSet
      <3> QED
        BY <2>1, <3>4, <3>5
    <2> QED
      BY <2>2, <2>3, <2>4
  <1>6. ASSUME ListSurplus
        PROVE  RecLocalsOK' /\ prefetch' \in Prefetch /\ sets' \in [Nodes -> NodeImageSet]
    BY <1>6, <1>t DEF ListSurplus, Surplus, RecLocalsOK, RecPcs, StartsClean, objectVars
  <1>7. ASSUME DeleteSurplus
        PROVE  RecLocalsOK' /\ prefetch' \in Prefetch /\ sets' \in [Nodes -> NodeImageSet]
    <2>1. PICK n \in recSurplus :
             \/ /\ sets' = [sets EXCEPT ![n] = Deleted(@)]
                /\ recSurplus' = recSurplus \ {n}
                /\ UNCHANGED <<queued, recPc, recObj, recSelected, recApplied, recLimit, recReady>>
             \/ Finish(TRUE) /\ UNCHANGED sets
      BY <1>7 DEF DeleteSurplus
    <2>2. n \in Nodes /\ Deleted(sets[n]) \in NodeImageSet
      BY <1>t, DeletedType DEF RecLocalsOK
    <2>3. sets' \in [Nodes -> NodeImageSet]
      BY <2>1, <2>2, <1>t
    <2>4. CASE Finish(TRUE)
      BY <2>3, <2>4, <1>7, <1>t, FinishType DEF DeleteSurplus
    <2>5. CASE recSurplus' = recSurplus \ {n}
               /\ UNCHANGED <<queued, recPc, recObj, recSelected, recApplied, recLimit, recReady>>
      BY <2>3, <2>5, <1>7, <1>t DEF DeleteSurplus, RecLocalsOK, StartsClean
    <2> QED
      BY <2>1, <2>4, <2>5
  <1>8. ASSUME CountNodeImageSets
        PROVE  RecLocalsOK' /\ prefetch' \in Prefetch /\ sets' \in [Nodes -> NodeImageSet]
    BY <1>8, <1>t DEF CountNodeImageSets, RecLocalsOK, RecPcs, StartsClean, objectVars
  <1>9. ASSUME ReportStatus
        PROVE  RecLocalsOK' /\ prefetch' \in Prefetch /\ sets' \in [Nodes -> NodeImageSet]
    <2>1. [prefetch EXCEPT !.observed = recObj.generation, !.selected = recSelected,
                           !.ready = recReady] \in Prefetch
      BY <1>t, <1>o DEF Prefetch, RecLocalsOK
    <2>2. \E again \in BOOLEAN : Finish(again)
      BY <1>9, <1>t DEF ReportStatus, RecLocalsOK
    <2> QED
      BY <1>9, <1>t, <2>1, <2>2, FinishType DEF ReportStatus
  <1>10. RecLocalsOK' /\ prefetch' \in Prefetch /\ sets' \in [Nodes -> NodeImageSet]
    BY <1>1, <1>2, <1>3, <1>4, <1>5, <1>6, <1>7, <1>8, <1>9 DEF ReconcileStep
  <1> QED
    BY <1>10, <1>c, <1>f DEF RecInv, ReconcilerTypeOK, RecLocalsOK

-----------------------------------------------------------------------------
(***************************************************************************)
(* The collector, the daemons and the environment.                         *)
(***************************************************************************)

\* All that a step may write besides the locals of Reconcile.
RestOK ==
    /\ prefetch \in Prefetch /\ prefetchCache \in Prefetch
    /\ sets \in [Nodes -> NodeImageSet] /\ setsCache \in [Nodes -> NodeImageSet]
    /\ nodes \in [Nodes -> {"absent", "notReady", "ready"}]
    /\ faults \in 0..MaxFaults
    /\ CollectorTypeOK
    /\ seen \in [Nodes -> NodeImageSet]
    /\ has \in [Nodes -> SUBSET Images]
    /\ edits \in 0..MaxEdits
    /\ nodeEvents \in 0..MaxNodeEvents
    /\ restarts \in 0..MaxRestarts

LEMMA InitType == Init => TypeInv
  <1> SUFFICES ASSUME Init PROVE TypeInv
    OBVIOUS
  <1>1. RecLocalsOK
    BY EmptyTypes DEF Init, Idle, RecLocalsOK, RecPcs, StartsClean
  <1>2. CollectorTypeOK
    BY EmptyTypes DEF Init, CollectorIdle, CollectorTypeOK
  <1>3. RestOK
    BY <1>2, EmptyTypes, LimitsAssumption, ClusterBoundsAssumption DEF Init, RestOK
  <1> QED
    BY <1>1, <1>3 DEF TypeInv, TypeOK, ReconcilerTypeOK, RestOK, RecLocalsOK

LEMMA CollectorStopsType ==
  ASSUME CollectorStops PROVE CollectorTypeOK'
  BY EmptyTypes DEF CollectorStops, CollectorTypeOK

LEMMA CollectorType ==
  ASSUME RestOK, CollectorStep
  PROVE  CollectorTypeOK' /\ sets' \in [Nodes -> NodeImageSet] /\ faults' \in 0..MaxFaults
  <1>t. CollectorTypeOK /\ sets \in [Nodes -> NodeImageSet] /\ setsCache \in [Nodes -> NodeImageSet]
    BY DEF RestOK
  <1>f. faults' \in 0..MaxFaults
    <2>1. CallFails \/ UNCHANGED faults
      BY DEF CollectorStep, CollectorLists, CollectorGets, CollectorUpdates, CollectorDeletes
    <2> QED
      BY <2>1, CallFailsType DEF RestOK
  <1>1. ASSUME CollectorLists
        PROVE  CollectorTypeOK' /\ sets' \in [Nodes -> NodeImageSet]
    BY <1>1, <1>t DEF CollectorLists, Stale, CollectorTypeOK
  <1>2. ASSUME CollectorGets
        PROVE  CollectorTypeOK' /\ sets' \in [Nodes -> NodeImageSet]
    <2>1. PICK n \in IF gcNode = 0 THEN gcStale ELSE {gcNode} :
             gcNode' = n /\ gcStale' = gcStale \ {n} /\ gcObj' = setsCache[n]
      BY <1>2 DEF CollectorGets
    <2>2. n \in Nodes
      BY <2>1, <1>t DEF CollectorTypeOK
    <2>3. gcPc' \in {"update", "delete"} /\ UNCHANGED sets
      BY <1>2 DEF CollectorGets
    <2> QED
      BY <2>1, <2>2, <2>3, <1>t DEF CollectorTypeOK
  <1>3. ASSUME CollectorUpdates
        PROVE  CollectorTypeOK' /\ sets' \in [Nodes -> NodeImageSet]
    <2>1. CollectorTypeOK'
      <3>1. CASE CollectorStops
        BY <3>1, CollectorStopsType
      <3>2. CASE gcPc' \in {"get", "delete"} /\ UNCHANGED <<gcStale, gcNode, gcObj>>
        BY <3>2, <1>t DEF CollectorTypeOK
      <3> QED
        BY <3>1, <3>2, <1>3 DEF CollectorUpdates
    <2>2. CASE UNCHANGED sets
      BY <2>1, <2>2, <1>t
    <2>3. CASE sets' = [sets EXCEPT ![gcNode] = IF @.deleting THEN NoNodeImageSet
                                                ELSE [@ EXCEPT !.finalizer = FALSE]]
      <3>1. \A n \in Nodes : [sets[n] EXCEPT !.finalizer = FALSE] \in NodeImageSet
        BY <1>t, FinalizerType
      <3>2. sets' \in [Nodes -> NodeImageSet]
        BY <2>3, <3>1, <1>t, EmptyTypes
      <3> QED
        BY <2>1, <3>2
    <2> QED
      BY <2>2, <2>3, <1>3 DEF CollectorUpdates
  <1>4. ASSUME CollectorDeletes
        PROVE  CollectorTypeOK' /\ sets' \in [Nodes -> NodeImageSet]
    <2>1. sets' \in [Nodes -> NodeImageSet]
      BY <1>4, <1>t, DeletedType DEF CollectorDeletes
    <2>2. CASE CollectorStops
      BY <2>1, <2>2, CollectorStopsType
    <2>3. CASE gcPc' = "get" /\ gcNode' = 0 /\ gcObj' = NoNodeImageSet /\ UNCHANGED gcStale
      BY <2>1, <2>3, <1>t, EmptyTypes DEF CollectorTypeOK
    <2> QED
      BY <2>2, <2>3, <1>4 DEF CollectorDeletes
  <1> QED
    BY <1>1, <1>2, <1>3, <1>4, <1>f DEF CollectorStep

LEMMA DaemonType ==
  ASSUME RestOK, NEW n \in Nodes, DaemonStep(n)
  PROVE  RestOK'
  <1>t. /\ sets \in [Nodes -> NodeImageSet] /\ seen \in [Nodes -> NodeImageSet]
        /\ has \in [Nodes -> SUBSET Images]
    BY DEF RestOK
  <1>c. /\ UNCHANGED <<prefetch, prefetchCache, setsCache, nodes, gcVars, boundVars>>
        /\ CallFails \/ UNCHANGED faults
    BY DEF DaemonStep, DaemonAdopts, DaemonReads, DaemonCompletes, DaemonBegins,
           DaemonFallsBack, DaemonFinalizes, DaemonReports, DaemonWrites, controllerVars,
           objectVars
  <1>r. ASSUME NEW available \in BOOLEAN, DaemonReports(n, available)
        PROVE  sets' \in [Nodes -> NodeImageSet] /\ seen' \in [Nodes -> NodeImageSet]
    <2>1. seen[n].images \in SUBSET Images /\ seen[n].generation \in Nat
      BY <1>t DEF NodeImageSet
    <2>2. Cardinality(seen[n].images) \in Nat
      BY <2>1, StatusesType
    <2>3. [sets[n] EXCEPT !.observed = seen[n].generation, !.available = available,
                          !.statuses = Cardinality(seen[n].images)] \in NodeImageSet
      <3>1. sets[n] \in NodeImageSet
        BY <1>t
      <3> QED
        BY <3>1, <2>1, <2>2, ReportedType
    <2> QED
      BY <1>r, <1>t, <2>3, EmptyTypes DEF DaemonReports, DaemonWrites
  <1>1. sets' \in [Nodes -> NodeImageSet] /\ seen' \in [Nodes -> NodeImageSet]
    <2>1. CASE DaemonAdopts(n)
      <3>1. [sets[n] EXCEPT !.finalizer = TRUE] \in NodeImageSet
        BY <1>t, FinalizerType
      <3> QED
        BY <2>1, <3>1, <1>t DEF DaemonAdopts, DaemonWrites
    <2>2. CASE DaemonReads(n)
      BY <2>2, <1>t DEF DaemonReads, objectVars
    <2>3. CASE DaemonCompletes(n)
      BY <2>3, <1>r DEF DaemonCompletes
    <2>4. CASE DaemonBegins(n)
      BY <2>4, <1>r DEF DaemonBegins
    <2>5. CASE DaemonFallsBack(n)
      BY <2>5, <1>r DEF DaemonFallsBack
    <2>6. CASE DaemonFinalizes(n)
      BY <2>6, <1>t, EmptyTypes DEF DaemonFinalizes, DaemonWrites
    <2> QED
      BY <2>1, <2>2, <2>3, <2>4, <2>5, <2>6 DEF DaemonStep
  <1>2. has' \in [Nodes -> SUBSET Images]
    <2>1. CASE DaemonCompletes(n)
      <3>1. seen[n].images \in SUBSET Images
        BY <1>t DEF NodeImageSet
      <3> QED
        BY <2>1, <3>1, <1>t DEF DaemonCompletes
    <2>2. CASE UNCHANGED has
      BY <2>2, <1>t
    <2> QED
      BY <2>1, <2>2 DEF DaemonStep, DaemonAdopts, DaemonReads, DaemonBegins, DaemonFallsBack,
                        DaemonFinalizes
  <1>3. faults' \in 0..MaxFaults
    BY <1>c, CallFailsType DEF RestOK
  <1> QED
    BY <1>1, <1>2, <1>3, <1>c DEF RestOK, CollectorTypeOK, gcVars, boundVars

LEMMA EditType ==
  ASSUME RestOK, NEW obj \in Prefetch, Edit(obj)
  PROVE  RestOK'
  BY ClusterBoundsAssumption
  DEF Edit, RestOK, CollectorTypeOK, controllerVars, gcVars

LEMMA WishTypes ==
  ASSUME NEW wish \in Wishes
  PROVE  wish[1] \in BOOLEAN /\ wish[2] \in 0..MaxReplicas
  <1>1. CASE wish = <<TRUE, 0>>
    BY <1>1, LimitsAssumption
  <1>2. CASE \E r \in 1..MaxReplicas : wish = <<FALSE, r>>
    <2>1. PICK r \in 1..MaxReplicas : wish = <<FALSE, r>>
      BY <1>2
    <2>2. wish[1] = FALSE /\ wish[2] = r
      BY <2>1
    <2>3. r \in 0..MaxReplicas
      BY LimitsAssumption
    <2> QED
      BY <2>2, <2>3
  <1> QED
    BY <1>1, <1>2 DEF Wishes

LEMMA UsersType ==
  ASSUME RestOK, CreatePrefetch \/ UpdatePrefetch \/ DeletePrefetch
  PROVE  RestOK'
  <1>l. \A images \in ImageLists : images \in SUBSET Images
    BY ImageListsAssumption
  <1>t. prefetch \in Prefetch /\ edits + 1 \in Nat
    BY ClusterBoundsAssumption DEF RestOK
  <1>1. CASE CreatePrefetch
    <2>1. PICK images \in ImageLists, wish \in Wishes :
             Edit([NoPrefetch EXCEPT !.live = TRUE, !.uid = edits + 1, !.generation = 1,
                                     !.images = images, !.allNodes = wish[1],
                                     !.replicas = wish[2]])
      BY <1>1 DEF CreatePrefetch
    <2>2. [NoPrefetch EXCEPT !.live = TRUE, !.uid = edits + 1, !.generation = 1,
                             !.images = images, !.allNodes = wish[1],
                             !.replicas = wish[2]] \in Prefetch
      BY <1>l, <1>t, EmptyTypes, WishTypes DEF Prefetch
    <2> QED
      BY <2>1, <2>2, EditType
  <1>2. CASE UpdatePrefetch
    <2>1. PICK images \in ImageLists, wish \in Wishes :
             Edit([prefetch EXCEPT !.images = images, !.allNodes = wish[1],
                                   !.replicas = wish[2], !.generation = @ + 1])
      BY <1>2 DEF UpdatePrefetch
    <2>2. prefetch.generation + 1 \in Nat
      BY <1>t DEF Prefetch
    <2>3. [prefetch EXCEPT !.images = images, !.allNodes = wish[1], !.replicas = wish[2],
                           !.generation = prefetch.generation + 1] \in Prefetch
      BY <1>l, <1>t, <2>2, WishTypes DEF Prefetch
    <2> QED
      BY <2>1, <2>3, EditType
  <1>3. CASE DeletePrefetch
    <2>1. prefetch.generation + 1 \in Nat
      BY <1>t DEF Prefetch
    <2>2. [prefetch EXCEPT !.deleting = TRUE, !.generation = prefetch.generation + 1] \in Prefetch
      BY <1>t, <2>1 DEF Prefetch
    <2> QED
      BY <1>3, <2>2, EmptyTypes, EditType DEF DeletePrefetch
  <1> QED
    BY <1>1, <1>2, <1>3

LEMMA NodeEventType ==
  ASSUME TypeInv, NEW n \in Nodes, NodeEvent(n)
  PROVE  TypeInv'
  <1>t. RestOK /\ RecLocalsOK
    BY DEF TypeInv, TypeOK, ReconcilerTypeOK, RestOK, RecLocalsOK
  <1>1. PICK status \in {"absent", "notReady", "ready"} :
          /\ NodeChanges(n, status)
          /\ seen' = [seen EXCEPT ![n] = IF status = "absent" THEN NoNodeImageSet ELSE @]
    BY DEF NodeEvent
  <1>2. /\ nodes' \in [Nodes -> {"absent", "notReady", "ready"}]
        /\ seen' \in [Nodes -> NodeImageSet]
        /\ nodeEvents' \in 0..MaxNodeEvents
    BY <1>1, <1>t, EmptyTypes, ClusterBoundsAssumption DEF NodeEvent, NodeChanges, RestOK
  <1>3. RestOK'
    BY <1>1, <1>2, <1>t
    DEF NodeEvent, NodeChanges, RestOK, CollectorTypeOK, gcVars, objectVars
  <1>4. RecLocalsOK'
    BY <1>1, <1>t DEF NodeChanges, RecLocalsOK, StartsClean, recVars
  <1> QED
    BY <1>3, <1>4 DEF TypeInv, TypeOK, ReconcilerTypeOK, RestOK, RecLocalsOK

LEMMA RestartType ==
  ASSUME TypeInv, Restart
  PROVE  TypeInv'
  <1>t. RestOK /\ RecLocalsOK
    BY DEF TypeInv, TypeOK, ReconcilerTypeOK, RestOK, RecLocalsOK
  <1>1. CollectorTypeOK'
    BY CollectorStopsType DEF Restart
  <1>2. RestOK'
    BY <1>1, <1>t, ClusterBoundsAssumption DEF Restart, RestOK
  <1>3. queued' \in BOOLEAN
    BY <1>t DEF Restart, RestOK, Prefetch
  <1>4. RecLocalsOK'
    BY <1>3, EmptyTypes DEF Restart, RecLocalsOK, RecPcs, StartsClean
  <1> QED
    BY <1>2, <1>4 DEF TypeInv, TypeOK, ReconcilerTypeOK, RestOK, RecLocalsOK

-----------------------------------------------------------------------------
LEMMA TypeStep == TypeInv /\ [Next]_vars => TypeInv'
  <1> SUFFICES ASSUME TypeInv, [Next]_vars PROVE TypeInv'
    OBVIOUS
  <1>t. RestOK /\ RecLocalsOK /\ RecInv
    BY DEF RecInv, TypeInv, TypeOK, ReconcilerTypeOK, RecLocalsOK, RestOK
  <1>r. ASSUME RecInv', UNCHANGED gcVars, Rests
        PROVE  TypeInv'
    <2>1. RestOK'
      BY <1>r, <1>t DEF ReconcilerTypeOK, RecLocalsOK, Rests, RestOK, CollectorTypeOK, gcVars,
                          boundVars, RecInv
    <2>2. RecLocalsOK'
      BY <1>r DEF RecInv, ReconcilerTypeOK, RecLocalsOK
    <2> QED
      BY <2>1, <2>2 DEF TypeInv, TypeOK, ReconcilerTypeOK, RestOK, RecLocalsOK
  <1>1. CASE Starts
    BY <1>1, <1>t, <1>r, StartType DEF Starts
  <1>2. CASE Reconciles
    BY <1>2, <1>t, <1>r, ReconcileType DEF Reconciles
  <1>3. CASE Collects
    <2>1. CollectorTypeOK' /\ sets' \in [Nodes -> NodeImageSet] /\ faults' \in 0..MaxFaults
      BY <1>3, <1>t, CollectorType DEF Collects
    <2>2. Elsewhere /\ Rests
      BY <1>3 DEF Collects, CollectorStep, CollectorLists, CollectorGets, CollectorUpdates,
                  CollectorDeletes
    <2>3. RestOK'
      BY <2>1, <2>2, <1>t DEF Elsewhere, Rests, RestOK, boundVars
    <2>4. RecLocalsOK'
      BY <2>2, <1>t DEF Elsewhere, RecLocalsOK, StartsClean, recVars
    <2> QED
      BY <2>3, <2>4 DEF TypeInv, TypeOK, ReconcilerTypeOK, RestOK, RecLocalsOK
  <1>4. CASE Syncs
    <2>1. RestOK'
      BY <1>4, <1>t DEF Syncs, PrefetchSync, Rests, RestOK, CollectorTypeOK, gcVars, boundVars
    <2>2. RecLocalsOK'
      BY <1>4, <1>t DEF Syncs, PrefetchSync, RecLocalsOK, StartsClean, recVars
    <2> QED
      BY <2>1, <2>2 DEF TypeInv, TypeOK, ReconcilerTypeOK, RestOK, RecLocalsOK
  <1>5. ASSUME NEW n \in Nodes, SetSyncs(n)
        PROVE  TypeInv'
    <2>1. setsCache' \in [Nodes -> NodeImageSet]
      BY <1>5, <1>t DEF SetSyncs, NodeImageSetSync, RestOK
    <2>2. RestOK'
      BY <1>5, <1>t, <2>1
      DEF SetSyncs, NodeImageSetSync, Rests, RestOK, CollectorTypeOK, gcVars, boundVars
    <2>3. queued' \in BOOLEAN
      BY <1>5, <1>t DEF SetSyncs, NodeImageSetSync, Notifies, RecLocalsOK
    <2>4. RecLocalsOK'
      BY <1>5, <1>t, <2>3 DEF SetSyncs, NodeImageSetSync, RecLocalsOK, StartsClean, recVars
    <2> QED
      BY <2>2, <2>4 DEF TypeInv, TypeOK, ReconcilerTypeOK, RestOK, RecLocalsOK
  <1>6. ASSUME NEW n \in Nodes, DaemonStep(n)
        PROVE  TypeInv'
    <2>1. RestOK'
      BY <1>6, <1>t, DaemonType
    <2>2. UNCHANGED controllerVars
      BY <1>6 DEF DaemonStep, DaemonAdopts, DaemonReads, DaemonCompletes, DaemonBegins,
                  DaemonFallsBack, DaemonFinalizes, DaemonReports, DaemonWrites
    <2>3. RecLocalsOK'
      BY <2>2, <1>t DEF controllerVars, RecLocalsOK, StartsClean, recVars
    <2> QED
      BY <2>1, <2>3 DEF TypeInv, TypeOK, ReconcilerTypeOK, RestOK, RecLocalsOK
  <1>7. CASE CreatePrefetch \/ UpdatePrefetch \/ DeletePrefetch
    <2>1. RestOK'
      BY <1>7, <1>t, UsersType
    <2>2. UNCHANGED controllerVars
      BY <1>7 DEF CreatePrefetch, UpdatePrefetch, DeletePrefetch, Edit
    <2>3. RecLocalsOK'
      BY <2>2, <1>t DEF controllerVars, RecLocalsOK, StartsClean, recVars
    <2> QED
      BY <2>1, <2>3 DEF TypeInv, TypeOK, ReconcilerTypeOK, RestOK, RecLocalsOK
  <1>8. ASSUME NEW n \in Nodes, NodeEvent(n)
        PROVE  TypeInv'
    BY <1>8, NodeEventType
  <1>9. CASE Restart
    BY <1>9, RestartType
  <1>10. CASE UNCHANGED vars
    BY <1>10 DEF vars, TypeInv, TypeOK, ReconcilerTypeOK, CollectorTypeOK, StartsClean, objectVars,
                 controllerVars, recVars, gcVars, boundVars
  <1> QED
    BY <1>1, <1>2, <1>3, <1>4, <1>5, <1>6, <1>7, <1>8, <1>9, <1>10 DEF Next, Environment

(***************************************************************************)
(* Every variable of the controller, the collector, the API server and the *)
(* daemons keeps its type.                                                 *)
(***************************************************************************)
THEOREM ClusterTypeCorrect == Spec => []TypeOK
  <1>1. TypeInv => TypeOK
    BY DEF TypeInv
  <1> QED
    BY <1>1, InitType, TypeStep, PTL DEF Spec

-----------------------------------------------------------------------------
(***************************************************************************)
(* The inductive invariant of NoOrphans.                                   *)
(***************************************************************************)

Doomed == \A n \in Nodes : sets[n].live => sets[n].deleting

\* Each creation has a uid of its own.
Uids ==
    /\ prefetch.uid <= edits /\ prefetchCache.uid <= edits /\ recObj.uid <= edits
    /\ prefetch.live \/ prefetch.deleting => prefetch.uid > 0
    /\ prefetchCache.live \/ prefetchCache.deleting => prefetchCache.uid > 0

\* What the cache says of deletion and finalizer is still true of that object.
CacheFollows ==
    /\ prefetchCache.deleting /\ prefetch.uid = prefetchCache.uid => prefetch.deleting
    /\ prefetchCache.live /\ ~prefetchCache.deleting /\ prefetchCache.finalizer
       => prefetch.live /\ prefetch.finalizer /\ prefetch.uid = prefetchCache.uid

\* Who finalizes works on an object that everyone knows to be deleted.
Finalizing ==
    recPc \in {"deleteAll", "removeFinalizer"} =>
        /\ recObj.uid > 0
        /\ prefetch.uid = recObj.uid => prefetch.deleting
        /\ prefetchCache.uid = recObj.uid => prefetchCache.deleting

WorkPcs == {"list", "apply", "surplus", "report"}

\* Who applies works for an ImagePrefetch that cannot go away meanwhile.
Applying ==
    recPc \in WorkPcs => prefetch.live /\ prefetch.finalizer /\ prefetch.uid = recObj.uid

AllDoomed ==
    (recPc = "removeFinalizer" \/ ~(prefetch.live /\ prefetch.finalizer)) => Doomed

OrphanInv == Uids /\ CacheFollows /\ Finalizing /\ Applying /\ AllDoomed

-----------------------------------------------------------------------------
\* The types the proofs below need.
LEMMA ObjectTypes ==
  ASSUME TypeInv
  PROVE  /\ prefetch \in Prefetch /\ prefetchCache \in Prefetch /\ recObj \in Prefetch
         /\ sets \in [Nodes -> NodeImageSet] /\ edits \in Nat
  BY ClusterBoundsAssumption DEF TypeInv, TypeOK, ReconcilerTypeOK

LEMMA UidTypes ==
  ASSUME TypeInv
  PROVE  prefetch.uid \in Nat /\ prefetchCache.uid \in Nat /\ recObj.uid \in Nat
  BY ObjectTypes DEF Prefetch

LEMMA NoUid == NoPrefetch.uid = 0 /\ ~NoPrefetch.live /\ ~NoPrefetch.deleting
  BY DEF NoPrefetch

LEMMA DeletedIsDoomed ==
  ASSUME NEW set \in NodeImageSet, Deleted(set).live
  PROVE  Deleted(set).deleting
  BY DEF Deleted, NodeImageSet, NoNodeImageSet

\* The fields of the ImagePrefetch the invariant looks at.
SameObject ==
    /\ prefetch'.live = prefetch.live /\ prefetch'.uid = prefetch.uid
    /\ prefetch'.finalizer = prefetch.finalizer /\ prefetch'.deleting = prefetch.deleting

(***************************************************************************)
(* Kinds of steps.                                                         *)
(***************************************************************************)

\* Steps that leave ImagePrefetch and reconciler alone.
LEMMA Aside ==
  ASSUME OrphanInv, UNCHANGED <<prefetch, prefetchCache, recPc, recObj, edits>>,
         Doomed => Doomed'
  PROVE  OrphanInv'
  BY DEF OrphanInv, Uids, CacheFollows, Finalizing, Applying, AllDoomed

\* Steps with which Reconcile returns.
LEMMA Returning ==
  ASSUME TypeInv, OrphanInv, NEW again \in BOOLEAN, Finish(again),
         SameObject, UNCHANGED <<prefetchCache, edits>>, Doomed => Doomed'
  PROVE  OrphanInv'
  <1>1. recPc' = "idle" /\ recObj'.uid = 0 /\ edits >= 0
    BY NoUid, ObjectTypes DEF Finish
  <1>2. Uids' /\ CacheFollows'
    BY <1>1 DEF OrphanInv, Uids, CacheFollows, SameObject
  <1>3. Finalizing' /\ Applying'
    BY <1>1 DEF Finalizing, Applying, WorkPcs
  <1>4. AllDoomed'
    BY <1>1 DEF OrphanInv, AllDoomed, SameObject
  <1> QED
    BY <1>2, <1>3, <1>4 DEF OrphanInv

\* Steps of Reconcile between the selection and the report.
LEMMA Working ==
  ASSUME OrphanInv, recPc \in WorkPcs, recPc' \in WorkPcs,
         UNCHANGED <<prefetch, prefetchCache, recObj, edits>>
  PROVE  OrphanInv'
  BY DEF OrphanInv, Uids, CacheFollows, Finalizing, Applying, AllDoomed, WorkPcs

-----------------------------------------------------------------------------
(***************************************************************************)
(* The steps of the reconciler.                                            *)
(***************************************************************************)

LEMMA StartKeeps ==
  ASSUME TypeInv, OrphanInv, StartReconcile, UNCHANGED edits
  PROVE  OrphanInv'
  <1>1. UNCHANGED <<prefetch, prefetchCache, sets>> /\ recPc = "idle"
    BY DEF StartReconcile, objectVars
  <1>2. Doomed' <=> Doomed
    BY <1>1 DEF Doomed
  <1>3. CASE UNCHANGED <<recPc, recObj>>
    BY <1>1, <1>2, <1>3, Aside
  <1>4. ASSUME prefetchCache.deleting, prefetchCache.finalizer, recPc' = "deleteAll",
               recObj' = prefetchCache
        PROVE  OrphanInv'
    BY <1>1, <1>2, <1>4, UidTypes
    DEF OrphanInv, Uids, CacheFollows, Finalizing, Applying, AllDoomed, WorkPcs
  <1>5. ASSUME recPc' = "addFinalizer", recObj' = prefetchCache
        PROVE  OrphanInv'
    BY <1>1, <1>2, <1>5
    DEF OrphanInv, Uids, CacheFollows, Finalizing, Applying, AllDoomed, WorkPcs
  <1>6. ASSUME prefetchCache.live, ~prefetchCache.deleting, prefetchCache.finalizer,
               recPc' = "list", recObj' = prefetchCache
        PROVE  OrphanInv'
    BY <1>1, <1>2, <1>6
    DEF OrphanInv, Uids, CacheFollows, Finalizing, Applying, AllDoomed, WorkPcs
  <1> QED
    BY <1>3, <1>4, <1>5, <1>6 DEF StartReconcile

LEMMA AddFinalizerKeeps ==
  ASSUME TypeInv, OrphanInv, AddFinalizer, UNCHANGED edits
  PROVE  OrphanInv'
  <1>1. Finish(TRUE) /\ UNCHANGED <<prefetchCache, sets>>
    BY DEF AddFinalizer
  <1>2. Doomed => Doomed'
    BY <1>1 DEF Doomed
  <1>3. CASE UNCHANGED prefetch
    BY <1>1, <1>2, <1>3, Returning DEF SameObject
  <1>4. CASE prefetch = recObj /\ prefetch' = [recObj EXCEPT !.finalizer = TRUE]
    <2>1. /\ prefetch'.live = prefetch.live /\ prefetch'.uid = prefetch.uid
          /\ prefetch'.finalizer /\ prefetch'.deleting = prefetch.deleting
      BY <1>4, ObjectTypes DEF Prefetch
    <2>2. recPc' = "idle" /\ recObj'.uid = 0 /\ edits >= 0
      BY <1>1, NoUid, ObjectTypes DEF Finish
    <2>3. Uids' /\ CacheFollows'
      BY <1>1, <2>1, <2>2 DEF OrphanInv, Uids, CacheFollows
    <2>4. Finalizing' /\ Applying' /\ AllDoomed'
      BY <1>2, <2>1, <2>2 DEF OrphanInv, Finalizing, Applying, AllDoomed, WorkPcs
    <2> QED
      BY <2>3, <2>4 DEF OrphanInv
  <1> QED
    BY <1>3, <1>4 DEF AddFinalizer, Update

LEMMA DeleteAllOfKeeps ==
  ASSUME TypeInv, OrphanInv, DeleteAllOf, UNCHANGED edits
  PROVE  OrphanInv'
  <1>1. UNCHANGED <<prefetch, prefetchCache>> /\ recPc = "deleteAll"
    BY DEF DeleteAllOf
  <1>2. CASE sets' = [n \in Nodes |-> Deleted(sets[n])] /\ Goto("removeFinalizer")
    <2>1. Doomed'
      BY <1>2, ObjectTypes, DeletedIsDoomed DEF Doomed
    <2>2. recPc' = "removeFinalizer" /\ recObj' = recObj
      BY <1>2 DEF Goto
    <2> QED
      BY <1>1, <2>1, <2>2
      DEF OrphanInv, Uids, CacheFollows, Finalizing, Applying, AllDoomed, WorkPcs
  <1>3. ASSUME NEW some \in SUBSET Nodes, Finish(TRUE),
               sets' = [n \in Nodes |-> IF n \in some THEN Deleted(sets[n]) ELSE sets[n]]
        PROVE  OrphanInv'
    <2>1. Doomed => Doomed'
      BY <1>3, ObjectTypes, DeletedIsDoomed DEF Doomed
    <2> QED
      BY <1>1, <1>3, <2>1, Returning DEF SameObject
  <1> QED
    BY <1>2, <1>3 DEF DeleteAllOf

\* The heart of the matter: the object that loses its finalizer is known to be
\* deleted, by the cache too, so that no later reconcile applies for it.
LEMMA RemoveFinalizerKeeps ==
  ASSUME TypeInv, OrphanInv, RemoveFinalizer, UNCHANGED edits
  PROVE  OrphanInv'
  <1>1. /\ UNCHANGED <<prefetchCache, sets>> /\ recPc = "removeFinalizer"
        /\ \E again \in BOOLEAN : Finish(again)
    BY DEF RemoveFinalizer
  <1>2. Doomed => Doomed'
    BY <1>1 DEF Doomed
  <1>3. CASE UNCHANGED prefetch
    BY <1>1, <1>2, <1>3, Returning DEF SameObject
  <1>4. CASE prefetch = recObj /\ prefetch' = NoPrefetch
    <2>1. prefetch'.uid = 0 /\ ~prefetch'.live /\ ~prefetch'.deleting
      BY <1>4, NoUid
    <2>2. recPc' = "idle" /\ recObj'.uid = 0 /\ edits \in Nat
      BY <1>1, NoUid, ObjectTypes DEF Finish
    <2>3. Doomed'
      BY <1>1, <1>2 DEF OrphanInv, AllDoomed
    <2>4. Uids'
      BY <1>1, <2>1, <2>2 DEF OrphanInv, Uids
    <2>5. CacheFollows'
      <3>1. ~(prefetchCache.live /\ ~prefetchCache.deleting /\ prefetchCache.finalizer)
        BY <1>1, <1>4 DEF OrphanInv, Finalizing, CacheFollows
      <3>2. prefetchCache.deleting => prefetchCache.uid # 0
        BY UidTypes DEF OrphanInv, Uids
      <3> QED
        BY <1>1, <2>1, <3>1, <3>2 DEF CacheFollows
    <2>6. Finalizing' /\ Applying' /\ AllDoomed'
      BY <2>2, <2>3 DEF Finalizing, Applying, AllDoomed, WorkPcs
    <2> QED
      BY <2>4, <2>5, <2>6 DEF OrphanInv
  <1> QED
    BY <1>3, <1>4 DEF RemoveFinalizer, Update

LEMMA ApplyKeeps ==
  ASSUME TypeInv, OrphanInv, UNCHANGED edits,
         \/ ListNodeImageSets \/ ApplyNodeImageSet \/ ListSurplus
         \/ DeleteSurplus \/ CountNodeImageSets
  PROVE  OrphanInv'
  <1>1. UNCHANGED <<prefetch, prefetchCache>> /\ recPc \in WorkPcs
    BY DEF ListNodeImageSets, ApplyNodeImageSet, ListSurplus, DeleteSurplus,
           CountNodeImageSets, objectVars, WorkPcs
  <1>2. CASE recPc' \in WorkPcs /\ UNCHANGED recObj
    BY <1>1, <1>2, Working
  <1>3. CASE Finish(TRUE) /\ UNCHANGED sets
    <2>1. Doomed => Doomed'
      BY <1>3 DEF Doomed
    <2> QED
      BY <1>1, <1>3, <2>1, Returning DEF SameObject
  <1> QED
    BY <1>1, <1>2, <1>3 DEF ListNodeImageSets, ApplyNodeImageSet, ListSurplus, DeleteSurplus,
                            CountNodeImageSets, WorkPcs

LEMMA ReportKeeps ==
  ASSUME TypeInv, OrphanInv, ReportStatus, UNCHANGED edits
  PROVE  OrphanInv'
  <1>1. UNCHANGED <<prefetchCache, sets>>
    BY DEF ReportStatus
  <1>2. \E again \in BOOLEAN : Finish(again)
    BY DEF ReportStatus, TypeInv, TypeOK, ReconcilerTypeOK
  <1>3. SameObject
    BY ObjectTypes DEF ReportStatus, SameObject, Prefetch
  <1>4. Doomed => Doomed'
    BY <1>1 DEF Doomed
  <1> QED
    BY <1>1, <1>2, <1>3, <1>4, Returning

-----------------------------------------------------------------------------
(***************************************************************************)
(* The other steps.                                                        *)
(***************************************************************************)

LEMMA CollectorKeeps ==
  ASSUME TypeInv, CollectorStep, Doomed
  PROVE  Doomed'
  <1>1. CASE UNCHANGED sets
    BY <1>1 DEF Doomed
  <1>2. CASE sets' = [sets EXCEPT ![gcNode] = IF @.deleting THEN NoNodeImageSet
                                              ELSE [@ EXCEPT !.finalizer = FALSE]]
    <2> SUFFICES ASSUME NEW n \in Nodes, sets'[n].live PROVE sets'[n].deleting
      BY DEF Doomed
    <2>1. sets[n].live => sets[n].deleting
      BY DEF Doomed
    <2>2. sets[n] \in NodeImageSet
      BY ObjectTypes
    <2>3. \/ sets'[n] = sets[n]
          \/ sets'[n] = NoNodeImageSet
          \/ ~sets[n].deleting /\ sets'[n] = [sets[n] EXCEPT !.finalizer = FALSE]
      BY <1>2, ObjectTypes
    <2> QED
      BY <2>1, <2>2, <2>3 DEF NodeImageSet, NoNodeImageSet
  <1>3. CASE sets' = [sets EXCEPT ![gcNode] = Deleted(@)]
    BY <1>3, ObjectTypes, DeletedIsDoomed DEF Doomed
  <1> QED
    BY <1>1, <1>2, <1>3
    DEF CollectorStep, CollectorLists, CollectorGets, CollectorUpdates, CollectorDeletes

LEMMA DaemonKeeps ==
  ASSUME TypeInv, NEW n \in Nodes, DaemonStep(n), Doomed
  PROVE  Doomed'
  <1>1. sets[n] \in NodeImageSet /\ (sets[n].live => sets[n].deleting)
    BY ObjectTypes DEF Doomed
  <1>2. ASSUME NEW set, sets' = [sets EXCEPT ![n] = set], set.live => set.deleting
        PROVE  Doomed'
    BY <1>2, ObjectTypes DEF Doomed
  <1>3. CASE DaemonAdopts(n)
    BY <1>1, <1>3 DEF DaemonAdopts
  <1>4. CASE DaemonReads(n)
    BY <1>4 DEF DaemonReads, objectVars, Doomed
  <1>5. ASSUME NEW available \in BOOLEAN, DaemonReports(n, available)
        PROVE  Doomed'
    <2> DEFINE reported == [sets[n] EXCEPT !.observed = seen[n].generation,
                                           !.available = available,
                                           !.statuses = Cardinality(seen[n].images)]
    <2>1. reported.live => reported.deleting
      BY <1>1 DEF NodeImageSet
    <2>2. sets' = [sets EXCEPT ![n] = reported]
      BY <1>5 DEF DaemonReports, DaemonWrites
    <2> QED
      BY <1>2, <2>1, <2>2
  <1>6. CASE DaemonFinalizes(n)
    <2>1. sets' = [sets EXCEPT ![n] = NoNodeImageSet]
      BY <1>6 DEF DaemonFinalizes, DaemonWrites
    <2> QED
      BY <1>2, <2>1 DEF NoNodeImageSet
  <1> QED
    BY <1>3, <1>4, <1>5, <1>6 DEF DaemonStep, DaemonCompletes, DaemonBegins, DaemonFallsBack

LEMMA SyncKeeps ==
  ASSUME TypeInv, OrphanInv, PrefetchSync, UNCHANGED edits
  PROVE  OrphanInv'
  <1>1. /\ prefetchCache' = prefetch
        /\ UNCHANGED <<prefetch, sets, recPc, recObj>>
    BY DEF PrefetchSync, recVars
  <1>2. Doomed' <=> Doomed
    BY <1>1 DEF Doomed
  <1> QED
    BY <1>1, <1>2 DEF OrphanInv, Uids, CacheFollows, Finalizing, Applying, AllDoomed

LEMMA RestartKeeps ==
  ASSUME TypeInv, OrphanInv, Restart
  PROVE  OrphanInv'
  <1>1. /\ prefetchCache' = prefetch /\ recPc' = "idle" /\ recObj'.uid = 0
        /\ UNCHANGED <<prefetch, sets, edits>> /\ edits \in Nat
    BY NoUid, ObjectTypes DEF Restart
  <1>2. Doomed' <=> Doomed
    BY <1>1 DEF Doomed
  <1>3. Uids' /\ CacheFollows' /\ AllDoomed'
    BY <1>1, <1>2 DEF OrphanInv, Uids, CacheFollows, AllDoomed
  <1> QED
    BY <1>1, <1>3 DEF OrphanInv, Finalizing, Applying, WorkPcs

LEMMA CreateKeeps ==
  ASSUME TypeInv, OrphanInv, CreatePrefetch
  PROVE  OrphanInv'
  <1>1. /\ ~prefetch.live /\ prefetch'.live /\ prefetch'.uid = edits + 1 /\ edits' = edits + 1
        /\ ~prefetch'.deleting /\ ~prefetch'.finalizer
        /\ UNCHANGED <<prefetchCache, sets, recPc, recObj>>
    BY DEF CreatePrefetch, Edit, NoPrefetch, controllerVars, recVars
  <1>2. Doomed'
    BY <1>1 DEF OrphanInv, AllDoomed, Doomed
  <1>3. Uids'
    BY <1>1, ObjectTypes, UidTypes DEF OrphanInv, Uids
  <1>4. CacheFollows' /\ Finalizing'
    BY <1>1, ObjectTypes, UidTypes DEF OrphanInv, Uids, CacheFollows, Finalizing
  <1>5. Applying' /\ AllDoomed'
    BY <1>1, <1>2 DEF OrphanInv, Applying, AllDoomed
  <1> QED
    BY <1>3, <1>4, <1>5 DEF OrphanInv

LEMMA UpdateKeeps ==
  ASSUME TypeInv, OrphanInv, UpdatePrefetch
  PROVE  OrphanInv'
  <1>1. SameObject /\ edits' = edits + 1 /\ UNCHANGED <<prefetchCache, sets, recPc, recObj>>
    BY ObjectTypes DEF UpdatePrefetch, Edit, SameObject, Prefetch, controllerVars, recVars
  <1>2. Doomed' <=> Doomed
    BY <1>1 DEF Doomed
  <1>3. Uids'
    BY <1>1, ObjectTypes, UidTypes DEF OrphanInv, Uids, SameObject
  <1>4. CacheFollows' /\ Finalizing' /\ Applying' /\ AllDoomed'
    BY <1>1, <1>2 DEF OrphanInv, CacheFollows, Finalizing, Applying, AllDoomed, SameObject
  <1> QED
    BY <1>3, <1>4 DEF OrphanInv

LEMMA DeleteKeeps ==
  ASSUME TypeInv, OrphanInv, DeletePrefetch
  PROVE  OrphanInv'
  <1>1. edits' = edits + 1 /\ UNCHANGED <<prefetchCache, sets, recPc, recObj>> /\ prefetch.live
    BY DEF DeletePrefetch, Edit, controllerVars, recVars
  <1>2. Doomed' <=> Doomed
    BY <1>1 DEF Doomed
  <1>3. CASE prefetch.finalizer
    <2>1. /\ prefetch'.live = prefetch.live /\ prefetch'.uid = prefetch.uid
          /\ prefetch'.finalizer = prefetch.finalizer /\ prefetch'.deleting
      BY <1>3, ObjectTypes DEF DeletePrefetch, Edit, Prefetch
    <2>2. Uids'
      BY <1>1, <2>1, ObjectTypes, UidTypes DEF OrphanInv, Uids
    <2>3. CacheFollows' /\ Finalizing' /\ Applying' /\ AllDoomed'
      BY <1>1, <1>2, <2>1 DEF OrphanInv, CacheFollows, Finalizing, Applying, AllDoomed
    <2> QED
      BY <2>2, <2>3 DEF OrphanInv
  <1>4. CASE ~prefetch.finalizer
    <2>1. prefetch'.uid = 0 /\ ~prefetch'.live /\ ~prefetch'.deleting
      BY <1>4, NoUid DEF DeletePrefetch, Edit
    <2>2. Doomed'
      BY <1>2, <1>4 DEF OrphanInv, AllDoomed
    <2>3. Uids'
      BY <1>1, <2>1, ObjectTypes, UidTypes DEF OrphanInv, Uids
    <2>4. CacheFollows' /\ Finalizing'
      BY <1>1, <1>4, <2>1, UidTypes DEF OrphanInv, Uids, CacheFollows, Finalizing
    <2>5. Applying' /\ AllDoomed'
      BY <1>1, <1>4, <2>2 DEF OrphanInv, Applying, AllDoomed
    <2> QED
      BY <2>3, <2>4, <2>5 DEF OrphanInv
  <1> QED
    BY <1>3, <1>4

-----------------------------------------------------------------------------
LEMMA OrphanInit == Init => OrphanInv
  <1> SUFFICES ASSUME Init PROVE OrphanInv
    OBVIOUS
  <1>1. /\ prefetch = NoPrefetch /\ prefetchCache = NoPrefetch /\ recObj = NoPrefetch
        /\ recPc = "idle" /\ edits = 0
    BY DEF Init, Idle
  <1>2. Doomed
    BY DEF Init, Doomed, NoNodeImageSet
  <1> QED
    BY <1>1, <1>2, NoUid
    DEF OrphanInv, Uids, CacheFollows, Finalizing, Applying, AllDoomed, WorkPcs

LEMMA OrphanStep == TypeInv /\ OrphanInv /\ [Next]_vars => OrphanInv'
  <1> SUFFICES ASSUME TypeInv, OrphanInv, [Next]_vars PROVE OrphanInv'
    OBVIOUS
  <1>1. CASE Starts
    BY <1>1, StartKeeps DEF Starts, Rests, boundVars
  <1>2. CASE Reconciles
    <2>1. ReconcileStep /\ UNCHANGED edits
      BY <1>2 DEF Reconciles, Rests, boundVars
    <2> QED
      BY <2>1, AddFinalizerKeeps, DeleteAllOfKeeps, RemoveFinalizerKeeps, ApplyKeeps, ReportKeeps
      DEF ReconcileStep
  <1>3. CASE Collects
    <2>1. Elsewhere /\ UNCHANGED edits /\ CollectorStep
      BY <1>3 DEF Collects, CollectorStep, CollectorLists, CollectorGets, CollectorUpdates,
                  CollectorDeletes, Rests, boundVars
    <2> QED
      BY <2>1, CollectorKeeps, Aside DEF Elsewhere, recVars
  <1>4. CASE Syncs
    BY <1>4, SyncKeeps DEF Syncs, Rests, boundVars
  <1>5. ASSUME NEW n \in Nodes, SetSyncs(n)
        PROVE  OrphanInv'
    <2>1. UNCHANGED <<prefetch, prefetchCache, sets, recPc, recObj, edits>>
      BY <1>5 DEF SetSyncs, NodeImageSetSync, Rests, boundVars, recVars
    <2> QED
      BY <2>1, Aside DEF Doomed
  <1>6. ASSUME NEW n \in Nodes, DaemonStep(n)
        PROVE  OrphanInv'
    <2>1. UNCHANGED <<prefetch, prefetchCache, recPc, recObj, edits>>
      BY <1>6 DEF DaemonStep, DaemonAdopts, DaemonReads, DaemonCompletes, DaemonBegins,
                  DaemonFallsBack, DaemonFinalizes, DaemonReports, DaemonWrites, controllerVars,
                  objectVars, recVars, boundVars
    <2> QED
      BY <1>6, <2>1, DaemonKeeps, Aside
  <1>7. CASE CreatePrefetch
    BY <1>7, CreateKeeps
  <1>8. CASE UpdatePrefetch
    BY <1>8, UpdateKeeps
  <1>9. CASE DeletePrefetch
    BY <1>9, DeleteKeeps
  <1>10. ASSUME NEW n \in Nodes, NodeEvent(n)
         PROVE  OrphanInv'
    <2>1. UNCHANGED <<prefetch, prefetchCache, sets, recPc, recObj, edits>>
      BY <1>10 DEF NodeEvent, NodeChanges, objectVars, recVars
    <2> QED
      BY <2>1, Aside DEF Doomed
  <1>11. CASE Restart
    BY <1>11, RestartKeeps
  <1>12. CASE UNCHANGED vars
    <2>1. UNCHANGED <<prefetch, prefetchCache, sets, recPc, recObj, edits>>
      BY <1>12 DEF vars, objectVars, controllerVars, recVars, boundVars
    <2> QED
      BY <2>1, Aside DEF Doomed
  <1> QED
    BY <1>1, <1>2, <1>3, <1>4, <1>5, <1>6, <1>7, <1>8, <1>9, <1>10, <1>11, <1>12
    DEF Next, Environment

(***************************************************************************)
(* A deleted ImagePrefetch leaves no NodeImageSet behind that is not being *)
(* deleted: the finalizer goes only after DeleteAllOf, and a reconcile     *)
(* that began before the deletion keeps it from going.                     *)
(***************************************************************************)
THEOREM NothingIsOrphaned == Spec => []NoOrphans
  <1>1. OrphanInv => NoOrphans
    BY DEF OrphanInv, AllDoomed, Doomed, NoOrphans
  <1>2. Init => TypeInv /\ OrphanInv
    BY InitType, OrphanInit
  <1>3. TypeInv /\ OrphanInv /\ [Next]_vars => (TypeInv /\ OrphanInv)'
    BY TypeStep, OrphanStep
  <1> QED
    BY <1>1, <1>2, <1>3, PTL DEF Spec

-----------------------------------------------------------------------------
(***************************************************************************)
(* The inductive invariant of Attended.                                    *)
(***************************************************************************)

\* The API server keeps a deleted object for its finalizer only, and the cache
\* never has a later version of an object than the API server.
Trailing ==
    /\ prefetch.deleting => prefetch.finalizer
    /\ prefetch.uid = 0 => prefetch.generation = 0
    /\ prefetchCache.uid = 0 => prefetchCache.generation = 0
    /\ prefetchCache.uid = prefetch.uid => prefetchCache.generation <= prefetch.generation

\* What a reconcile has read is still in the cache, or another one follows.
Snapshot == recPc # "idle" /\ ~queued => prefetchCache = recObj

\* So is what its selection was made from, as far as nodes are watched for it.
SelectionFresh ==
    recPc \in WorkPcs =>
        /\ ~recObj.deleting
        /\ recObj.live
        /\ queued \/ /\ recObj.allNodes => recSelected = ReadyNodes
                     /\ \A n \in recSelected \cap recObj.selected : nodes[n] = "ready"

Settled == ~prefetch.deleting /\ prefetch.ready /\ prefetch.observed = prefetch.generation
           /\ ~Outdated

\* Attended, without the help of events about NodeImageSets.
Remembered ==
    recPc = "idle" /\ ~queued /\ prefetchCache = prefetch /\ prefetch.live => Settled

AttentionInv == Trailing /\ Snapshot /\ SelectionFresh /\ Remembered

-----------------------------------------------------------------------------
\* Steps of a reconcile that neither begin nor end it, and steps of others.
LEMMA GoesOn ==
  ASSUME AttentionInv, UNCHANGED <<prefetch, prefetchCache, nodes, recObj, recSelected>>,
         recPc' = "idle" <=> recPc = "idle", recPc' \in WorkPcs => recPc \in WorkPcs,
         queued => queued'
  PROVE  AttentionInv'
  BY DEF AttentionInv, Trailing, Snapshot, SelectionFresh, Remembered, Settled, Outdated,
         ReadyNodes

\* A reconcile that asks to be called again.
LEMMA ComesBack ==
  ASSUME recPc' = "idle", queued', Trailing'
  PROVE  AttentionInv'
  BY DEF AttentionInv, Snapshot, SelectionFresh, Remembered, WorkPcs

LEMMA FailsBack ==
  ASSUME AttentionInv, Finish(TRUE), UNCHANGED <<prefetch, prefetchCache>>
  PROVE  AttentionInv'
  BY ComesBack DEF AttentionInv, Trailing, Finish

LEMMA NoVersion == NoPrefetch.uid = 0 /\ NoPrefetch.generation = 0 /\ ~NoPrefetch.live
                   /\ ~NoPrefetch.deleting
  BY DEF NoPrefetch

LEMMA VersionTypes ==
  ASSUME TypeInv
  PROVE  /\ prefetch.uid \in Nat /\ prefetch.generation \in Nat
         /\ prefetchCache.uid \in Nat /\ prefetchCache.generation \in Nat
  BY ObjectTypes DEF Prefetch

-----------------------------------------------------------------------------
(***************************************************************************)
(* The reconciler.                                                         *)
(***************************************************************************)

\* What selectTargetNodes chooses from is ready.
LEMMA SelectedReady ==
  ASSUME NEW obj, NEW selected \in selectTargetNodes(obj, ReadyNodes)
  PROVE  /\ obj.allNodes => selected = ReadyNodes
         /\ \A n \in selected \cap obj.selected : n \in ReadyNodes
  <1>1. CASE obj.allNodes
    BY <1>1 DEF selectTargetNodes
  <1>2. CASE ~obj.allNodes /\ isNeedNodeSelection(obj, ReadyNodes)
    <2>1. selected \in selectNodesByReplicas(obj.selected, ReadyNodes, obj.replicas)
      BY <1>2 DEF selectTargetNodes
    <2>2. selected \subseteq ReadyNodes
      BY <2>1, SelectionReady
    <2> QED
      BY <1>2, <2>2
  <1>3. CASE ~obj.allNodes /\ ~isNeedNodeSelection(obj, ReadyNodes)
    BY <1>3 DEF selectTargetNodes, isNeedNodeSelection
  <1> QED
    BY <1>1, <1>2, <1>3

LEMMA StartRemembers ==
  ASSUME TypeInv, AttentionInv, StartReconcile
  PROVE  AttentionInv'
  <1>0. UNCHANGED <<prefetch, prefetchCache, nodes>> /\ recPc = "idle"
    BY DEF StartReconcile, objectVars
  <1>t. Trailing'
    BY <1>0 DEF AttentionInv, Trailing
  <1>1. CASE /\ ~prefetchCache.live \/ (prefetchCache.deleting /\ ~prefetchCache.finalizer)
             /\ UNCHANGED recPc
    BY <1>0, <1>1, <1>t
    DEF AttentionInv, Trailing, Snapshot, SelectionFresh, Remembered, WorkPcs
  <1>2. ASSUME recPc' \in {"deleteAll", "addFinalizer"}, recObj' = prefetchCache
        PROVE  AttentionInv'
    BY <1>0, <1>2, <1>t DEF AttentionInv, Snapshot, SelectionFresh, Remembered, WorkPcs
  <1>3. ASSUME recPc' = "list", recObj' = prefetchCache, prefetchCache.live,
               ~prefetchCache.deleting,
               recSelected' \in selectTargetNodes(prefetchCache, ReadyNodes)
        PROVE  AttentionInv'
    <2>1. SelectionFresh'
      <3>1. /\ prefetchCache.allNodes => recSelected' = ReadyNodes
            /\ \A n \in recSelected' \cap prefetchCache.selected : n \in ReadyNodes
        BY <1>3, SelectedReady
      <3> QED
        BY <1>0, <1>3, <3>1 DEF SelectionFresh, ReadyNodes
    <2> QED
      BY <1>0, <1>3, <1>t, <2>1 DEF AttentionInv, Snapshot, Remembered
  <1> QED
    BY <1>1, <1>2, <1>3 DEF StartReconcile

LEMMA AddFinalizerRemembers ==
  ASSUME TypeInv, AttentionInv, AddFinalizer
  PROVE  AttentionInv'
  <1>1. prefetchCache' = prefetchCache /\ Finish(TRUE)
    BY DEF AddFinalizer
  <1>2. CASE prefetch' = prefetch
    BY <1>1, <1>2, FailsBack
  <1>3. CASE Update([recObj EXCEPT !.finalizer = TRUE])
    <2>1. /\ prefetch'.uid = prefetch.uid /\ prefetch'.generation = prefetch.generation
          /\ prefetch'.finalizer
      BY <1>3, ObjectTypes DEF Update, Prefetch
    <2>2. Trailing'
      BY <1>1, <2>1 DEF AttentionInv, Trailing
    <2> QED
      BY <1>1, <2>2, ComesBack DEF Finish
  <1> QED
    BY <1>2, <1>3 DEF AddFinalizer

LEMMA RemoveFinalizerRemembers ==
  ASSUME TypeInv, AttentionInv, RemoveFinalizer
  PROVE  AttentionInv'
  <1>1. prefetchCache' = prefetchCache
    BY DEF RemoveFinalizer
  <1>2. CASE Finish(TRUE) /\ prefetch' = prefetch
    BY <1>1, <1>2, FailsBack
  <1>3. CASE prefetch' = NoPrefetch /\ Finish(FALSE)
    <2>1. Trailing'
      BY <1>1, <1>3, NoVersion DEF AttentionInv, Trailing
    <2> QED
      BY <1>3, <2>1, NoVersion
      DEF AttentionInv, Snapshot, SelectionFresh, Remembered, Finish, WorkPcs
  <1> QED
    BY <1>2, <1>3 DEF RemoveFinalizer, Update

LEMMA RolloutRemembers ==
  ASSUME AttentionInv,
         DeleteAllOf \/ ListNodeImageSets \/ ApplyNodeImageSet \/ ListSurplus
         \/ DeleteSurplus \/ CountNodeImageSets
  PROVE  AttentionInv'
  <1>1. UNCHANGED <<prefetch, prefetchCache, nodes>>
    BY DEF DeleteAllOf, ListNodeImageSets, ApplyNodeImageSet, ListSurplus, DeleteSurplus,
           CountNodeImageSets, objectVars
  <1>2. CASE Finish(TRUE)
    BY <1>1, <1>2, FailsBack
  <1>3. CASE ~Finish(TRUE)
    <2>1. /\ UNCHANGED <<recObj, recSelected, queued>>
          /\ recPc # "idle" /\ recPc' # "idle"
          /\ recPc' \in WorkPcs => recPc \in WorkPcs
      BY <1>3 DEF DeleteAllOf, ListNodeImageSets, ApplyNodeImageSet, ListSurplus, DeleteSurplus,
                  CountNodeImageSets, Goto, WorkPcs
    <2> QED
      BY <1>1, <2>1, GoesOn
  <1> QED
    BY <1>2, <1>3

LEMMA ReportRemembers ==
  ASSUME TypeInv, AttentionInv, ReportStatus
  PROVE  AttentionInv'
  <1>0. UNCHANGED <<prefetchCache, nodes>> /\ recPc = "report"
    BY DEF ReportStatus
  <1>1. CASE prefetch' = prefetch /\ Finish(TRUE)
    BY <1>0, <1>1, FailsBack
  <1>2. CASE /\ prefetch' = [prefetch EXCEPT !.observed = recObj.generation,
                                             !.selected = recSelected, !.ready = recReady]
             /\ Finish(~recReady)
    <2>1. /\ prefetch'.uid = prefetch.uid /\ prefetch'.generation = prefetch.generation
          /\ prefetch'.finalizer = prefetch.finalizer /\ prefetch'.deleting = prefetch.deleting
          /\ prefetch'.observed = recObj.generation
          /\ prefetch'.selected = recSelected /\ prefetch'.ready = recReady
      BY <1>2, ObjectTypes DEF Prefetch
    <2>2. Trailing'
      BY <1>0, <2>1 DEF AttentionInv, Trailing
    <2>3. CASE ~recReady \/ queued
      BY <1>2, <2>2, <2>3, ComesBack DEF Finish
    <2>4. CASE recReady /\ ~queued
      <3>1. prefetchCache = recObj
        BY <1>0, <2>4 DEF AttentionInv, Snapshot
      <3>2. Remembered'
        <4> SUFFICES ASSUME prefetchCache' = prefetch'
                     PROVE  Settled'
          BY DEF Remembered
        <4>1. prefetch' = recObj
          BY <1>0, <3>1
        <4>2. /\ ~recObj.deleting
              /\ recObj.allNodes => recSelected = ReadyNodes
              /\ \A n \in recSelected \cap recObj.selected : nodes[n] = "ready"
          BY <1>0, <2>4 DEF AttentionInv, SelectionFresh, WorkPcs
        <4>3. recObj.selected = recSelected /\ recObj.ready /\ recObj.observed = recObj.generation
          BY <2>1, <2>4, <4>1
        <4> QED
          BY <1>0, <4>1, <4>2, <4>3 DEF Settled, Outdated, ReadyNodes
      <3> QED
        BY <1>2, <2>2, <3>2 DEF AttentionInv, Snapshot, SelectionFresh, Finish, WorkPcs
    <2> QED
      BY <2>3, <2>4
  <1> QED
    BY <1>1, <1>2 DEF ReportStatus

-----------------------------------------------------------------------------
(***************************************************************************)
(* The informers, nodes, users and restarts.                               *)
(***************************************************************************)

LEMMA SyncRemembers ==
  ASSUME TypeInv, AttentionInv, PrefetchSync
  PROVE  AttentionInv'
  <1>1. /\ UNCHANGED <<prefetch, nodes, recPc, recObj, recSelected>>
        /\ prefetchCache' = prefetch /\ queued'
    BY DEF PrefetchSync, recVars
  <1>2. Trailing'
    BY <1>1, VersionTypes DEF AttentionInv, Trailing
  <1> QED
    BY <1>1, <1>2 DEF AttentionInv, Snapshot, SelectionFresh, Remembered

LEMMA NodeEventRemembers ==
  ASSUME TypeInv, AttentionInv, NEW n \in Nodes, NodeEvent(n)
  PROVE  AttentionInv'
  <1>1. PICK status : NodeChanges(n, status)
    BY DEF NodeEvent
  <1>2. /\ UNCHANGED <<prefetch, prefetchCache, recPc, recObj, recSelected>>
        /\ nodes' = [nodes EXCEPT ![n] = status]
        /\ queued => queued'
        /\ ~queued' /\ prefetchCache.live
           => ~prefetchCache.allNodes /\ n \notin prefetchCache.selected
    BY <1>1, ObjectTypes
    DEF NodeChanges, Concerns, objectVars, recVars, TypeInv, TypeOK, ReconcilerTypeOK
  <1>3. /\ \A m \in Nodes : m # n => nodes'[m] = nodes[m]
        /\ recSelected \subseteq Nodes /\ prefetch.selected \subseteq Nodes
    BY <1>2, ObjectTypes DEF TypeInv, TypeOK, ReconcilerTypeOK, Prefetch
  <1>4. Trailing' /\ Snapshot'
    BY <1>2 DEF AttentionInv, Trailing, Snapshot
  <1>5. SelectionFresh'
    <2> SUFFICES ASSUME recPc \in WorkPcs, ~queued'
                 PROVE  /\ ~recObj.allNodes
                        /\ \A m \in recSelected \cap recObj.selected : nodes'[m] = "ready"
      BY <1>2 DEF AttentionInv, SelectionFresh
    <2>1. recObj.live /\ prefetchCache = recObj /\ ~queued
      BY <1>2 DEF AttentionInv, SelectionFresh, Snapshot, WorkPcs
    <2>2. ~recObj.allNodes /\ n \notin recObj.selected
      BY <1>2, <2>1
    <2> QED
      BY <1>3, <2>1, <2>2 DEF AttentionInv, SelectionFresh
  <1>6. Remembered'
    <2> SUFFICES ASSUME recPc = "idle", ~queued', prefetchCache = prefetch, prefetch.live
                 PROVE  Settled'
      BY <1>2 DEF Remembered
    <2>1. ~prefetch.allNodes /\ n \notin prefetch.selected /\ Settled
      BY <1>2 DEF AttentionInv, Remembered
    <2> QED
      BY <1>2, <1>3, <2>1 DEF Settled, Outdated
  <1> QED
    BY <1>4, <1>5, <1>6 DEF AttentionInv

\* The cache notices every edit.
LEMMA EditDiffers ==
  ASSUME TypeInv, OrphanInv, AttentionInv, CreatePrefetch \/ UpdatePrefetch \/ DeletePrefetch
  PROVE  Trailing' /\ (prefetchCache # prefetch' \/ ~prefetch'.live)
  <1>0. prefetchCache' = prefetchCache
    BY DEF CreatePrefetch, UpdatePrefetch, DeletePrefetch, Edit
  <1>t. prefetchCache.uid \in Nat /\ prefetchCache.uid <= edits /\ edits \in Nat
    BY ObjectTypes, UidTypes DEF OrphanInv, Uids
  <1>1. CASE CreatePrefetch
    <2>1. prefetch'.uid = edits + 1 /\ ~prefetch'.deleting
      BY <1>1 DEF CreatePrefetch, Edit, NoPrefetch
    <2> QED
      BY <1>0, <1>t, <2>1 DEF AttentionInv, Trailing
  <1>2. CASE /\ prefetch.live
             /\ UpdatePrefetch \/ (DeletePrefetch /\ prefetch.finalizer)
    <2>1. /\ prefetch'.uid = prefetch.uid /\ prefetch'.generation = prefetch.generation + 1
          /\ prefetch'.deleting => prefetch'.finalizer
      <3>1. CASE UpdatePrefetch
        BY <3>1, ObjectTypes DEF UpdatePrefetch, Edit, Prefetch
      <3>2. CASE DeletePrefetch /\ prefetch.finalizer
        BY <3>2, ObjectTypes DEF DeletePrefetch, Edit, Prefetch
      <3> QED
        BY <1>2, <3>1, <3>2
    <2>2. prefetch.uid > 0
      BY <1>2 DEF OrphanInv, Uids
    <2> QED
      BY <1>0, <1>t, <2>1, <2>2, VersionTypes DEF AttentionInv, Trailing
  <1>3. CASE DeletePrefetch /\ ~prefetch.finalizer
    <2>1. prefetch' = NoPrefetch
      BY <1>3 DEF DeletePrefetch, Edit
    <2> QED
      BY <1>0, <2>1, NoVersion DEF AttentionInv, Trailing
  <1> QED
    BY <1>1, <1>2, <1>3 DEF UpdatePrefetch, DeletePrefetch

LEMMA EditRemembers ==
  ASSUME TypeInv, OrphanInv, AttentionInv, CreatePrefetch \/ UpdatePrefetch \/ DeletePrefetch
  PROVE  AttentionInv'
  <1>1. UNCHANGED <<prefetchCache, nodes, queued, recPc, recObj, recSelected>>
    BY DEF CreatePrefetch, UpdatePrefetch, DeletePrefetch, Edit, controllerVars, recVars
  <1>2. Snapshot' /\ SelectionFresh'
    BY <1>1 DEF AttentionInv, Snapshot, SelectionFresh, ReadyNodes
  <1> QED
    BY <1>1, <1>2, EditDiffers DEF AttentionInv, Remembered

LEMMA RestartRemembers ==
  ASSUME TypeInv, AttentionInv, Restart
  PROVE  AttentionInv'
  <1>1. prefetch' = prefetch /\ prefetchCache' = prefetch /\ recPc' = "idle"
        /\ queued' = prefetch.live
    BY DEF Restart
  <1> QED
    BY <1>1, VersionTypes
    DEF AttentionInv, Trailing, Snapshot, SelectionFresh, Remembered, WorkPcs

-----------------------------------------------------------------------------
LEMMA InitRemembers == Init => AttentionInv
  <1> SUFFICES ASSUME Init PROVE AttentionInv
    OBVIOUS
  <1>1. prefetch = NoPrefetch /\ prefetchCache = NoPrefetch /\ recPc = "idle"
    BY DEF Init, Idle
  <1> QED
    BY <1>1, NoVersion
    DEF AttentionInv, Trailing, Snapshot, SelectionFresh, Remembered, WorkPcs

LEMMA AttentionStep == TypeInv /\ OrphanInv /\ AttentionInv /\ [Next]_vars => AttentionInv'
  <1> SUFFICES ASSUME TypeInv, OrphanInv, AttentionInv, [Next]_vars
               PROVE  AttentionInv'
    OBVIOUS
  <1>1. CASE Starts
    BY <1>1, StartRemembers DEF Starts
  <1>2. CASE Reconciles
    BY <1>2, AddFinalizerRemembers, RemoveFinalizerRemembers, RolloutRemembers, ReportRemembers
    DEF Reconciles, ReconcileStep
  <1>3. CASE Syncs
    BY <1>3, SyncRemembers DEF Syncs
  <1>4. ASSUME NEW n \in Nodes, SetSyncs(n)
        PROVE  AttentionInv'
    <2>1. /\ UNCHANGED <<prefetch, prefetchCache, nodes, recPc, recObj, recSelected>>
          /\ queued => queued'
      BY <1>4 DEF SetSyncs, NodeImageSetSync, recVars
    <2> QED
      BY <2>1, GoesOn
  <1>5. CASE Collects \/ (\E n \in Nodes : DaemonStep(n)) \/ UNCHANGED vars
    <2>1. UNCHANGED <<prefetch, prefetchCache, nodes, recPc, recObj, recSelected, queued>>
      BY <1>5 DEF Collects, CollectorStep, CollectorLists, CollectorGets, CollectorUpdates,
                  CollectorDeletes, Elsewhere, DaemonStep, DaemonAdopts, DaemonReads,
                  DaemonCompletes, DaemonBegins, DaemonFallsBack, DaemonFinalizes,
                  DaemonReports, DaemonWrites, controllerVars, objectVars, recVars, vars
    <2> QED
      BY <2>1, GoesOn
  <1>6. CASE CreatePrefetch \/ UpdatePrefetch \/ DeletePrefetch
    BY <1>6, EditRemembers
  <1>7. ASSUME NEW n \in Nodes, NodeEvent(n)
        PROVE  AttentionInv'
    BY <1>7, NodeEventRemembers
  <1>8. CASE Restart
    BY <1>8, RestartRemembers
  <1> QED
    BY <1>1, <1>2, <1>3, <1>4, <1>5, <1>6, <1>7, <1>8 DEF Next, Environment

(***************************************************************************)
(* An ImagePrefetch with something left to do is never forgotten, although *)
(* a ready one is not requeued: whatever changes while a reconcile is at   *)
(* work either is seen by it or queues another one.                        *)
(***************************************************************************)
THEOREM NothingIsForgotten == Spec => []Attended
  <1>1. AttentionInv => Attended
    BY DEF AttentionInv, Remembered, Settled, Attended, WillReconcile
  <1>2. Init => TypeInv /\ OrphanInv /\ AttentionInv
    BY InitType, OrphanInit, InitRemembers
  <1>3. TypeInv /\ OrphanInv /\ AttentionInv /\ [Next]_vars
           => (TypeInv /\ OrphanInv /\ AttentionInv)'
    BY TypeStep, OrphanStep, AttentionStep
  <1> QED
    BY <1>1, <1>2, <1>3, PTL DEF Spec

=============================================================================
