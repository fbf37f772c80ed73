------------------------ MODULE PrefetchClusterRollout ------------------------
(***************************************************************************)
(* The limits of a rollout, and what Ready means, for an ImagePrefetch for *)
(* all nodes while no node comes, goes or changes its readiness: with any  *)
(* images, limits and bounds, any edits of the images, failing calls and   *)
(* restarts.                                                               *)
(*                                                                         *)
(* Without these circumstances the limits do not hold: they are kept for a *)
(* prefix of the selection, and only as long as it stays the same one.     *)
(***************************************************************************)
EXTENDS PrefetchClusterStatus

\* Nodes stay as they are, and whoever edits the ImagePrefetch wants all nodes.
Quiet == UNCHANGED nodes /\ (prefetch'.live => prefetch'.allNodes)

\* Lists of images can be told apart by their lengths, which is all that
\* getMaxNodeImageSetsToCreate looks at.
DistinctSizes ==
    \A wanted, other \in ImageLists : Cardinality(wanted) = Cardinality(other) => wanted = other

-----------------------------------------------------------------------------
(***************************************************************************)
(* Where things come from.                                                 *)
(***************************************************************************)

\* The round of the loop that is for node n.
AppliedNow(n) ==
    LET i == Cardinality(recApplied)
    IN  /\ recPc = "apply" /\ n \in recSelected
        /\ Position(n, recSelected) = i /\ i < recLimit
        /\ sets'[n] = Applied(sets[n], recObj.images, registryPolicy(i), recObj.generation)

\* Specs of NodeImageSets come from the loop only.
LEMMA StepSets ==
  TypeInv /\ [Next]_vars => \A n \in Nodes : Inherits(sets[n], sets'[n]) \/ AppliedNow(n)
  <1> SUFFICES ASSUME TypeInv, [Next]_vars, NEW n \in Nodes
               PROVE  Inherits(sets[n], sets'[n]) \/ AppliedNow(n)
    OBVIOUS
  <1>1. CASE ~ApplyNodeImageSet
    BY <1>1, StepInherits DEF SetsInherit
  <1>2. CASE UNCHANGED sets
    BY <1>2 DEF Inherits
  <1>3. CASE ApplyNodeImageSet /\ ~UNCHANGED sets
    <2> DEFINE i == Cardinality(recApplied)
    <2>1. PICK m \in recSelected :
             /\ Position(m, recSelected) = i
             /\ sets' = [sets EXCEPT ![m] =
                           Applied(@, recObj.images, registryPolicy(i), recObj.generation)]
      BY <1>3 DEF ApplyNodeImageSet
    <2>2. recPc = "apply" /\ i < recLimit
      BY <1>3 DEF ApplyNodeImageSet
    <2> HIDE DEF i
    <2>3. CASE m = n
      <3>1. sets'[n] = Applied(sets[n], recObj.images, registryPolicy(i), recObj.generation)
        BY <2>1, <2>3, SetTypes
      <3> QED
        BY <2>1, <2>2, <2>3, <3>1 DEF AppliedNow, i
    <2>4. CASE m # n
      BY <2>1, <2>4, SetTypes DEF Inherits
    <2> QED
      BY <2>3, <2>4
  <1> QED
    BY <1>1, <1>2, <1>3

\* The informers' copies are copies.
LEMMA StepCaches ==
  TypeInv /\ [Next]_vars =>
      /\ prefetchCache' = prefetchCache \/ prefetchCache' = prefetch
      /\ \A n \in Nodes : setsCache'[n] = setsCache[n] \/ setsCache'[n] = sets[n]
  <1>1. CASE CreatePrefetch \/ UpdatePrefetch \/ DeletePrefetch
    BY <1>1 DEF CreatePrefetch, UpdatePrefetch, DeletePrefetch, Edit
  <1>2. CASE ~CreatePrefetch /\ ~UpdatePrefetch /\ ~DeletePrefetch
    BY <1>2, StepCopies DEF Copies
  <1> QED
    BY <1>1, <1>2

\* A reconcile begins with a selection and keeps it.
LEMMA StepWork ==
  ASSUME TypeInv, [Next]_vars, recPc' \in WorkPcs
  PROVE  \/ recPc \in WorkPcs /\ UNCHANGED <<recObj, recSelected>>
         \/ /\ recObj' = prefetchCache
            /\ prefetchCache.live /\ ~prefetchCache.deleting /\ prefetchCache.finalizer
            /\ recSelected' \in selectTargetNodes(prefetchCache, ReadyNodes)
  <1>1. CASE UNCHANGED recVars
    BY <1>1 DEF recVars
  <1>2. CASE Starts
    BY <1>2 DEF Starts, StartReconcile, WorkPcs
  <1>3. CASE Reconciles \/ Restart
    BY <1>3 DEF Reconciles, ReconcileStep, AddFinalizer, DeleteAllOf, RemoveFinalizer,
                ListNodeImageSets, ApplyNodeImageSet, ListSurplus, DeleteSurplus,
                CountNodeImageSets, ReportStatus, Finish, Goto, Restart, WorkPcs
  <1> QED
    BY <1>1, <1>2, <1>3, OthersWork DEF Others, Next, Environment

-----------------------------------------------------------------------------
(***************************************************************************)
(* Quiet nodes: the selection is all ready nodes, for ever the same ones.  *)
(***************************************************************************)

AllSelected ==
    /\ prefetch.live => prefetch.allNodes
    /\ prefetchCache.live => prefetchCache.allNodes
    /\ recPc \in WorkPcs => recSelected = ReadyNodes

OnReadyNodes ==
    \A n \in Nodes : sets[n].live \/ setsCache[n].live => n \in ReadyNodes

CalmInv == AllSelected /\ OnReadyNodes

LEMMA CalmInit == Init => CalmInv
  BY NoSet, NoVersion
  DEF Init, Idle, CalmInv, AllSelected, OnReadyNodes, WorkPcs

LEMMA CalmStep == TypeInv /\ CalmInv /\ [Next]_vars /\ [Quiet]_vars => CalmInv'
  <1> SUFFICES ASSUME TypeInv, CalmInv, [Next]_vars, [Quiet]_vars PROVE CalmInv'
    OBVIOUS
  <1>0. nodes' = nodes /\ (prefetch'.live => prefetch'.allNodes)
    BY DEF Quiet, vars, objectVars, CalmInv, AllSelected
  <1>r. ReadyNodes' = ReadyNodes
    BY <1>0 DEF ReadyNodes
  <1>1. AllSelected'
    <2>1. prefetchCache'.live => prefetchCache'.allNodes
      BY StepCaches DEF CalmInv, AllSelected
    <2>2. ASSUME recPc' \in WorkPcs
          PROVE  recSelected' = ReadyNodes
      BY <2>2, StepWork DEF CalmInv, AllSelected, selectTargetNodes
    <2> QED
      BY <1>0, <1>r, <2>1, <2>2 DEF AllSelected
  <1>2. ASSUME NEW n \in Nodes, sets'[n].live \/ setsCache'[n].live
        PROVE  n \in ReadyNodes
    <2>1. sets[n].live \/ setsCache[n].live => n \in ReadyNodes
      BY DEF CalmInv, OnReadyNodes
    <2>2. setsCache'[n].live => n \in ReadyNodes
      BY <2>1, StepCaches
    <2>3. CASE Inherits(sets[n], sets'[n])
      BY <1>2, <2>1, <2>2, <2>3 DEF Inherits
    <2>4. CASE AppliedNow(n)
      BY <2>4 DEF AppliedNow, CalmInv, AllSelected, WorkPcs
    <2> QED
      BY <2>3, <2>4, StepSets
  <1>3. OnReadyNodes'
    BY <1>r, <1>2 DEF OnReadyNodes
  <1> QED
    BY <1>1, <1>3 DEF CalmInv

-----------------------------------------------------------------------------
(***************************************************************************)
(* Quiet nodes: as many as selected are all that are selected.             *)
(***************************************************************************)

LEMMA QuietReturns ==
  ASSUME [Quiet]_vars PROVE [CleanReturn]_vars
  BY DEF Quiet, CleanReturn

LEMMA MeansAllStep ==
  ASSUME TypeInv, OrphanInv, DaemonInv, SpecInv, CalmInv, ReadyMeansAllNodes, [Next]_vars
  PROVE  ReadyMeansAllNodes'
  <1> SUFFICES ASSUME recPc' = "report", recReady'
               PROVE  recSelected' \subseteq Served'
    BY DEF ReadyMeansAllNodes
  <1>1. recObj' = recObj => Served \subseteq Served'
    BY HasGrows DEF Served
  <1>2. CASE CountNodeImageSets
    <2> DEFINE counted == Counted(recObj.generation)
    <2>1. /\ recPc \in WorkPcs /\ UNCHANGED <<recObj, recSelected>>
          /\ Cardinality(counted) = Cardinality(recSelected)
      BY <1>2, CountedIsAvailable DEF CountNodeImageSets, WorkPcs
    <2>2. counted \subseteq recSelected
      BY <2>1 DEF CalmInv, AllSelected, OnReadyNodes, Counted, Current
    <2>3. IsFiniteSet(recSelected)
      BY LocalTypes, NodesAssumption, FS_Subset
    <2>4. counted = recSelected
      BY <2>1, <2>2, <2>3, FS_Subset
    <2> QED
      BY <1>1, <2>1, <2>4, CountedIsServed
  <1>3. CASE ~CountNodeImageSets
    BY <1>1, <1>3, OnlyCountReports DEF ReadyMeansAllNodes
  <1> QED
    BY <1>2, <1>3

(***************************************************************************)
(* While nodes are quiet Ready means that every selected node has had      *)
(* every image, provided that no ImagePrefetch is created again while      *)
(* something of its predecessor is left: as many NodeImageSets as nodes    *)
(* are selected count, and there are none elsewhere.                       *)
(***************************************************************************)
THEOREM QuietReadyMeansAll ==
  Spec /\ [][Quiet]_vars /\ [][CleanCreation]_vars => []ReadyMeansAllNodes
  <1> DEFINE Inv == StatusInv /\ SpecInv /\ CalmInv /\ ReadyMeansAllNodes
  <1>1. Init => Inv
    BY StatusInit, CalmInit, NoVersion DEF Init, Idle, SpecInv, ReadyMeansAllNodes
  <1>2. Inv /\ [Next]_vars /\ [Quiet]_vars /\ [CleanCreation]_vars => Inv'
    <2> SUFFICES ASSUME Inv, [Next]_vars, [Quiet]_vars, [CleanCreation]_vars
                 PROVE  Inv'
      OBVIOUS
    <2>1. StatusInv'
      BY QuietReturns, StatusStep
    <2>2. SpecInv' /\ CalmInv'
      BY SpecStep, CalmStep DEF StatusInv
    <2>3. ReadyMeansAllNodes'
      BY MeansAllStep DEF StatusInv
    <2> QED
      BY <2>1, <2>2, <2>3
  <1>3. Inv => ReadyMeansAllNodes
    OBVIOUS
  <1> HIDE DEF Inv
  <1> QED
    BY <1>1, <1>2, <1>3, PTL DEF Spec

-----------------------------------------------------------------------------
(***************************************************************************)
(* Lists of images and the numbers of statuses that stand for them.        *)
(***************************************************************************)

Retells(old, new) == new.available => old.available /\ new.statuses = old.statuses

\* The daemon of node n reports on what it has read.
Tells(n) == /\ seen[n].live /\ seen[n].images \subseteq has'[n]
            /\ sets'[n].statuses = Cardinality(seen[n].images)

LEMMA DeletedRetells ==
  ASSUME NEW set \in NodeImageSet
  PROVE  Retells(set, Deleted(set))
  BY DEF Retells, Deleted, NodeImageSet, NoNodeImageSet

LEMMA AppliedRetells ==
  ASSUME NEW set \in NodeImageSet, NEW images, NEW policy, NEW generation
  PROVE  Retells(set, Applied(set, images, policy, generation))
  <1> DEFINE new == [set EXCEPT !.images = images, !.policy = policy,
                                !.prefetchGeneration = generation, !.live = TRUE]
  <1>1. new.available = set.available /\ new.statuses = set.statuses
    BY DEF NodeImageSet
  <1>2. /\ [new EXCEPT !.generation = new.generation + 1].available = new.available
        /\ [new EXCEPT !.generation = new.generation + 1].statuses = new.statuses
    BY DEF NodeImageSet
  <1> QED
    BY <1>1, <1>2 DEF Retells, Applied

LEMMA OneRetells ==
  ASSUME TypeInv, NEW n, NEW set, sets' = [sets EXCEPT ![n] = set],
         n \in Nodes => Retells(sets[n], set)
  PROVE  \A m \in Nodes : Retells(sets[m], sets'[m])
  BY SetTypes DEF Retells

LEMMA ReconcilesRetell ==
  ASSUME TypeInv, ReconcileStep
  PROVE  \A n \in Nodes : Retells(sets[n], sets'[n])
  <1>1. CASE UNCHANGED sets
    BY <1>1 DEF Retells
  <1>2. CASE DeleteAllOf
    <2> SUFFICES ASSUME NEW n \in Nodes PROVE Retells(sets[n], sets'[n])
      OBVIOUS
    <2>1. sets'[n] = sets[n] \/ sets'[n] = Deleted(sets[n])
      BY <1>2 DEF DeleteAllOf
    <2> QED
      BY <2>1, SetTypes, DeletedRetells DEF Retells
  <1>3. ASSUME NEW n, sets' = [sets EXCEPT ![n] = Deleted(@)]
        PROVE  \A m \in Nodes : Retells(sets[m], sets'[m])
    BY <1>3, SetTypes, DeletedRetells, OneRetells
  <1>4. ASSUME NEW n, NEW policy,
               sets' = [sets EXCEPT ![n] = Applied(@, recObj.images, policy, recObj.generation)]
        PROVE  \A m \in Nodes : Retells(sets[m], sets'[m])
    BY <1>4, SetTypes, AppliedRetells, OneRetells
  <1> QED
    BY <1>1, <1>2, <1>3, <1>4
    DEF ReconcileStep, AddFinalizer, RemoveFinalizer, ListNodeImageSets, ApplyNodeImageSet,
        ListSurplus, DeleteSurplus, CountNodeImageSets, ReportStatus, objectVars

LEMMA CollectorRetells ==
  ASSUME TypeInv, CollectorStep
  PROVE  \A n \in Nodes : Retells(sets[n], sets'[n])
  <1>1. CASE UNCHANGED sets
    BY <1>1 DEF Retells
  <1>2. CASE sets' = [sets EXCEPT ![gcNode] = IF @.deleting THEN NoNodeImageSet
                                              ELSE [@ EXCEPT !.finalizer = FALSE]]
    <2>1. ASSUME NEW set \in NodeImageSet
          PROVE  Retells(set, IF set.deleting THEN NoNodeImageSet
                              ELSE [set EXCEPT !.finalizer = FALSE])
      BY DEF Retells, NodeImageSet, NoNodeImageSet
    <2> QED
      BY <1>2, <2>1, SetTypes, OneRetells
  <1>3. CASE sets' = [sets EXCEPT ![gcNode] = Deleted(@)]
    BY <1>3, SetTypes, DeletedRetells, OneRetells
  <1> QED
    BY <1>1, <1>2, <1>3
    DEF CollectorStep, CollectorLists, CollectorGets, CollectorUpdates, CollectorDeletes

LEMMA DaemonTells ==
  ASSUME TypeInv, NEW n \in Nodes, DaemonStep(n), NEW m \in Nodes
  PROVE  sets'[m].available => Retells(sets[m], sets'[m]) \/ Tells(m)
  <1>1. sets[n] \in NodeImageSet
    BY SetTypes
  <1>2. CASE DaemonAdopts(n)
    <2>1. Retells(sets[n], [sets[n] EXCEPT !.finalizer = TRUE])
      BY <1>1 DEF Retells, NodeImageSet
    <2> QED
      BY <1>2, <2>1, OneRetells DEF DaemonAdopts, DaemonWrites
  <1>3. CASE DaemonReads(n)
    BY <1>3 DEF DaemonReads, objectVars, Retells
  <1>4. ASSUME DaemonReports(n, FALSE)
        PROVE  Retells(sets[m], sets'[m])
    <2> DEFINE set == [sets[n] EXCEPT !.observed = seen[n].generation,
                                      !.available = FALSE,
                                      !.statuses = Cardinality(seen[n].images)]
    <2>1. Retells(sets[n], set)
      BY <1>1 DEF Retells, NodeImageSet
    <2>2. sets' = [sets EXCEPT ![n] = set]
      BY <1>4 DEF DaemonReports, DaemonWrites
    <2> HIDE DEF set
    <2> QED
      BY <2>1, <2>2, OneRetells
  <1>5. CASE DaemonCompletes(n)
    <2>1. CASE m # n
      BY <1>5, <2>1, SetTypes DEF DaemonCompletes, DaemonReports, DaemonWrites, Retells
    <2>2. CASE m = n
      <3>1. sets'[n].statuses = Cardinality(seen[n].images) /\ seen[n].live
        BY <1>1, <1>5, SetTypes DEF DaemonCompletes, DaemonReports, DaemonWrites, NodeImageSet
      <3>2. seen[n].images \subseteq has'[n]
        BY <1>5, SetTypes DEF DaemonCompletes
      <3> QED
        BY <2>2, <3>1, <3>2 DEF Tells
    <2> QED
      BY <2>1, <2>2
  <1>6. CASE DaemonFinalizes(n)
    <2>1. sets' = [sets EXCEPT ![n] = NoNodeImageSet]
      BY <1>6 DEF DaemonFinalizes, DaemonWrites
    <2> QED
      BY <2>1, OneRetells DEF Retells, NoNodeImageSet
  <1> QED
    BY <1>2, <1>3, <1>4, <1>5, <1>6 DEF DaemonStep, DaemonBegins, DaemonFallsBack

\* Statuses come from the daemons only.
LEMMA StepStatuses ==
  TypeInv /\ [Next]_vars => \A n \in Nodes : Retells(sets[n], sets'[n]) \/ Tells(n)
  <1> SUFFICES ASSUME TypeInv, [Next]_vars, NEW n \in Nodes
               PROVE  Retells(sets[n], sets'[n]) \/ Tells(n)
    OBVIOUS
  <1>1. CASE UNCHANGED sets
    BY <1>1 DEF Retells
  <1>2. CASE Starts \/ Syncs \/ Environment \/ (\E m \in Nodes : SetSyncs(m)) \/ UNCHANGED vars
    <2>1. UNCHANGED sets
      BY <1>2 DEF Starts, StartReconcile, Syncs, PrefetchSync, Environment, CreatePrefetch,
                  UpdatePrefetch, DeletePrefetch, Edit, NodeEvent, NodeChanges, Restart,
                  SetSyncs, NodeImageSetSync, objectVars, vars
    <2> QED
      BY <1>1, <2>1
  <1>3. CASE Reconciles \/ Collects
    BY <1>3, ReconcilesRetell, CollectorRetells DEF Reconciles, Collects
  <1>4. ASSUME NEW m \in Nodes, DaemonStep(m)
        PROVE  Retells(sets[n], sets'[n]) \/ Tells(n)
    BY <1>4, DaemonTells DEF Retells
  <1> QED
    BY <1>2, <1>3, <1>4 DEF Next

\* What the daemons have read is what there was to read.
LEMMA StepSeen ==
  TypeInv /\ [Next]_vars =>
      \A n \in Nodes : seen'[n].live => seen'[n] = seen[n] \/ seen'[n] = sets[n]
  <1> SUFFICES ASSUME TypeInv, [Next]_vars, NEW n \in Nodes, seen'[n].live
               PROVE  seen'[n] = seen[n] \/ seen'[n] = sets[n]
    OBVIOUS
  <1>1. CASE UNCHANGED seen
    BY <1>1
  <1>2. ASSUME NEW m \in Nodes, DaemonReads(m)
        PROVE  seen'[n] = seen[n] \/ seen'[n] = sets[n]
    BY <1>2, SetTypes DEF DaemonReads
  <1>3. ASSUME NEW m \in Nodes, seen' = [seen EXCEPT ![m] = NoNodeImageSet]
        PROVE  seen'[n] = seen[n] \/ seen'[n] = sets[n]
    BY <1>3, SetTypes, NoSet
  <1>4. ASSUME NEW m \in Nodes, NodeEvent(m)
        PROVE  seen'[n] = seen[n] \/ seen'[n] = sets[n]
    BY <1>4, SetTypes, NoSet DEF NodeEvent
  <1> QED
    BY <1>1, <1>2, <1>3, <1>4
    DEF Next, Starts, Reconciles, Collects, Syncs, SetSyncs, Rests, DaemonStep, DaemonAdopts,
        DaemonCompletes, DaemonBegins, DaemonFallsBack, DaemonFinalizes, DaemonReports,
        Environment, CreatePrefetch, UpdatePrefetch, DeletePrefetch, Edit, Restart, vars

\* The number of statuses is that of a list whose images the node has had.
Told(set, images) ==
    set.available =>
        \E list \in ImageLists : list \subseteq images /\ set.statuses = Cardinality(list)

ListsCopied ==
    /\ prefetch.live => prefetch.images \in ImageLists
    /\ prefetchCache.live => prefetchCache.images \in ImageLists
    /\ recPc \in WorkPcs => recObj.images \in ImageLists
    /\ \A n \in Nodes : /\ sets[n].live => sets[n].images \in ImageLists
                        /\ setsCache[n].live => setsCache[n].images \in ImageLists
                        /\ seen[n].live => seen[n].images \in ImageLists

ListsTold == \A n \in Nodes : Told(sets[n], has[n]) /\ Told(setsCache[n], has[n])

ListInv == ListsCopied /\ ListsTold

LEMMA ListInit == Init => ListInv
  BY NoSet, NoVersion
  DEF Init, Idle, ListInv, ListsCopied, ListsTold, Told, WorkPcs, NoNodeImageSet

LEMMA ListStep == TypeInv /\ ListInv /\ [Next]_vars => ListInv'
  <1> SUFFICES ASSUME TypeInv, ListInv, [Next]_vars PROVE ListInv'
    OBVIOUS
  <1>1. prefetch'.live => prefetch'.images \in ImageLists
    <2>1. CASE CreatePrefetch \/ UpdatePrefetch \/ DeletePrefetch
      BY <2>1, NoVersion, ObjectTypes
      DEF CreatePrefetch, UpdatePrefetch, DeletePrefetch, Edit, Prefetch, NoPrefetch, ListInv,
          ListsCopied
    <2>2. CASE ~CreatePrefetch /\ ~UpdatePrefetch /\ ~DeletePrefetch
      BY <2>2, StepCopies DEF Copies, ListInv, ListsCopied
    <2> QED
      BY <2>1, <2>2
  <1>2. prefetchCache'.live => prefetchCache'.images \in ImageLists
    BY StepCaches DEF ListInv, ListsCopied
  <1>3. ASSUME recPc' \in WorkPcs
        PROVE  recObj'.images \in ImageLists
    BY <1>3, StepWork DEF ListInv, ListsCopied
  <1>4. ASSUME NEW n \in Nodes
        PROVE  /\ sets'[n].live => sets'[n].images \in ImageLists
               /\ setsCache'[n].live => setsCache'[n].images \in ImageLists
               /\ seen'[n].live => seen'[n].images \in ImageLists
    <2>1. CASE Inherits(sets[n], sets'[n])
      BY <2>1, StepCaches, StepSeen DEF Inherits, ListInv, ListsCopied
    <2>2. CASE AppliedNow(n)
      <3>1. sets'[n].images = recObj.images /\ recPc \in WorkPcs
        BY <2>2, SetTypes, AppliedSpec DEF AppliedNow, WorkPcs
      <3> QED
        BY <3>1, StepCaches, StepSeen DEF ListInv, ListsCopied
    <2> QED
      BY <2>1, <2>2, StepSets
  <1>5. ASSUME NEW n \in Nodes
        PROVE  Told(sets'[n], has'[n]) /\ Told(setsCache'[n], has'[n])
    <2>1. has[n] \subseteq has'[n]
      BY HasGrows
    <2>2. Told(sets[n], has'[n]) /\ Told(setsCache[n], has'[n])
      BY <2>1 DEF ListInv, ListsTold, Told
    <2>3. CASE Retells(sets[n], sets'[n])
      BY <2>2, <2>3, StepCaches DEF Retells, Told
    <2>4. CASE Tells(n)
      <3>1. Told(sets'[n], has'[n])
        BY <2>4 DEF Tells, Told, ListInv, ListsCopied
      <3> QED
        BY <2>2, <3>1, StepCaches
    <2> QED
      BY <2>3, <2>4, StepStatuses
  <1>6. ListsCopied'
    BY <1>1, <1>2, <1>3, <1>4 DEF ListsCopied
  <1>7. ListsTold'
    BY <1>5 DEF ListsTold
  <1> QED
    BY <1>6, <1>7 DEF ListInv

\* Where lists differ in length, whoever is counted as ready has had its images.
LEMMA PulledIsServed ==
  ASSUME DistinctSizes, ListInv, NEW n \in Nodes, Pulled(setsCache[n])
  PROVE  setsCache[n].images \subseteq has[n]
  <1>1. setsCache[n].images \in ImageLists
    BY DEF Pulled, ListInv, ListsCopied
  <1>2. PICK list \in ImageLists : /\ list \subseteq has[n]
                                  /\ Cardinality(setsCache[n].images) = Cardinality(list)
    BY DEF Pulled, ListInv, ListsTold, Told
  <1> QED
    BY <1>1, <1>2 DEF DistinctSizes

-----------------------------------------------------------------------------
(***************************************************************************)
(* The pace of a rollout.                                                  *)
(***************************************************************************)

\* Those among the first nodes that have had the images.
Reached(limit) == {n \in First(limit, ReadyNodes) : prefetch.images \subseteq has[n]}

(***************************************************************************)
(* The current generation has been given to the first nodes only, and is   *)
(* being given to no more than them; and all but some of these have had    *)
(* its images.                                                             *)
(***************************************************************************)
Paced(limit) ==
    /\ \A n \in Nodes :
          \/ sets[n].live /\ sets[n].prefetchGeneration = prefetch.generation
          \/ setsCache[n].live /\ setsCache[n].prefetchGeneration = prefetch.generation
          => n \in First(limit, ReadyNodes)
    /\ limit <= Cardinality(Reached(limit)) + MaxConcurrentNodeImageSetCreations
    /\ recPc = "apply" /\ recObj.generation = prefetch.generation => recLimit <= limit

RollInv == prefetch.live => \E limit \in Nat : Paced(limit)

LEMMA FirstGrows ==
  ASSUME NEW S \in SUBSET Nodes, NEW count \in Nat, NEW more \in Nat, count <= more
  PROVE  First(count, S) \subseteq First(more, S)
  BY PositionType DEF First

LEMMA ReachedType ==
  ASSUME NEW limit \in Nat
  PROVE  /\ Reached(limit) \in SUBSET First(limit, ReadyNodes)
         /\ First(limit, ReadyNodes) \in SUBSET Nodes
         /\ IsFiniteSet(Reached(limit)) /\ Cardinality(Reached(limit)) \in Nat
  <1>1. Reached(limit) \in SUBSET Nodes /\ First(limit, ReadyNodes) \in SUBSET Nodes
    BY DEF Reached, First, ReadyNodes
  <1> QED
    BY <1>1, CountType, NodesAssumption, FS_Subset DEF Reached

\* Only the list sets the limit of the loop.
LEMMA OnlyListLimits ==
  ASSUME [Next]_vars, recPc' = "apply", ~ListNodeImageSets
  PROVE  recPc = "apply" /\ UNCHANGED <<recObj, recLimit>>
  <1>1. CASE Others
    BY <1>1, OthersWork DEF recVars
  <1>2. CASE Starts \/ Reconciles \/ Restart
    BY <1>2 DEF Starts, StartReconcile, Reconciles, ReconcileStep, AddFinalizer, DeleteAllOf,
                RemoveFinalizer, ApplyNodeImageSet, ListSurplus, DeleteSurplus,
                CountNodeImageSets, ReportStatus, Finish, Goto, Restart
  <1> QED
    BY <1>1, <1>2 DEF Next, Environment, Others

\* Steps that are no edits: the pace may go up as far as images have been had.
LEMMA PaceGoesUp ==
  ASSUME TypeInv, CalmInv, [Next]_vars, [Quiet]_vars, Copies, prefetch'.live,
         NEW limit \in Nat, Paced(limit), NEW more \in Nat, limit <= more,
         more <= Cardinality(Reached(limit)) + MaxConcurrentNodeImageSetCreations,
         recPc' = "apply" /\ recObj'.generation = prefetch'.generation => recLimit' <= more
  PROVE  Paced(more)'
  <1>0. /\ prefetch'.generation = prefetch.generation /\ prefetch'.images = prefetch.images
        /\ ReadyNodes' = ReadyNodes
    BY DEF Copies, Quiet, vars, ReadyNodes
  <1>1. First(limit, ReadyNodes) \subseteq First(more, ReadyNodes)
    BY FirstGrows DEF ReadyNodes
  <1>2. ASSUME NEW n \in Nodes,
               \/ sets'[n].live /\ sets'[n].prefetchGeneration = prefetch'.generation
               \/ setsCache'[n].live /\ setsCache'[n].prefetchGeneration = prefetch'.generation
        PROVE  n \in First(more, ReadyNodes)
    <2>1. CASE \/ sets[n].live /\ sets[n].prefetchGeneration = prefetch.generation
               \/ setsCache[n].live /\ setsCache[n].prefetchGeneration = prefetch.generation
      BY <1>1, <2>1 DEF Paced
    <2>2. CASE AppliedNow(n) /\ sets'[n].prefetchGeneration = prefetch.generation
      <3>1. /\ recPc = "apply" /\ recObj.generation = prefetch.generation
            /\ n \in ReadyNodes /\ Position(n, ReadyNodes) < recLimit
        BY <2>2, SetTypes, AppliedSpec DEF AppliedNow, CalmInv, AllSelected, WorkPcs
      <3>2. recLimit <= limit /\ recLimit \in Nat /\ Position(n, ReadyNodes) \in Nat
        BY <3>1, LocalTypes, PositionType DEF Paced, ReadyNodes
      <3>3. Position(n, ReadyNodes) < more
        BY <3>1, <3>2
      <3> QED
        BY <3>1, <3>3 DEF First
    <2> QED
      BY <1>0, <1>2, <2>1, <2>2, StepSets, StepCaches DEF Inherits
  <1>3. more <= Cardinality(Reached(more)') + MaxConcurrentNodeImageSetCreations
    <2>1. Reached(limit) \subseteq Reached(more)'
      BY <1>0, <1>1, HasGrows DEF Reached, First, ReadyNodes
    <2>2. /\ Reached(more)' \in SUBSET Nodes
          /\ Cardinality(Reached(limit)) \in Nat
      BY <1>0, ReachedType DEF Reached, First, ReadyNodes
    <2>3. IsFiniteSet(Reached(more)') /\ Cardinality(Reached(more)') \in Nat
      BY <2>2, CountType, NodesAssumption, FS_Subset
    <2>4. Cardinality(Reached(limit)) <= Cardinality(Reached(more)')
      BY <2>1, <2>3, FS_Subset
    <2> QED
      BY <2>2, <2>3, <2>4, LimitsAssumption
  <1> QED
    BY <1>0, <1>2, <1>3 DEF Paced, First

\* The list counts no node that has not had the images.
LEMMA ListPaces ==
  ASSUME DistinctSizes, TypeInv, ListInv, SpecInv, ListNodeImageSets, prefetch.live,
         recObj.generation = prefetch.generation, NEW limit \in Nat, Paced(limit)
  PROVE  recLimit' <= Cardinality(Reached(limit)) + MaxConcurrentNodeImageSetCreations
  <1> DEFINE pulled == {n \in Nodes : Pulled(setsCache[n])}
  <1>1. PICK spec \in Specs : Follows(spec)
    BY DEF SpecInv
  <1>2. ASSUME NEW n \in pulled
        PROVE  n \in Reached(limit)
    <2>1. /\ n \in Nodes /\ setsCache[n].live
          /\ setsCache[n].prefetchGeneration = prefetch.generation
      BY DEF Pulled
    <2>2. setsCache[n].images = prefetch.images
      BY <1>1, <2>1 DEF Follows, Says
    <2>3. setsCache[n].images \subseteq has[n]
      BY <2>1, PulledIsServed
    <2> QED
      BY <2>1, <2>2, <2>3 DEF Paced, Reached
  <1>3. /\ Cardinality(pulled) <= Cardinality(Reached(limit))
        /\ Cardinality(pulled) \in Nat /\ Cardinality(Reached(limit)) \in Nat
    BY <1>2, CountType, ReachedType, FS_Subset
  <1>4. Cardinality(recSelected) \in Nat
    BY LocalTypes, CountType
  <1>5. recLimit' = IF Cardinality(pulled) < Cardinality(recSelected)
                    THEN Cardinality(pulled) + MaxConcurrentNodeImageSetCreations
                    ELSE Cardinality(recSelected)
    BY DEF ListNodeImageSets, getMaxNodeImageSetsToCreate
  <1> HIDE DEF pulled
  <1> QED
    BY <1>3, <1>4, <1>5, LimitsAssumption

LEMMA CopyRolls ==
  ASSUME DistinctSizes, TypeInv, TypeInv', CalmInv, ListInv, SpecInv, RollInv,
         [Next]_vars, [Quiet]_vars, Copies, prefetch'.live
  PROVE  \E limit \in Nat : Paced(limit)'
  <1>1. prefetch.live /\ prefetch'.generation = prefetch.generation
    BY DEF Copies
  <1>2. PICK limit \in Nat : Paced(limit)
    BY <1>1 DEF RollInv
  <1>3. Cardinality(Reached(limit)) \in Nat /\ recLimit' \in Nat
    BY ReachedType DEF TypeInv, TypeOK, ReconcilerTypeOK
  <1>4. CASE ListNodeImageSets /\ recObj.generation = prefetch.generation
    <2>1. PICK more : more = IF limit <= recLimit' THEN recLimit' ELSE limit
      OBVIOUS
    <2>2. recLimit' <= Cardinality(Reached(limit)) + MaxConcurrentNodeImageSetCreations
      BY <1>1, <1>2, <1>4, ListPaces
    <2>3. /\ more \in Nat /\ limit <= more /\ recLimit' <= more
          /\ more <= Cardinality(Reached(limit)) + MaxConcurrentNodeImageSetCreations
      BY <1>2, <1>3, <2>1, <2>2 DEF Paced
    <2> QED
      BY <1>2, <2>3, PaceGoesUp
  <1>5. CASE ~(ListNodeImageSets /\ recObj.generation = prefetch.generation)
    <2>1. ASSUME recPc' = "apply", recObj'.generation = prefetch'.generation
          PROVE  recLimit' <= limit
      <3>1. CASE ListNodeImageSets
        BY <1>1, <1>5, <2>1, <3>1 DEF ListNodeImageSets
      <3>2. CASE ~ListNodeImageSets
        BY <1>1, <1>2, <2>1, <3>2, OnlyListLimits DEF Paced
      <3> QED
        BY <3>1, <3>2
    <2> QED
      BY <1>2, <2>1, PaceGoesUp DEF Paced
  <1> QED
    BY <1>4, <1>5

\* A new generation has been given to nobody.
LEMMA EditRolls ==
  ASSUME TypeInv, CalmInv, OrphanInv, SpecInv, [CleanCreation]_vars, prefetch'.live,
         CreatePrefetch \/ UpdatePrefetch \/ DeletePrefetch
  PROVE  Paced(0)'
  <1>0. UNCHANGED <<sets, setsCache, has, nodes, recPc, recObj, recLimit>>
    BY DEF CreatePrefetch, UpdatePrefetch, DeletePrefetch, Edit, controllerVars, recVars
  <1>1. /\ \A n \in Nodes :
              /\ sets[n].live => sets[n].prefetchGeneration # prefetch'.generation
              /\ setsCache[n].live => setsCache[n].prefetchGeneration # prefetch'.generation
        /\ recPc = "apply" => recObj.generation # prefetch'.generation
    <2>1. CASE CreatePrefetch
      <3>1. ~prefetch.live /\ prefetch' # prefetch
        BY <2>1 DEF CreatePrefetch, Edit, NoPrefetch
      <3>2. CleanCreation
        BY <3>1 DEF vars, objectVars
      <3> QED
        BY <3>1, <3>2 DEF CleanCreation, OrphanInv, Applying, WorkPcs
    <2>2. CASE UpdatePrefetch \/ DeletePrefetch
      <3>1. prefetch.live /\ prefetch'.generation = prefetch.generation + 1
        BY <2>2, NoVersion, ObjectTypes DEF UpdatePrefetch, DeletePrefetch, Edit, Prefetch
      <3>2. PICK spec \in Specs : Follows(spec)
        BY <3>1 DEF SpecInv
      <3>3. prefetch'.generation \notin DOMAIN spec
        BY <3>1, VersionTypes DEF Specs
      <3> QED
        BY <3>2, <3>3 DEF Follows, Says, WorkPcs
    <2> QED
      BY <2>1, <2>2
  <1>2. Cardinality(Reached(0)') \in Nat
    <2>1. Reached(0)' \in SUBSET Nodes
      BY <1>0 DEF Reached, First, ReadyNodes
    <2> QED
      BY <2>1, CountType
  <1>3. 0 <= Cardinality(Reached(0)') + MaxConcurrentNodeImageSetCreations
    BY <1>2, LimitsAssumption
  <1> QED
    BY <1>0, <1>1, <1>3 DEF Paced

LEMMA RollStep ==
  ASSUME DistinctSizes, TypeInv, TypeInv', OrphanInv, CalmInv, ListInv, SpecInv, RollInv,
         [Next]_vars, [Quiet]_vars, [CleanCreation]_vars
  PROVE  RollInv'
  <1> SUFFICES ASSUME prefetch'.live PROVE \E limit \in Nat : Paced(limit)'
    BY DEF RollInv
  <1>1. CASE CreatePrefetch \/ UpdatePrefetch \/ DeletePrefetch
    BY <1>1, EditRolls
  <1>2. CASE ~CreatePrefetch /\ ~UpdatePrefetch /\ ~DeletePrefetch
    BY <1>2, StepCopies, CopyRolls
  <1> QED
    BY <1>1, <1>2

LEMMA PacedKeepsLimit ==
  ASSUME TypeInv, OrphanInv, SpecInv, RollInv
  PROVE  RolloutLimit
  <1>1. CASE ~prefetch.live
    <2>1. InRollout = {}
      BY <1>1 DEF OrphanInv, AllDoomed, Doomed, InRollout
    <2> QED
      BY <2>1, FS_EmptySet, LimitsAssumption DEF RolloutLimit
  <1>2. CASE prefetch.live
    <2>1. PICK limit \in Nat : Paced(limit)
      BY <1>2 DEF RollInv
    <2>2. PICK spec \in Specs : Follows(spec)
      BY <1>2 DEF SpecInv
    <2> DEFINE first == First(limit, ReadyNodes)
               reached == Reached(limit)
    <2>3. InRollout \subseteq first \ reached
      BY <2>1, <2>2 DEF InRollout, Paced, Reached, Follows, Says
    <2>4. /\ IsFiniteSet(first) /\ Cardinality(first) \in Nat /\ Cardinality(first) <= limit
          /\ first \cap reached = reached /\ Cardinality(reached) \in Nat
          /\ limit <= Cardinality(reached) + MaxConcurrentNodeImageSetCreations
      BY <2>1, FirstBound, ReachedType DEF Paced, ReadyNodes
    <2> HIDE DEF first, reached
    <2>5. /\ IsFiniteSet(first \ reached)
          /\ Cardinality(first \ reached) = Cardinality(first) - Cardinality(reached)
      BY <2>4, FS_Difference
    <2>6. Cardinality(InRollout) <= Cardinality(first \ reached)
      BY <2>3, <2>5, FS_Subset
    <2>7. Cardinality(InRollout) \in Nat
      BY CountType DEF InRollout
    <2> QED
      BY <2>4, <2>5, <2>6, <2>7, LimitsAssumption DEF RolloutLimit
  <1> QED
    BY <1>1, <1>2

(***************************************************************************)
(* While nodes are quiet and lists of images differ in length at most      *)
(* MaxConcurrentNodeImageSetCreations nodes work on the current spec at a  *)
(* time, across edits, failing calls and restarts, provided that no        *)
(* ImagePrefetch is created again while something of its predecessor is    *)
(* left: each reconcile counts those who are through and adds the limit,   *)
(* and who is through has the images.                                      *)
(***************************************************************************)
THEOREM QuietNodesKeepPace ==
  DistinctSizes =>
      (Spec /\ [][Quiet]_vars /\ [][CleanCreation]_vars => []RolloutLimit)
  <1> SUFFICES ASSUME DistinctSizes
               PROVE  Spec /\ [][Quiet]_vars /\ [][CleanCreation]_vars => []RolloutLimit
    OBVIOUS
  <1> DEFINE Inv == TypeInv /\ OrphanInv /\ SpecInv /\ CalmInv /\ ListInv /\ RollInv
  <1>1. Init => Inv
    BY InitType, OrphanInit, CalmInit, ListInit, NoVersion DEF Init, SpecInv, RollInv
  <1>2. Inv /\ [Next]_vars /\ [Quiet]_vars /\ [CleanCreation]_vars => Inv'
    <2> SUFFICES ASSUME Inv, [Next]_vars, [Quiet]_vars, [CleanCreation]_vars
                 PROVE  Inv'
      OBVIOUS
    <2>1. TypeInv' /\ OrphanInv'
      BY TypeStep, OrphanStep
    <2>2. SpecInv' /\ CalmInv' /\ ListInv'
      BY SpecStep, CalmStep, ListStep
    <2>3. RollInv'
      BY <2>1, RollStep
    <2> QED
      BY <2>1, <2>2, <2>3
  <1>3. Inv => RolloutLimit
    BY PacedKeepsLimit
  <1> HIDE DEF Inv
  <1> QED
    BY <1>1, <1>2, <1>3, PTL DEF Spec

=============================================================================
