------------------------ MODULE PrefetchClusterStatus ------------------------
(***************************************************************************)
(* What the status of an ImagePrefetch may be trusted for, for any nodes,  *)
(* images and bounds: at rest, each selected node has its NodeImageSet and *)
(* its images; and Ready is reported only when as many nodes have them as  *)
(* are selected.                                                           *)
(*                                                                         *)
(* Both hold unless one of two races happens that the code is exposed to.  *)
(***************************************************************************)
EXTENDS PrefetchClusterSafety

\* No node comes back while a run of the collector that has found it gone is
\* under way: it could delete a NodeImageSet the daemon is working on, and the
\* daemon's report would be taken for one about the next NodeImageSet.
CleanReturn ==
    \A n \in Nodes :
        nodes[n] = "absent" /\ nodes'[n] # "absent" => n \notin gcStale \cup {gcNode}

\* An ImagePrefetch is created again only when nothing is left of the
\* NodeImageSets of its predecessor, whose generations are the same numbers.
CleanCreation ==
    ~prefetch.live /\ prefetch'.live => \A n \in Nodes : ~sets[n].live /\ ~setsCache[n].live

-----------------------------------------------------------------------------
(***************************************************************************)
(* Daemons: a report is about the spec its generation says it is about.    *)
(***************************************************************************)

\* A copy of a NodeImageSet whose status is up to date tells the truth about a
\* node that has had the given images.
Honest(set, images) ==
    set.live /\ set.available /\ set.observed = set.generation =>
        /\ ~set.deleting
        /\ set.images \subseteq images
        /\ set.statuses = Cardinality(set.images)

\* A NodeImageSet, what the daemon has read of it, and what the node has had.
Tracks(set, read, images) ==
    /\ ~set.live => set = NoNodeImageSet
    /\ set.observed <= set.generation
    /\ set.deleting => set.observed < set.generation
    /\ Honest(set, images)
    /\ read.live => /\ set.live /\ set.finalizer
                    /\ read.generation <= set.generation
                    /\ read.generation = set.generation =>
                          ~set.deleting /\ read.images = set.images

AllTrack == \A n \in Nodes : Tracks(sets[n], seen[n], has[n])

CacheHonest == \A n \in Nodes : Honest(setsCache[n], has[n])

\* The daemon of a node that does not exist does nothing.
Unread == \A n \in Nodes : nodes[n] = "absent" => ~seen[n].live

\* Nor does that of a node whose NodeImageSet is collected.
Collecting == \A n \in Nodes \cap (gcStale \cup {gcNode}) : nodes[n] = "absent"

DaemonInv == AllTrack /\ CacheHonest /\ Unread /\ Collecting

LEMMA SetTypes ==
  ASSUME TypeInv
  PROVE  /\ sets \in [Nodes -> NodeImageSet] /\ setsCache \in [Nodes -> NodeImageSet]
         /\ seen \in [Nodes -> NodeImageSet] /\ has \in [Nodes -> SUBSET Images]
         /\ nodes \in [Nodes -> {"absent", "notReady", "ready"}]
         /\ gcStale \in SUBSET Nodes
  BY DEF TypeInv, TypeOK, ReconcilerTypeOK, CollectorTypeOK

LEMMA NoSet == /\ NoNodeImageSet \in NodeImageSet
               /\ ~NoNodeImageSet.live /\ ~NoNodeImageSet.deleting
               /\ NoNodeImageSet.observed = 0 /\ NoNodeImageSet.generation = 0
  BY EmptyTypes DEF NoNodeImageSet

LEMMA GoneTracks ==
  ASSUME NEW read, ~read.live, NEW images
  PROVE  Tracks(NoNodeImageSet, read, images)
  BY NoSet DEF Tracks, Honest

LEMMA DeletedTracks ==
  ASSUME NEW set \in NodeImageSet, NEW read \in NodeImageSet, NEW images,
         Tracks(set, read, images)
  PROVE  Tracks(Deleted(set), read, images)
  <1>1. CASE ~set.live \/ set.deleting
    BY <1>1 DEF Deleted
  <1>2. CASE set.live /\ ~set.deleting /\ ~set.finalizer
    <2>1. ~read.live
      BY <1>2 DEF Tracks
    <2> QED
      BY <1>2, <2>1, GoneTracks DEF Deleted
  <1>3. CASE set.live /\ ~set.deleting /\ set.finalizer
    <2> DEFINE new == [set EXCEPT !.deleting = TRUE, !.generation = set.generation + 1]
    <2>1. /\ new.live /\ new.finalizer /\ new.generation = set.generation + 1
          /\ new.observed = set.observed
      BY <1>3 DEF NodeImageSet
    <2>2. set.observed \in Nat /\ set.generation \in Nat /\ read.generation \in Nat
      BY DEF NodeImageSet
    <2>3. Deleted(set) = new
      BY <1>3 DEF Deleted
    <2> HIDE DEF new
    <2>4. Tracks(new, read, images)
      BY <2>1, <2>2 DEF Tracks, Honest
    <2> QED
      BY <2>3, <2>4
  <1> QED
    BY <1>1, <1>2, <1>3

LEMMA AppliedTracks ==
  ASSUME NEW set \in NodeImageSet, NEW read \in NodeImageSet, NEW images,
         Tracks(set, read, images), NEW wanted, NEW policy, NEW generation
  PROVE  Tracks(Applied(set, wanted, policy, generation), read, images)
  <1> DEFINE new  == [set EXCEPT !.images = wanted, !.policy = policy,
                                 !.prefetchGeneration = generation, !.live = TRUE]
             next == [new EXCEPT !.generation = new.generation + 1]
  <1>1. CASE Applied(set, wanted, policy, generation) = set
    BY <1>1
  <1>2. CASE Applied(set, wanted, policy, generation) = next
    <2>1. /\ next.live /\ next.generation = set.generation + 1
          /\ next.observed = set.observed /\ next.finalizer = set.finalizer
      BY DEF NodeImageSet
    <2>2. set.observed \in Nat /\ set.generation \in Nat /\ read.generation \in Nat
      BY DEF NodeImageSet
    <2> HIDE DEF next
    <2>3. Tracks(next, read, images)
      BY <2>1, <2>2 DEF Tracks, Honest
    <2> QED
      BY <1>2, <2>3
  <1> QED
    BY <1>1, <1>2 DEF Applied

LEMMA AdoptedTracks ==
  ASSUME NEW set \in NodeImageSet, NEW read \in NodeImageSet, NEW images,
         Tracks(set, read, images), set.live
  PROVE  Tracks([set EXCEPT !.finalizer = TRUE], read, images)
  <1> DEFINE new == [set EXCEPT !.finalizer = TRUE]
  <1>1. /\ new.live /\ new.finalizer /\ new.generation = set.generation
        /\ new.observed = set.observed /\ new.deleting = set.deleting
        /\ new.images = set.images /\ new.available = set.available
        /\ new.statuses = set.statuses
    BY DEF NodeImageSet
  <1> HIDE DEF new
  <1>2. Tracks(new, read, images)
    BY <1>1 DEF Tracks, Honest
  <1> QED
    BY <1>2 DEF new

LEMMA StrippedTracks ==
  ASSUME NEW set \in NodeImageSet, NEW read, NEW images, Tracks(set, read, images), ~read.live
  PROVE  Tracks(IF set.deleting THEN NoNodeImageSet ELSE [set EXCEPT !.finalizer = FALSE],
                read, images)
  <1>1. CASE set.deleting
    BY <1>1, GoneTracks
  <1>2. CASE ~set.deleting /\ ~set.live
    <2>1. set = NoNodeImageSet
      BY <1>2 DEF Tracks
    <2>2. set.finalizer = FALSE
      BY <2>1 DEF NoNodeImageSet
    <2>3. [set EXCEPT !.finalizer = FALSE] = set
      BY <2>2 DEF NodeImageSet
    <2> QED
      BY <1>2, <2>3
  <1>3. CASE ~set.deleting /\ set.live
    <2> DEFINE new == [set EXCEPT !.finalizer = FALSE]
    <2>1. /\ new.live /\ new.generation = set.generation
          /\ new.observed = set.observed /\ new.deleting = set.deleting
          /\ new.images = set.images /\ new.available = set.available
          /\ new.statuses = set.statuses
      BY <1>3 DEF NodeImageSet
    <2> HIDE DEF new
    <2>2. Tracks(new, read, images)
      BY <1>3, <2>1 DEF Tracks, Honest
    <2> QED
      BY <1>3, <2>2 DEF new
  <1> QED
    BY <1>1, <1>2, <1>3

LEMMA ReportedTracks ==
  ASSUME NEW set \in NodeImageSet, NEW read \in NodeImageSet, NEW images, NEW later,
         Tracks(set, read, images), set.live, read.live,
         NEW available \in BOOLEAN, available => read.images \subseteq later
  PROVE  Tracks([set EXCEPT !.observed = read.generation, !.available = available,
                            !.statuses = Cardinality(read.images)],
                NoNodeImageSet, later)
  <1> DEFINE new == [set EXCEPT !.observed = read.generation, !.available = available,
                                !.statuses = Cardinality(read.images)]
  <1>1. /\ new.live /\ new.generation = set.generation /\ new.images = set.images
        /\ new.observed = read.generation /\ new.deleting = set.deleting
        /\ new.available = available /\ new.statuses = Cardinality(read.images)
    BY DEF NodeImageSet
  <1>2. set.generation \in Nat /\ read.generation \in Nat
    BY DEF NodeImageSet
  <1> HIDE DEF new
  <1>3. Tracks(new, NoNodeImageSet, later)
    BY <1>1, <1>2, NoSet DEF Tracks, Honest
  <1> QED
    BY <1>3 DEF new

LEMMA MoreImages ==
  ASSUME NEW set, NEW images, NEW later, Honest(set, images), images \subseteq later
  PROVE  Honest(set, later)
  BY DEF Honest

-----------------------------------------------------------------------------
(***************************************************************************)
(* What the steps do to daemons and NodeImageSets.                         *)
(***************************************************************************)

\* Steps of others that change a NodeImageSet.
LEMMA OthersTrack ==
  ASSUME DaemonInv, UNCHANGED <<setsCache, seen, has, nodes>>,
         Nodes \cap (gcStale' \cup {gcNode'}) \subseteq gcStale \cup {gcNode},
         \A n \in Nodes : Tracks(sets'[n], seen[n], has[n])
  PROVE  DaemonInv'
  <1>1. AllTrack' /\ CacheHonest' /\ Unread'
    BY DEF DaemonInv, AllTrack, CacheHonest, Unread
  <1>2. Collecting'
    BY DEF DaemonInv, Collecting
  <1> QED
    BY <1>1, <1>2 DEF DaemonInv

LEMMA DeletionsTrack ==
  ASSUME TypeInv, DaemonInv, NEW some \in SUBSET Nodes,
         sets' = [n \in Nodes |-> IF n \in some THEN Deleted(sets[n]) ELSE sets[n]]
  PROVE  \A n \in Nodes : Tracks(sets'[n], seen[n], has[n])
  <1> SUFFICES ASSUME NEW n \in Nodes PROVE Tracks(sets'[n], seen[n], has[n])
    OBVIOUS
  <1>1. Tracks(sets[n], seen[n], has[n]) /\ sets[n] \in NodeImageSet /\ seen[n] \in NodeImageSet
    BY SetTypes DEF DaemonInv, AllTrack
  <1>2. Tracks(Deleted(sets[n]), seen[n], has[n])
    BY <1>1, DeletedTracks
  <1> QED
    BY <1>1, <1>2

\* A step that changes one NodeImageSet.
LEMMA OneTracks ==
  ASSUME TypeInv, DaemonInv, NEW n, NEW set, sets' = [sets EXCEPT ![n] = set],
         n \in Nodes => Tracks(set, seen[n], has[n])
  PROVE  \A m \in Nodes : Tracks(sets'[m], seen[m], has[m])
  BY SetTypes DEF DaemonInv, AllTrack

LEMMA DeletionTracks ==
  ASSUME TypeInv, DaemonInv, NEW n, sets' = [sets EXCEPT ![n] = Deleted(@)]
  PROVE  \A m \in Nodes : Tracks(sets'[m], seen[m], has[m])
  <1>1. n \in Nodes => Tracks(Deleted(sets[n]), seen[n], has[n])
    BY SetTypes, DeletedTracks DEF DaemonInv, AllTrack
  <1> QED
    BY <1>1, OneTracks

LEMMA ReconcilesTrack ==
  ASSUME TypeInv, DaemonInv, ReconcileStep, UNCHANGED <<gcVars, seen, has>>
  PROVE  DaemonInv'
  <1>1. UNCHANGED <<setsCache, nodes>>
    BY DEF ReconcileStep, AddFinalizer, DeleteAllOf, RemoveFinalizer, ListNodeImageSets,
           ApplyNodeImageSet, ListSurplus, DeleteSurplus, CountNodeImageSets, ReportStatus,
           objectVars
  <1>2. \A n \in Nodes : Tracks(sets'[n], seen[n], has[n])
    <2>1. CASE UNCHANGED sets
      BY <2>1 DEF DaemonInv, AllTrack
    <2>2. CASE DeleteAllOf
      <3>1. \E some \in SUBSET Nodes :
               sets' = [n \in Nodes |-> IF n \in some THEN Deleted(sets[n]) ELSE sets[n]]
        <4>1. CASE sets' = [n \in Nodes |-> Deleted(sets[n])]
          <5>1. sets' = [n \in Nodes |-> IF n \in Nodes THEN Deleted(sets[n]) ELSE sets[n]]
            BY <4>1
          <5> QED
            BY <5>1
        <4> QED
          BY <2>2, <4>1 DEF DeleteAllOf
      <3> QED
        BY <3>1, DeletionsTrack
    <2>3. ASSUME NEW n \in recSelected, NEW policy,
                 sets' = [sets EXCEPT ![n] = Applied(@, recObj.images, policy, recObj.generation)]
          PROVE  \A m \in Nodes : Tracks(sets'[m], seen[m], has[m])
      <3>1. n \in Nodes
        BY DEF TypeInv, TypeOK, ReconcilerTypeOK
      <3>2. Tracks(Applied(sets[n], recObj.images, policy, recObj.generation), seen[n], has[n])
        BY <3>1, SetTypes, AppliedTracks DEF DaemonInv, AllTrack
      <3> QED
        BY <2>3, <3>2, OneTracks
    <2>4. ASSUME NEW n \in recSurplus, sets' = [sets EXCEPT ![n] = Deleted(@)]
          PROVE  \A m \in Nodes : Tracks(sets'[m], seen[m], has[m])
      BY <2>4, DeletionTracks
    <2>5. CASE ApplyNodeImageSet
      BY <2>1, <2>3, <2>5 DEF ApplyNodeImageSet
    <2>6. CASE DeleteSurplus
      BY <2>1, <2>4, <2>6 DEF DeleteSurplus
    <2> QED
      BY <2>1, <2>2, <2>5, <2>6
      DEF ReconcileStep, AddFinalizer, RemoveFinalizer, ListNodeImageSets, ListSurplus,
          CountNodeImageSets, ReportStatus, objectVars
  <1> QED
    BY <1>1, <1>2, OthersTrack DEF gcVars

LEMMA CollectorTracks ==
  ASSUME TypeInv, DaemonInv, CollectorStep, UNCHANGED <<seen, has>>
  PROVE  DaemonInv'
  <1>0. UNCHANGED <<setsCache, nodes>>
    BY DEF CollectorStep, CollectorLists, CollectorGets, CollectorUpdates, CollectorDeletes,
           Elsewhere
  <1>1. CASE CollectorLists
    <2>1. AllTrack' /\ CacheHonest' /\ Unread'
      BY <1>0, <1>1 DEF CollectorLists, DaemonInv, AllTrack, CacheHonest, Unread
    <2>2. Collecting'
      BY <1>0, <1>1 DEF CollectorLists, Stale, DaemonInv, Collecting
    <2> QED
      BY <2>1, <2>2 DEF DaemonInv
  <1>2. CASE CollectorGets
    <2>1. Nodes \cap (gcStale' \cup {gcNode'}) \subseteq gcStale \cup {gcNode} /\ sets' = sets
      BY <1>2 DEF CollectorGets
    <2> QED
      BY <1>0, <2>1, OthersTrack DEF DaemonInv, AllTrack
  <1>3. ASSUME CollectorUpdates \/ CollectorDeletes
        PROVE  Nodes \cap (gcStale' \cup {gcNode'}) \subseteq gcStale \cup {gcNode}
    BY <1>3, NodesAssumption DEF CollectorUpdates, CollectorDeletes, CollectorStops
  <1>4. CASE CollectorUpdates
    <2>1. CASE UNCHANGED sets
      BY <1>0, <1>3, <1>4, <2>1, OthersTrack DEF DaemonInv, AllTrack
    <2>2. CASE sets' = [sets EXCEPT ![gcNode] = IF @.deleting THEN NoNodeImageSet
                                                ELSE [@ EXCEPT !.finalizer = FALSE]]
      <3>1. ASSUME gcNode \in Nodes
            PROVE  Tracks(IF sets[gcNode].deleting THEN NoNodeImageSet
                          ELSE [sets[gcNode] EXCEPT !.finalizer = FALSE],
                          seen[gcNode], has[gcNode])
        <4>1. ~seen[gcNode].live
          BY <3>1 DEF DaemonInv, Collecting, Unread
        <4> QED
          BY <3>1, <4>1, SetTypes, StrippedTracks DEF DaemonInv, AllTrack
      <3>2. \A n \in Nodes : Tracks(sets'[n], seen[n], has[n])
        BY <2>2, <3>1, OneTracks
      <3> QED
        BY <1>0, <1>3, <1>4, <3>2, OthersTrack
    <2> QED
      BY <1>4, <2>1, <2>2 DEF CollectorUpdates
  <1>5. CASE CollectorDeletes
    <2>1. \A n \in Nodes : Tracks(sets'[n], seen[n], has[n])
      BY <1>5, DeletionTracks DEF CollectorDeletes, DaemonInv, AllTrack
    <2> QED
      BY <1>0, <1>3, <1>5, <2>1, OthersTrack
  <1> QED
    BY <1>1, <1>2, <1>4, <1>5 DEF CollectorStep

\* A step of the daemon of one node.
LEMMA DaemonsTrack ==
  ASSUME TypeInv, DaemonInv, NEW n \in Nodes, DaemonStep(n)
  PROVE  DaemonInv'
  <1>0. UNCHANGED <<setsCache, nodes, gcVars>>
    BY DEF DaemonStep, DaemonAdopts, DaemonReads, DaemonCompletes, DaemonBegins,
           DaemonFallsBack, DaemonFinalizes, DaemonReports, DaemonWrites, objectVars,
           controllerVars
  <1>t. /\ sets[n] \in NodeImageSet /\ seen[n] \in NodeImageSet /\ has[n] \in SUBSET Images
        /\ Tracks(sets[n], seen[n], has[n])
    BY SetTypes DEF DaemonInv, AllTrack
  <1>a. ASSUME NEW set, NEW read, NEW images, Tracks(set, read, images),
               sets' = [sets EXCEPT ![n] = set], seen' = [seen EXCEPT ![n] = read],
               has' = [has EXCEPT ![n] = images], has[n] \subseteq images,
               nodes[n] = "absent" => ~read.live
        PROVE  DaemonInv'
    <2>1. AllTrack' /\ Unread'
      BY <1>0, <1>a, SetTypes DEF DaemonInv, AllTrack, Unread
    <2>2. CacheHonest'
      BY <1>0, <1>a, SetTypes, MoreImages DEF DaemonInv, CacheHonest
    <2>3. Collecting'
      BY <1>0 DEF DaemonInv, Collecting, gcVars
    <2> QED
      BY <2>1, <2>2, <2>3 DEF DaemonInv
  <1>1. CASE DaemonAdopts(n)
    <2>1. Tracks([sets[n] EXCEPT !.finalizer = TRUE], seen[n], has[n])
      BY <1>1, <1>t, AdoptedTracks DEF DaemonAdopts
    <2>2. sets' = [sets EXCEPT ![n] = [sets[n] EXCEPT !.finalizer = TRUE]]
      BY <1>1 DEF DaemonAdopts, DaemonWrites
    <2>3. seen' = [seen EXCEPT ![n] = seen[n]] /\ has' = [has EXCEPT ![n] = has[n]]
      BY <1>1, SetTypes DEF DaemonAdopts
    <2> QED
      BY <2>1, <2>2, <2>3, <1>a DEF DaemonInv, Unread
  <1>2. CASE DaemonReads(n)
    <2>1. Tracks(sets[n], sets[n], has[n])
      BY <1>2, <1>t DEF DaemonReads, Tracks, NodeImageSet
    <2>2. /\ sets' = [sets EXCEPT ![n] = sets[n]] /\ seen' = [seen EXCEPT ![n] = sets[n]]
          /\ has' = [has EXCEPT ![n] = has[n]] /\ nodes[n] # "absent"
      BY <1>2, SetTypes DEF DaemonReads, objectVars
    <2> QED
      BY <2>1, <2>2, <1>a
  <1>3. ASSUME NEW available \in BOOLEAN, DaemonReports(n, available),
               NEW images, has' = [has EXCEPT ![n] = images], has[n] \subseteq images,
               available => seen[n].images \subseteq images
        PROVE  DaemonInv'
    <2> DEFINE set == [sets[n] EXCEPT !.observed = seen[n].generation,
                                      !.available = available,
                                      !.statuses = Cardinality(seen[n].images)]
    <2>1. Tracks(set, NoNodeImageSet, images)
      BY <1>3, <1>t, ReportedTracks DEF DaemonReports
    <2>2. sets' = [sets EXCEPT ![n] = set] /\ seen' = [seen EXCEPT ![n] = NoNodeImageSet]
      BY <1>3 DEF DaemonReports, DaemonWrites
    <2> HIDE DEF set
    <2> QED
      BY <2>1, <2>2, <1>3, <1>a, NoSet
  <1>4. CASE DaemonCompletes(n)
    BY <1>3, <1>4 DEF DaemonCompletes
  <1>5. CASE DaemonBegins(n) \/ DaemonFallsBack(n)
    <2>1. has' = [has EXCEPT ![n] = has[n]] /\ DaemonReports(n, FALSE)
      BY <1>5, SetTypes DEF DaemonBegins, DaemonFallsBack
    <2> QED
      BY <1>3, <2>1
  <1>6. CASE DaemonFinalizes(n)
    <2>1. /\ sets' = [sets EXCEPT ![n] = NoNodeImageSet]
          /\ seen' = [seen EXCEPT ![n] = NoNodeImageSet]
          /\ has' = [has EXCEPT ![n] = has[n]]
      BY <1>6, SetTypes DEF DaemonFinalizes, DaemonWrites
    <2>2. Tracks(NoNodeImageSet, NoNodeImageSet, has[n])
      BY NoSet, GoneTracks
    <2> QED
      BY <2>1, <2>2, <1>a, NoSet
  <1> QED
    BY <1>1, <1>2, <1>4, <1>5, <1>6 DEF DaemonStep

\* The informer's copy was the object itself a moment ago.
LEMMA CachedTracks ==
  ASSUME TypeInv, DaemonInv, NEW n \in Nodes, SetSyncs(n)
  PROVE  DaemonInv'
  <1>0. /\ UNCHANGED <<sets, seen, has, nodes, gcVars>>
        /\ setsCache' = [setsCache EXCEPT ![n] = sets[n]]
    BY DEF SetSyncs, NodeImageSetSync, Rests
  <1>1. AllTrack' /\ Unread' /\ Collecting'
    BY <1>0 DEF DaemonInv, AllTrack, Unread, Collecting, gcVars
  <1>2. CacheHonest'
    BY <1>0, SetTypes DEF DaemonInv, AllTrack, CacheHonest, Tracks
  <1> QED
    BY <1>1, <1>2 DEF DaemonInv

\* A node that goes takes its daemon with it; one that comes is not collected.
LEMMA NodeTracks ==
  ASSUME TypeInv, DaemonInv, NEW n \in Nodes, NodeEvent(n), CleanReturn
  PROVE  DaemonInv'
  <1>1. PICK status : /\ NodeChanges(n, status)
                      /\ seen' = [seen EXCEPT ![n] = IF status = "absent"
                                                     THEN NoNodeImageSet ELSE @]
    BY DEF NodeEvent
  <1>2. /\ UNCHANGED <<sets, setsCache, has, gcVars>>
        /\ nodes' = [nodes EXCEPT ![n] = status]
    BY <1>1 DEF NodeEvent, NodeChanges, objectVars
  <1>3. CacheHonest'
    BY <1>2 DEF DaemonInv, CacheHonest
  <1>4. Unread'
    BY <1>1, <1>2, NoSet, SetTypes DEF DaemonInv, Unread
  <1>5. AllTrack'
    <2> SUFFICES ASSUME NEW m \in Nodes PROVE Tracks(sets'[m], seen'[m], has'[m])
      BY DEF AllTrack
    <2>1. Tracks(sets[m], seen[m], has[m])
      BY DEF DaemonInv, AllTrack
    <2>2. seen'[m] = seen[m] \/ seen'[m] = NoNodeImageSet
      BY <1>1, SetTypes
    <2> QED
      BY <1>2, <2>1, <2>2, NoSet DEF Tracks
  <1>6. Collecting'
    BY <1>2 DEF DaemonInv, Collecting, CleanReturn, gcVars
  <1> QED
    BY <1>3, <1>4, <1>5, <1>6 DEF DaemonInv

LEMMA DaemonInit == Init => DaemonInv
  <1> SUFFICES ASSUME Init PROVE DaemonInv
    OBVIOUS
  <1>1. AllTrack /\ CacheHonest /\ Unread
    BY NoSet, GoneTracks DEF Init, AllTrack, CacheHonest, Unread, Honest
  <1>2. Collecting
    BY NodesAssumption DEF Init, CollectorIdle, Collecting
  <1> QED
    BY <1>1, <1>2 DEF DaemonInv

LEMMA DaemonInvStep ==
  TypeInv /\ DaemonInv /\ [Next]_vars /\ [CleanReturn]_vars => DaemonInv'
  <1> SUFFICES ASSUME TypeInv, DaemonInv, [Next]_vars, [CleanReturn]_vars
               PROVE  DaemonInv'
    OBVIOUS
  <1>0. ASSUME UNCHANGED <<sets, setsCache, seen, has, nodes>>,
               gcVars' = gcVars \/ (gcStale' = {} /\ gcNode' = 0)
        PROVE  DaemonInv'
    <2>1. AllTrack' /\ CacheHonest' /\ Unread'
      BY <1>0 DEF DaemonInv, AllTrack, CacheHonest, Unread
    <2>2. Collecting'
      BY <1>0, NodesAssumption DEF DaemonInv, Collecting, gcVars
    <2> QED
      BY <2>1, <2>2 DEF DaemonInv
  <1>1. CASE Starts \/ Syncs \/ CreatePrefetch \/ UpdatePrefetch \/ DeletePrefetch \/ UNCHANGED vars
    <2>1. UNCHANGED <<sets, setsCache, seen, has, nodes, gcVars>>
      BY <1>1 DEF Starts, StartReconcile, Syncs, PrefetchSync, Rests, CreatePrefetch, UpdatePrefetch,
                  DeletePrefetch, Edit, objectVars, controllerVars, vars
    <2> QED
      BY <1>0, <2>1
  <1>2. CASE Reconciles
    BY <1>2, ReconcilesTrack DEF Reconciles, Rests
  <1>3. CASE Collects
    BY <1>3, CollectorTracks DEF Collects, Rests
  <1>4. ASSUME NEW n \in Nodes, SetSyncs(n) \/ DaemonStep(n)
        PROVE  DaemonInv'
    BY <1>4, CachedTracks, DaemonsTrack
  <1>5. ASSUME NEW n \in Nodes, NodeEvent(n)
        PROVE  DaemonInv'
    <2>1. nodes' # nodes
      BY <1>5, SetTypes DEF NodeEvent, NodeChanges
    <2>2. CleanReturn
      BY <2>1 DEF vars
    <2> QED
      BY <1>5, <2>2, NodeTracks
  <1>6. CASE Restart
    <2>1. AllTrack' /\ Unread' /\ CacheHonest'
      BY <1>6 DEF Restart, DaemonInv, AllTrack, Unread, CacheHonest, Tracks
    <2>2. Collecting'
      BY <1>6, NodesAssumption DEF Restart, CollectorStops, Collecting
    <2> QED
      BY <2>1, <2>2 DEF DaemonInv
  <1> QED
    BY <1>1, <1>2, <1>3, <1>4, <1>5, <1>6 DEF Next, Environment

-----------------------------------------------------------------------------
(***************************************************************************)
(* Nobody but the reconciler creates a NodeImageSet or changes its spec.   *)
(***************************************************************************)

Inherits(old, new) ==
    new.live => /\ old.live /\ (old.deleting => new.deleting)
                /\ new.images = old.images /\ new.policy = old.policy
                /\ new.prefetchGeneration = old.prefetchGeneration

SetsInherit == \A n \in Nodes : Inherits(sets[n], sets'[n])

LEMMA DeletedInherits ==
  ASSUME NEW set \in NodeImageSet
  PROVE  Inherits(set, Deleted(set))
  BY NoSet DEF Inherits, Deleted, NodeImageSet

LEMMA OneInherits ==
  ASSUME TypeInv, NEW n, NEW set, sets' = [sets EXCEPT ![n] = set],
         n \in Nodes => Inherits(sets[n], set)
  PROVE  SetsInherit
  BY SetTypes DEF SetsInherit, Inherits

LEMMA ReconcilesInherit ==
  ASSUME TypeInv, ReconcileStep, ~ApplyNodeImageSet
  PROVE  SetsInherit
  <1>1. CASE UNCHANGED sets
    BY <1>1 DEF SetsInherit, Inherits
  <1>2. CASE DeleteAllOf
    <2> SUFFICES ASSUME NEW n \in Nodes PROVE Inherits(sets[n], sets'[n])
      BY DEF SetsInherit
    <2>1. sets'[n] = sets[n] \/ sets'[n] = Deleted(sets[n])
      BY <1>2 DEF DeleteAllOf
    <2> QED
      BY <2>1, SetTypes, DeletedInherits DEF Inherits
  <1>3. ASSUME NEW n, sets' = [sets EXCEPT ![n] = Deleted(@)]
        PROVE  SetsInherit
    BY <1>3, SetTypes, DeletedInherits, OneInherits
  <1> QED
    BY <1>1, <1>2, <1>3
    DEF ReconcileStep, AddFinalizer, RemoveFinalizer, ListNodeImageSets, ListSurplus,
        DeleteSurplus, CountNodeImageSets, ReportStatus, objectVars

LEMMA CollectorInherits ==
  ASSUME TypeInv, CollectorStep
  PROVE  SetsInherit
  <1>1. CASE UNCHANGED sets
    BY <1>1 DEF SetsInherit, Inherits
  <1>2. CASE sets' = [sets EXCEPT ![gcNode] = IF @.deleting THEN NoNodeImageSet
                                              ELSE [@ EXCEPT !.finalizer = FALSE]]
    <2>1. ASSUME NEW set \in NodeImageSet
          PROVE  Inherits(set, IF set.deleting THEN NoNodeImageSet
                               ELSE [set EXCEPT !.finalizer = FALSE])
      BY NoSet DEF Inherits, NodeImageSet
    <2> QED
      BY <1>2, <2>1, SetTypes, OneInherits
  <1>3. CASE sets' = [sets EXCEPT ![gcNode] = Deleted(@)]
    BY <1>3, SetTypes, DeletedInherits, OneInherits
  <1> QED
    BY <1>1, <1>2, <1>3
    DEF CollectorStep, CollectorLists, CollectorGets, CollectorUpdates, CollectorDeletes

LEMMA DaemonInherits ==
  ASSUME TypeInv, NEW n \in Nodes, DaemonStep(n)
  PROVE  SetsInherit
  <1>1. sets[n] \in NodeImageSet
    BY SetTypes
  <1>2. CASE DaemonAdopts(n)
    <2>1. Inherits(sets[n], [sets[n] EXCEPT !.finalizer = TRUE])
      BY <1>1 DEF Inherits, NodeImageSet
    <2> QED
      BY <1>2, <2>1, OneInherits DEF DaemonAdopts, DaemonWrites
  <1>3. CASE DaemonReads(n)
    BY <1>3 DEF DaemonReads, objectVars, SetsInherit, Inherits
  <1>4. ASSUME NEW available \in BOOLEAN, DaemonReports(n, available)
        PROVE  SetsInherit
    <2> DEFINE set == [sets[n] EXCEPT !.observed = seen[n].generation,
                                      !.available = available,
                                      !.statuses = Cardinality(seen[n].images)]
    <2>1. Inherits(sets[n], set)
      BY <1>1 DEF Inherits, NodeImageSet
    <2>2. sets' = [sets EXCEPT ![n] = set]
      BY <1>4 DEF DaemonReports, DaemonWrites
    <2> HIDE DEF set
    <2> QED
      BY <2>1, <2>2, OneInherits
  <1>5. CASE DaemonFinalizes(n)
    <2>1. sets' = [sets EXCEPT ![n] = NoNodeImageSet]
      BY <1>5 DEF DaemonFinalizes, DaemonWrites
    <2> QED
      BY <2>1, NoSet, OneInherits DEF Inherits
  <1> QED
    BY <1>2, <1>3, <1>4, <1>5
    DEF DaemonStep, DaemonCompletes, DaemonBegins, DaemonFallsBack

\* Every step but the reconciler's Apply.
LEMMA StepInherits == TypeInv /\ [Next]_vars /\ ~ApplyNodeImageSet => SetsInherit
  <1> SUFFICES ASSUME TypeInv, [Next]_vars, ~ApplyNodeImageSet PROVE SetsInherit
    OBVIOUS
  <1>1. CASE UNCHANGED sets
    BY <1>1 DEF SetsInherit, Inherits
  <1>2. CASE Starts \/ Syncs \/ Environment \/ (\E n \in Nodes : SetSyncs(n)) \/ UNCHANGED vars
    <2>1. UNCHANGED sets
      BY <1>2 DEF Starts, StartReconcile, Syncs, PrefetchSync, Environment, CreatePrefetch,
                  UpdatePrefetch, DeletePrefetch, Edit, NodeEvent, NodeChanges, Restart,
                  SetSyncs, NodeImageSetSync, objectVars, vars
    <2> QED
      BY <1>1, <2>1
  <1> QED
    BY <1>2, ReconcilesInherit, CollectorInherits, DaemonInherits DEF Next, Reconciles, Collects

-----------------------------------------------------------------------------
(***************************************************************************)
(* The reconciler: what it counted is still so when it reports, unless it  *)
(* is called again.                                                        *)
(***************************************************************************)

\* A NodeImageSet that counts as available for a generation of the ImagePrefetch.
Current(set, generation) ==
    /\ set.live /\ set.available
    /\ set.prefetchGeneration = generation
    /\ set.generation = set.observed

Counted(generation) == {n \in Nodes : Current(setsCache[n], generation)}

Leaves(n) == sets[n].live => sets[n].deleting

\* The images of an ImagePrefetch, and the policy of its node among the selected.
Fits(set, n, images, selected) ==
    set.images = images /\ set.policy = registryPolicy(Position(n, selected))

\* What Reconcile has applied so far.
Provided ==
    recPc \in WorkPcs =>
        \A n \in recApplied : sets[n].live => Fits(sets[n], n, recObj.images, recSelected)

\* The loop that ends at the limit cannot end with enough nodes available.
LimitKept ==
    recPc \in {"apply", "surplus", "report"} /\ ~queued =>
        \/ Cardinality(recSelected) <= recLimit
        \/ Cardinality(Counted(recObj.generation)) < Cardinality(recSelected)

\* Ready is reported only by a reconcile that went all the way.
Through ==
    /\ recPc = "surplus" => recApplied = recSelected
    /\ recPc = "report" /\ recReady /\ ~queued =>
          /\ recApplied = recSelected /\ recSurplus = {}
          /\ Cardinality(Counted(recObj.generation)) = Cardinality(recSelected)

\* A NodeImageSet that counts without being wanted is on its way out.
SurplusLeaves ==
    (recPc = "surplus" \/ (recPc = "report" /\ recReady)) /\ ~queued =>
        \A n \in Nodes \ (recSelected \cup recSurplus) :
            n \in Counted(recObj.generation) => Leaves(n)

\* What is left of all that once nobody is at work.
AtRest ==
    recPc = "idle" /\ ~queued /\ prefetchCache = prefetch /\ prefetch.live =>
        /\ Cardinality(Counted(prefetch.generation)) = Cardinality(prefetch.selected)
        /\ \A n \in Nodes \ prefetch.selected :
              n \in Counted(prefetch.generation) => Leaves(n)
        /\ \A n \in prefetch.selected :
              sets[n].live => Fits(sets[n], n, prefetch.images, prefetch.selected)

RestInv == Provided /\ LimitKept /\ Through /\ SurplusLeaves /\ AtRest

LEMMA LocalTypes ==
  ASSUME TypeInv
  PROVE  /\ recSelected \in SUBSET Nodes /\ recApplied \in SUBSET recSelected
         /\ recSurplus \in SUBSET Nodes /\ recLimit \in Nat
         /\ prefetch.selected \in SUBSET Nodes /\ queued \in BOOLEAN
  BY ObjectTypes DEF TypeInv, TypeOK, ReconcilerTypeOK, Prefetch

\* Both ways of counting agree where the status is up to date.
LEMMA CountedIsPulled ==
  ASSUME CacheHonest
  PROVE  Counted(recObj.generation) \subseteq {n \in Nodes : Pulled(setsCache[n])}
  BY DEF CacheHonest, Honest, Counted, Current, Pulled

LEMMA CountedIsAvailable == calculateStatus = Cardinality(Counted(recObj.generation))
  BY DEF calculateStatus, Available, Counted, Current

SameCount == \A generation : Counted(generation)' = Counted(generation)

\* Steps of others than the reconciler.
LEMMA RestAside ==
  ASSUME TypeInv, RestInv, UNCHANGED recVars, SetsInherit,
         \/ queued'
         \/ /\ ~queued /\ SameCount
            /\ \/ UNCHANGED <<prefetch, prefetchCache>>
               \/ prefetchCache' # prefetch' \/ ~prefetch'.live
  PROVE  RestInv'
  <1>0. UNCHANGED <<recPc, recObj, recSelected, recApplied, recLimit, recSurplus, recReady>>
    BY DEF recVars
  <1>1. Provided'
    BY <1>0, LocalTypes DEF RestInv, Provided, SetsInherit, Inherits, Fits
  <1>2. CASE queued'
    BY <1>0, <1>1, <1>2 DEF RestInv, LimitKept, Through, SurplusLeaves, AtRest
  <1>3. CASE /\ ~queued /\ SameCount
             /\ \/ UNCHANGED <<prefetch, prefetchCache>>
                \/ prefetchCache' # prefetch' \/ ~prefetch'.live
    <2>1. \A n \in Nodes : Leaves(n) => Leaves(n)'
      BY DEF SetsInherit, Inherits, Leaves
    <2>2. Counted(recObj.generation)' = Counted(recObj.generation)
      BY <1>0, <1>3 DEF SameCount, Counted
    <2>3. LimitKept' /\ Through'
      BY <1>0, <1>3, <2>2 DEF RestInv, LimitKept, Through
    <2>4. SurplusLeaves'
      BY <1>0, <1>3, <2>1, <2>2 DEF RestInv, SurplusLeaves
    <2>5. AtRest'
      <3> SUFFICES ASSUME recPc' = "idle", ~queued', prefetchCache' = prefetch', prefetch'.live
                   PROVE  /\ (Cardinality(Counted(prefetch.generation)) = Cardinality(prefetch.selected))'
                          /\ (\A n \in Nodes \ prefetch.selected :
                                n \in Counted(prefetch.generation) => Leaves(n))'
                          /\ (\A n \in prefetch.selected :
                                sets[n].live
                                => Fits(sets[n], n, prefetch.images, prefetch.selected))'
        BY DEF AtRest
      <3>1. prefetch' = prefetch /\ prefetchCache' = prefetchCache
        BY <1>3
      <3>2. Counted(prefetch.generation)' = Counted(prefetch.generation)
        BY <1>3, <3>1 DEF SameCount, Counted
      <3> QED
        BY <1>0, <1>3, <2>1, <3>1, <3>2, LocalTypes
        DEF RestInv, AtRest, SetsInherit, Inherits, Fits
    <2> QED
      BY <1>1, <2>3, <2>4, <2>5 DEF RestInv
  <1> QED
    BY <1>2, <1>3

\* A reconcile that is called again, or has nothing more to do.
LEMMA RestBack ==
  ASSUME recPc' \notin WorkPcs, recPc' = "idle" => queued' \/ ~prefetch'.live
  PROVE  RestInv'
  BY DEF RestInv, Provided, LimitKept, Through, SurplusLeaves, AtRest, WorkPcs

LEMMA StartRests ==
  ASSUME TypeInv, AttentionInv, RestInv, StartReconcile
  PROVE  RestInv'
  <1>0. /\ UNCHANGED <<prefetch, prefetchCache, recApplied>> /\ recPc = "idle"
        /\ recApplied = {}
    BY DEF StartReconcile, objectVars, TypeInv, StartsClean
  <1>1. CASE ~prefetchCache.live \/ (prefetchCache.deleting /\ ~prefetchCache.finalizer)
    <2>1. prefetchCache = prefetch => ~prefetch.live
      BY <1>1 DEF AttentionInv, Trailing
    <2> QED
      BY <1>0, <2>1
      DEF StartReconcile, RestInv, Provided, LimitKept, Through, SurplusLeaves, AtRest, WorkPcs
  <1>2. CASE recPc' \in {"deleteAll", "addFinalizer"}
    BY <1>2, RestBack DEF WorkPcs
  <1>3. CASE recPc' = "list"
    BY <1>0, <1>3 DEF RestInv, Provided, LimitKept, Through, SurplusLeaves, AtRest
  <1> QED
    BY <1>1, <1>2, <1>3 DEF StartReconcile

\* The steps of Reconcile outside createOrUpdateNodeImageSet and updateStatus.
LEMMA FinalizersRest ==
  ASSUME TypeInv, AddFinalizer \/ DeleteAllOf \/ RemoveFinalizer
  PROVE  RestInv'
  <1>1. CASE Finish(TRUE)
    BY <1>1, RestBack DEF Finish, WorkPcs
  <1>2. CASE Goto("removeFinalizer")
    BY <1>2, RestBack DEF Goto, WorkPcs
  <1>3. CASE prefetch' = NoPrefetch /\ Finish(FALSE)
    BY <1>3, NoVersion, RestBack DEF Finish, WorkPcs
  <1> QED
    BY <1>1, <1>2, <1>3 DEF AddFinalizer, DeleteAllOf, RemoveFinalizer, Update

LEMMA ListRests ==
  ASSUME TypeInv, CacheHonest, RestInv, ListNodeImageSets
  PROVE  RestInv'
  <1>0. /\ recPc = "list" /\ recPc' = "apply" /\ recLimit' = getMaxNodeImageSetsToCreate
        /\ UNCHANGED <<prefetch, prefetchCache, sets, setsCache, queued, recObj, recSelected,
                       recApplied, recSurplus, recReady>>
    BY DEF ListNodeImageSets, objectVars
  <1> DEFINE pulled  == {n \in Nodes : Pulled(setsCache[n])}
             counted == Counted(recObj.generation)
  <1>1. LimitKept'
    <2>1. Cardinality(counted) <= Cardinality(pulled)
      <3>1. IsFiniteSet(pulled)
        BY NodesAssumption, FS_Subset
      <3> QED
        BY <3>1, CountedIsPulled, FS_Subset
    <2>2. /\ Cardinality(pulled) \in Nat /\ Cardinality(counted) \in Nat
          /\ Cardinality(recSelected) \in Nat
      BY LocalTypes, CountType DEF Counted
    <2>3. recLimit' = Cardinality(recSelected) \/ Cardinality(pulled) < Cardinality(recSelected)
      BY <1>0 DEF getMaxNodeImageSetsToCreate
    <2>4. counted' = counted
      BY <1>0 DEF Counted
    <2> QED
      BY <1>0, <2>1, <2>2, <2>3, <2>4 DEF LimitKept
  <1>2. Provided'
    BY <1>0 DEF RestInv, Provided, WorkPcs
  <1>3. Through' /\ SurplusLeaves' /\ AtRest'
    BY <1>0 DEF Through, SurplusLeaves, AtRest
  <1> QED
    BY <1>1, <1>2, <1>3 DEF RestInv

LEMMA AppliedSpec ==
  ASSUME NEW set \in NodeImageSet, NEW images, NEW policy, NEW generation
  PROVE  /\ Applied(set, images, policy, generation).live
         /\ Applied(set, images, policy, generation).images = images
         /\ Applied(set, images, policy, generation).policy = policy
         /\ Applied(set, images, policy, generation).prefetchGeneration = generation
  <1> DEFINE new == [set EXCEPT !.images = images, !.policy = policy,
                                !.prefetchGeneration = generation, !.live = TRUE]
  <1>1. /\ new.live /\ new.images = images
        /\ new.policy = policy /\ new.prefetchGeneration = generation
    BY DEF NodeImageSet
  <1>2. CASE set.live /\ SpecOf(new) = SpecOf(set)
    BY <1>1, <1>2 DEF Applied, SpecOf
  <1>3. CASE ~(set.live /\ SpecOf(new) = SpecOf(set))
    <2>1. Applied(set, images, policy, generation) = [new EXCEPT !.generation = new.generation + 1]
      BY <1>3 DEF Applied
    <2> QED
      BY <2>1 DEF NodeImageSet
  <1> QED
    BY <1>2, <1>3

LEMMA ApplyRests ==
  ASSUME TypeInv, RestInv, ApplyNodeImageSet
  PROVE  RestInv'
  <1>0. UNCHANGED <<prefetch, prefetchCache, setsCache>> /\ recPc = "apply"
    BY DEF ApplyNodeImageSet
  <1>1. CASE Finish(TRUE)
    BY <1>1, RestBack DEF Finish, WorkPcs
  <1>2. ASSUME NEW n \in recSelected, NEW policy,
               policy = registryPolicy(Position(n, recSelected)),
               sets' = [sets EXCEPT ![n] = Applied(@, recObj.images, policy, recObj.generation)],
               recApplied' = recApplied \cup {n},
               UNCHANGED <<queued, recPc, recObj, recSelected, recLimit, recSurplus, recReady>>
        PROVE  RestInv'
    <2>1. Provided'
      <3> SUFFICES ASSUME NEW m \in recApplied \cup {n}, sets'[m].live
                   PROVE  Fits(sets'[m], m, recObj.images, recSelected)
        BY <1>2 DEF Provided
      <3>1. m \in Nodes /\ n \in Nodes
        BY LocalTypes
      <3>2. CASE m = n
        BY <1>2, <3>1, <3>2, SetTypes, AppliedSpec DEF Fits
      <3>3. CASE m # n
        BY <1>0, <1>2, <3>1, <3>3, SetTypes DEF RestInv, Provided, WorkPcs
      <3> QED
        BY <3>2, <3>3
    <2>2. LimitKept'
      BY <1>0, <1>2 DEF RestInv, LimitKept, Counted
    <2>3. Through' /\ SurplusLeaves' /\ AtRest'
      BY <1>0, <1>2 DEF Through, SurplusLeaves, AtRest
    <2> QED
      BY <2>1, <2>2, <2>3 DEF RestInv
  <1> QED
    BY <1>1, <1>2 DEF ApplyNodeImageSet

LEMMA ListSurplusRests ==
  ASSUME TypeInv, RestInv, ListSurplus
  PROVE  RestInv'
  <1>0. /\ recPc = "apply" /\ recApplied = recSelected /\ recPc' = "surplus"
        /\ recSurplus' = Surplus
        /\ UNCHANGED <<prefetch, prefetchCache, sets, setsCache, queued, recObj, recSelected,
                       recApplied, recLimit, recReady>>
    BY DEF ListSurplus, objectVars
  <1>1. Provided' /\ LimitKept' /\ Through' /\ AtRest'
    BY <1>0 DEF RestInv, Provided, LimitKept, Through, AtRest, WorkPcs, Counted
  <1>2. SurplusLeaves'
    BY <1>0 DEF SurplusLeaves, Surplus, Counted, Current
  <1> QED
    BY <1>1, <1>2 DEF RestInv

LEMMA DeleteSurplusRests ==
  ASSUME TypeInv, RestInv, DeleteSurplus, SetsInherit
  PROVE  RestInv'
  <1>0. UNCHANGED <<prefetch, prefetchCache, setsCache>> /\ recPc = "surplus"
    BY DEF DeleteSurplus
  <1>1. CASE Finish(TRUE)
    BY <1>1, RestBack DEF Finish, WorkPcs
  <1>2. ASSUME NEW n \in recSurplus, sets' = [sets EXCEPT ![n] = Deleted(@)],
               recSurplus' = recSurplus \ {n},
               UNCHANGED <<queued, recPc, recObj, recSelected, recApplied, recLimit, recReady>>
        PROVE  RestInv'
    <2>1. Provided'
      BY <1>2, LocalTypes DEF RestInv, Provided, SetsInherit, Inherits, Fits
    <2>2. LimitKept' /\ Through' /\ AtRest'
      BY <1>0, <1>2 DEF RestInv, LimitKept, Through, AtRest, Counted
    <2>3. SurplusLeaves'
      <3> SUFFICES ASSUME ~queued, NEW m \in Nodes \ (recSelected \cup (recSurplus \ {n})),
                          m \in Counted(recObj.generation)'
                   PROVE  Leaves(m)'
        BY <1>0, <1>2 DEF SurplusLeaves
      <3>1. CASE m = n
        BY <1>2, <3>1, SetTypes, DeletedIsDoomed DEF Leaves
      <3>2. CASE m # n
        <4>1. m \in Counted(recObj.generation)
          BY <1>0, <1>2 DEF Counted
        <4>2. Leaves(m)
          BY <1>0, <3>2, <4>1 DEF RestInv, SurplusLeaves
        <4> QED
          BY <4>2 DEF Leaves, SetsInherit, Inherits
      <3> QED
        BY <3>1, <3>2
    <2> QED
      BY <2>1, <2>2, <2>3 DEF RestInv
  <1> QED
    BY <1>1, <1>2 DEF DeleteSurplus

LEMMA CountRests ==
  ASSUME TypeInv, RestInv, CountNodeImageSets
  PROVE  RestInv'
  <1> DEFINE counted == Counted(recObj.generation)
  <1>0. /\ recPc' = "report" /\ recPc \in {"apply", "surplus"}
        /\ recReady' = (Cardinality(counted) = Cardinality(recSelected))
        /\ UNCHANGED <<prefetch, prefetchCache, sets, setsCache, queued, recObj, recSelected,
                       recApplied, recLimit, recSurplus>>
    BY CountedIsAvailable DEF CountNodeImageSets, objectVars
  <1>1. counted' = counted
    BY <1>0 DEF Counted
  <1>2. Provided' /\ LimitKept' /\ AtRest'
    BY <1>0, <1>1 DEF RestInv, Provided, LimitKept, AtRest, WorkPcs
  <1>3. CASE recPc = "surplus" /\ recSurplus = {}
    <2>1. Through'
      BY <1>0, <1>1, <1>3 DEF RestInv, Through
    <2>2. SurplusLeaves'
      BY <1>0, <1>1, <1>3 DEF RestInv, SurplusLeaves, Leaves
    <2> QED
      BY <1>2, <2>1, <2>2 DEF RestInv
  <1>4. CASE recPc = "apply" /\ recApplied # recSelected /\ Cardinality(recApplied) >= recLimit
    <2>1. /\ Cardinality(recApplied) \in Nat /\ Cardinality(recSelected) \in Nat
          /\ Cardinality(counted) \in Nat /\ recLimit \in Nat
      BY LocalTypes, CountType DEF Counted
    <2>2. Cardinality(recApplied) < Cardinality(recSelected)
      <3>1. IsFiniteSet(recSelected) /\ recApplied \in SUBSET recSelected
        BY LocalTypes, NodesAssumption, FS_Subset
      <3>2. /\ Cardinality(recApplied) <= Cardinality(recSelected)
            /\ Cardinality(recApplied) # Cardinality(recSelected)
        BY <1>4, <3>1, FS_Subset
      <3> QED
        BY <2>1, <3>2
    <2>3. ~queued => Cardinality(counted) # Cardinality(recSelected)
      BY <1>4, <2>1, <2>2 DEF RestInv, LimitKept
    <2>4. ~recReady' \/ queued
      <3> HIDE DEF counted
      <3> QED
        BY <1>0, <2>3
    <2> QED
      BY <1>0, <1>2, <2>4 DEF RestInv, Through, SurplusLeaves
  <1> QED
    BY <1>3, <1>4 DEF CountNodeImageSets

\* The status written at rest is the one that was worked out from what has
\* not changed since.
LEMMA ReportRests ==
  ASSUME TypeInv, AttentionInv, RestInv, ReportStatus
  PROVE  RestInv'
  <1>0. UNCHANGED <<prefetchCache, sets, setsCache>> /\ recPc = "report"
    BY DEF ReportStatus
  <1>1. CASE Finish(TRUE)
    BY <1>1, RestBack DEF Finish, WorkPcs
  <1>2. ASSUME prefetch' = [prefetch EXCEPT !.observed = recObj.generation,
                                            !.selected = recSelected, !.ready = recReady],
               Finish(~recReady)
        PROVE  RestInv'
    <2>1. CASE ~recReady \/ queued
      BY <1>2, <2>1, RestBack DEF Finish, WorkPcs
    <2>2. CASE recReady /\ ~queued
      <3>1. prefetchCache = recObj /\ prefetch'.selected = recSelected
        BY <1>0, <1>2, <2>2, ObjectTypes DEF AttentionInv, Snapshot, Prefetch
      <3>2. /\ recApplied = recSelected /\ recSurplus = {}
            /\ Cardinality(Counted(recObj.generation)) = Cardinality(recSelected)
            /\ \A n \in Nodes \ recSelected : n \in Counted(recObj.generation) => Leaves(n)
            /\ \A n \in recSelected : sets[n].live => Fits(sets[n], n, recObj.images, recSelected)
        BY <1>0, <2>2 DEF RestInv, Through, SurplusLeaves, Provided, WorkPcs
      <3>3. AtRest'
        <4> SUFFICES ASSUME prefetch' = recObj
                     PROVE  /\ (Cardinality(Counted(prefetch.generation)) = Cardinality(prefetch.selected))'
                            /\ (\A n \in Nodes \ prefetch.selected :
                                  n \in Counted(prefetch.generation) => Leaves(n))'
                            /\ (\A n \in prefetch.selected :
                                  sets[n].live
                                  => Fits(sets[n], n, prefetch.images, prefetch.selected))'
          BY <1>0, <3>1 DEF AtRest
        <4>1. Counted(prefetch.generation)' = Counted(recObj.generation)
          BY <1>0 DEF Counted
        <4> QED
          BY <1>0, <3>1, <3>2, <4>1 DEF Leaves
      <3>4. recPc' = "idle"
        BY <1>2 DEF Finish
      <3> QED
        BY <3>3, <3>4 DEF RestInv, Provided, LimitKept, Through, SurplusLeaves, WorkPcs
    <2> QED
      BY <2>1, <2>2
  <1> QED
    BY <1>1, <1>2 DEF ReportStatus

\* A sync that queues nothing brings a NodeImageSet without a status.
LEMMA QuietSync ==
  ASSUME TypeInv, NEW n \in Nodes, NodeImageSetSync(n), ~Notifies(n)
  PROVE  SameCount
  <1>1. setsCache' = [setsCache EXCEPT ![n] = sets[n]] /\ setsCache[n] # sets[n]
    BY DEF NodeImageSetSync
  <1>2. /\ ~setsCache[n].live
        /\ sets[n].generation = 1 /\ sets[n].observed = 0
    BY <1>1 DEF Notifies, Fresh
  <1> QED
    BY <1>1, <1>2, SetTypes DEF SameCount, Counted, Current

LEMMA RestInit == Init => RestInv
  <1> SUFFICES ASSUME Init PROVE RestInv
    OBVIOUS
  <1>1. recPc = "idle" /\ ~prefetch.live
    BY NoVersion DEF Init, Idle
  <1> QED
    BY <1>1 DEF RestInv, Provided, LimitKept, Through, SurplusLeaves, AtRest, WorkPcs

LEMMA RestStep ==
  TypeInv /\ OrphanInv /\ AttentionInv /\ DaemonInv /\ RestInv /\ [Next]_vars => RestInv'
  <1> SUFFICES ASSUME TypeInv, OrphanInv, AttentionInv, DaemonInv, RestInv, [Next]_vars
               PROVE  RestInv'
    OBVIOUS
  <1>1. CASE ApplyNodeImageSet
    BY <1>1, ApplyRests
  <1>2. CASE ~ApplyNodeImageSet
    <2>0. SetsInherit
      BY <1>2, StepInherits
    <2>1. CASE Starts
      BY <2>1, StartRests DEF Starts
    <2>2. CASE Reconciles
      BY <1>2, <2>0, <2>2, FinalizersRest, ListRests, ListSurplusRests, DeleteSurplusRests,
         CountRests, ReportRests DEF Reconciles, ReconcileStep, DaemonInv
    <2>3. CASE Collects \/ (\E n \in Nodes : DaemonStep(n)) \/ UNCHANGED vars
      <3>1. UNCHANGED <<prefetch, prefetchCache, setsCache, queued, recVars>>
        BY <2>3 DEF Collects, CollectorStep, CollectorLists, CollectorGets, CollectorUpdates,
                    CollectorDeletes, Elsewhere, DaemonStep, DaemonAdopts, DaemonReads,
                    DaemonCompletes, DaemonBegins, DaemonFallsBack, DaemonFinalizes,
                    DaemonReports, DaemonWrites, controllerVars, objectVars, vars
      <3>2. SameCount
        BY <3>1 DEF SameCount, Counted
      <3> QED
        BY <2>0, <3>1, <3>2, RestAside
    <2>4. CASE Syncs
      BY <2>0, <2>4, RestAside DEF Syncs, PrefetchSync
    <2>5. ASSUME NEW n \in Nodes, SetSyncs(n)
          PROVE  RestInv'
      BY <2>0, <2>5, QuietSync, RestAside DEF SetSyncs, NodeImageSetSync
    <2>6. CASE CreatePrefetch \/ UpdatePrefetch \/ DeletePrefetch
      <3>1. UNCHANGED <<prefetchCache, setsCache, queued, recVars>>
        BY <2>6 DEF CreatePrefetch, UpdatePrefetch, DeletePrefetch, Edit, controllerVars
      <3>2. SameCount
        BY <3>1 DEF SameCount, Counted
      <3> QED
        BY <2>0, <2>6, <3>1, <3>2, EditDiffers, RestAside
    <2>7. ASSUME NEW n \in Nodes, NodeEvent(n)
          PROVE  RestInv'
      <3>1. /\ UNCHANGED <<prefetch, prefetchCache, setsCache, recVars>>
            /\ ~queued' => ~queued
        BY <2>7 DEF NodeEvent, NodeChanges, objectVars
      <3>2. SameCount
        BY <3>1 DEF SameCount, Counted
      <3> QED
        BY <2>0, <3>1, <3>2, RestAside
    <2>8. CASE Restart
      BY <2>8, RestBack DEF Restart, WorkPcs
    <2> QED
      BY <2>1, <2>2, <2>3, <2>4, <2>5, <2>6, <2>7, <2>8 DEF Next, Environment
  <1> QED
    BY <1>1, <1>2

\* Everything the theorems below rest on.
StatusInv == TypeInv /\ OrphanInv /\ AttentionInv /\ DaemonInv /\ RestInv

LEMMA StatusInit == Init => StatusInv
  BY InitType, OrphanInit, InitRemembers, DaemonInit, RestInit DEF StatusInv

LEMMA StatusStep == StatusInv /\ [Next]_vars /\ [CleanReturn]_vars => StatusInv'
  BY TypeStep, OrphanStep, AttentionStep, DaemonInvStep, RestStep DEF StatusInv

\* At rest exactly the selected nodes have a NodeImageSet that counts, and the
\* cache has them as they are.
LEMMA Rested ==
  ASSUME StatusInv, prefetch.live, ~WillReconcile, NEW n \in prefetch.selected
  PROVE  InPlace(n) /\ prefetch.images \subseteq has[n]
  <1> DEFINE counted == Counted(prefetch.generation)
  <1>1. /\ recPc = "idle" /\ ~queued /\ prefetchCache = prefetch
        /\ \A m \in Nodes : setsCache[m].live => setsCache[m] = sets[m]
    BY DEF WillReconcile, Notifies
  <1>2. /\ Cardinality(counted) = Cardinality(prefetch.selected)
        /\ \A m \in Nodes \ prefetch.selected : m \in counted => Leaves(m)
        /\ \A m \in prefetch.selected :
              sets[m].live => Fits(sets[m], m, prefetch.images, prefetch.selected)
    BY <1>1 DEF StatusInv, RestInv, AtRest
  <1>3. \A m \in counted : /\ m \in Nodes /\ sets[m].live /\ ~sets[m].deleting
                           /\ sets[m].images \subseteq has[m]
    BY <1>1 DEF StatusInv, DaemonInv, CacheHonest, Honest, Counted, Current
  <1>4. counted \subseteq prefetch.selected
    BY <1>2, <1>3 DEF Leaves
  <1>5. IsFiniteSet(prefetch.selected)
    BY LocalTypes, NodesAssumption, FS_Subset DEF StatusInv
  <1>6. counted = prefetch.selected
    BY <1>2, <1>4, <1>5, FS_Subset
  <1> QED
    BY <1>2, <1>3, <1>6 DEF Fits, InPlace

(***************************************************************************)
(* At rest each selected node has the NodeImageSet of the ImagePrefetch,   *)
(* with the registry policy of its place in the reported selection,        *)
(* provided that no node returns under the collector's hands: Reconcile    *)
(* reports Ready only when it has applied everywhere, and every deletion   *)
(* after that queues it again.                                             *)
(***************************************************************************)
THEOREM SelectedIsServed == Spec /\ [][CleanReturn]_vars => []SelectedServed
  <1>1. StatusInv => SelectedServed
    BY Rested DEF SelectedServed
  <1> QED
    BY <1>1, StatusInit, StatusStep, PTL DEF Spec

(***************************************************************************)
(* At rest each selected node has had the images, under the same proviso:  *)
(* whom Reconcile counted without having selected it is on its way out,    *)
(* and the end of that queues it again.                                    *)
(***************************************************************************)
THEOREM RestIsReady == Spec /\ [][CleanReturn]_vars => []ReadyAtRest
  <1>1. StatusInv => ReadyAtRest
    BY Rested DEF ReadyAtRest
  <1> QED
    BY <1>1, StatusInit, StatusStep, PTL DEF Spec

-----------------------------------------------------------------------------
(***************************************************************************)
(* A generation of the ImagePrefetch stands for one list of images.        *)
(***************************************************************************)

Says(spec, generation, images) == generation \in DOMAIN spec /\ spec[generation] = images

\* Whoever names a generation means the same images by it.
Follows(spec) ==
    /\ Says(spec, prefetch.generation, prefetch.images)
    /\ recPc \in WorkPcs => Says(spec, recObj.generation, recObj.images)
    /\ prefetchCache.live /\ ~prefetchCache.deleting /\ prefetchCache.finalizer
       => Says(spec, prefetchCache.generation, prefetchCache.images)
    /\ \A n \in Nodes : /\ sets[n].live => Says(spec, sets[n].prefetchGeneration, sets[n].images)
                        /\ setsCache[n].live
                           => Says(spec, setsCache[n].prefetchGeneration, setsCache[n].images)

Specs == [0..prefetch.generation -> SUBSET Images]

SpecInv == prefetch.live => \E spec \in Specs : Follows(spec)

\* A step that only passes on what is there already.
Copies ==
    /\ prefetch'.live => prefetch.live /\ prefetch'.generation = prefetch.generation
                         /\ prefetch'.images = prefetch.images
    /\ prefetchCache' = prefetchCache \/ prefetchCache' = prefetch
    /\ recPc' \in WorkPcs =>
          \/ recPc \in WorkPcs /\ recObj' = recObj
          \/ /\ recObj' = prefetchCache
             /\ prefetchCache.live /\ ~prefetchCache.deleting /\ prefetchCache.finalizer
    /\ \A n \in Nodes :
          /\ \/ Inherits(sets[n], sets'[n])
             \/ /\ recPc \in WorkPcs /\ sets'[n].images = recObj.images
                /\ sets'[n].prefetchGeneration = recObj.generation
          /\ setsCache'[n] = setsCache[n] \/ setsCache'[n] = sets[n]

LEMMA CopiesKeep ==
  ASSUME SpecInv, Copies
  PROVE  SpecInv'
  <1> SUFFICES ASSUME prefetch'.live PROVE (\E spec \in Specs : Follows(spec))'
    BY DEF SpecInv
  <1>1. PICK spec \in Specs : Follows(spec)
    BY DEF SpecInv, Copies
  <1>2. Specs' = Specs
    BY DEF Specs, Copies
  <1>3. Follows(spec)'
    <2>1. /\ Says(spec, prefetch.generation, prefetch.images)'
          /\ (recPc \in WorkPcs => Says(spec, recObj.generation, recObj.images))'
          /\ (prefetchCache.live /\ ~prefetchCache.deleting /\ prefetchCache.finalizer
              => Says(spec, prefetchCache.generation, prefetchCache.images))'
      BY <1>1 DEF Follows, Copies, Says
    <2>2. ASSUME NEW n \in Nodes
          PROVE  /\ sets'[n].live => Says(spec, sets'[n].prefetchGeneration, sets'[n].images)
                 /\ setsCache'[n].live
                    => Says(spec, setsCache'[n].prefetchGeneration, setsCache'[n].images)
      BY <1>1 DEF Follows, Copies, Inherits
    <2> QED
      BY <2>1, <2>2 DEF Follows
  <1> QED
    BY <1>1, <1>2, <1>3

LEMMA ReconcilesCopy ==
  ASSUME TypeInv, ReconcileStep
  PROVE  Copies
  <1>1. prefetch'.live => prefetch.live /\ prefetch'.generation = prefetch.generation
                          /\ prefetch'.images = prefetch.images
    BY NoVersion, ObjectTypes
    DEF ReconcileStep, AddFinalizer, DeleteAllOf, RemoveFinalizer, Update, ListNodeImageSets,
        ApplyNodeImageSet, ListSurplus, DeleteSurplus, CountNodeImageSets, ReportStatus,
        objectVars, Prefetch
  <1>2. UNCHANGED <<prefetchCache, setsCache>>
    BY DEF ReconcileStep, AddFinalizer, DeleteAllOf, RemoveFinalizer, ListNodeImageSets,
           ApplyNodeImageSet, ListSurplus, DeleteSurplus, CountNodeImageSets, ReportStatus,
           objectVars
  <1>3. recPc' \in WorkPcs => recPc \in WorkPcs /\ recObj' = recObj
    BY DEF ReconcileStep, AddFinalizer, DeleteAllOf, RemoveFinalizer, ListNodeImageSets,
           ApplyNodeImageSet, ListSurplus, DeleteSurplus, CountNodeImageSets, ReportStatus,
           Finish, Goto, WorkPcs
  <1>4. ASSUME NEW n \in Nodes
        PROVE  \/ Inherits(sets[n], sets'[n])
               \/ /\ recPc \in WorkPcs /\ sets'[n].images = recObj.images
                  /\ sets'[n].prefetchGeneration = recObj.generation
    <2>1. CASE ~ApplyNodeImageSet
      BY <2>1, ReconcilesInherit DEF SetsInherit
    <2>2. CASE UNCHANGED sets
      BY <2>2 DEF Inherits
    <2>3. ASSUME recPc = "apply", NEW m \in recSelected, NEW policy,
                 sets' = [sets EXCEPT ![m] = Applied(@, recObj.images, policy, recObj.generation)]
          PROVE  \/ Inherits(sets[n], sets'[n])
                 \/ /\ recPc \in WorkPcs /\ sets'[n].images = recObj.images
                    /\ sets'[n].prefetchGeneration = recObj.generation
      BY <2>3, SetTypes, AppliedSpec DEF Inherits, WorkPcs
    <2> QED
      BY <2>1, <2>2, <2>3 DEF ApplyNodeImageSet
  <1> QED
    BY <1>1, <1>2, <1>3, <1>4 DEF Copies

LEMMA StepCopies ==
  ASSUME TypeInv, [Next]_vars, ~CreatePrefetch, ~UpdatePrefetch, ~DeletePrefetch
  PROVE  Copies
  <1>1. CASE Reconciles
    BY <1>1, ReconcilesCopy DEF Reconciles
  <1>2. CASE Starts
    BY <1>2 DEF Starts, StartReconcile, objectVars, Copies, Inherits, WorkPcs
  <1>3. CASE Collects
    <2>1. SetsInherit /\ UNCHANGED <<prefetch, prefetchCache, setsCache, recPc, recObj>>
      BY <1>3, CollectorInherits
      DEF Collects, CollectorStep, CollectorLists, CollectorGets, CollectorUpdates,
          CollectorDeletes, Elsewhere, recVars
    <2> QED
      BY <2>1 DEF Copies, SetsInherit
  <1>4. CASE Syncs
    BY <1>4 DEF Syncs, PrefetchSync, recVars, Copies, Inherits
  <1>5. ASSUME NEW n \in Nodes, SetSyncs(n)
        PROVE  Copies
    <2>1. \A m \in Nodes : setsCache'[m] = setsCache[m] \/ setsCache'[m] = sets[m]
      BY <1>5, SetTypes DEF SetSyncs, NodeImageSetSync
    <2> QED
      BY <1>5, <2>1 DEF SetSyncs, NodeImageSetSync, recVars, Copies, Inherits
  <1>6. ASSUME NEW n \in Nodes, DaemonStep(n)
        PROVE  Copies
    <2>1. SetsInherit /\ UNCHANGED <<prefetch, prefetchCache, setsCache, recPc, recObj>>
      BY <1>6, DaemonInherits
      DEF DaemonStep, DaemonAdopts, DaemonReads, DaemonCompletes, DaemonBegins,
          DaemonFallsBack, DaemonFinalizes, DaemonReports, DaemonWrites, controllerVars,
          objectVars, recVars
    <2> QED
      BY <2>1 DEF Copies, SetsInherit
  <1>7. ASSUME NEW n \in Nodes, NodeEvent(n)
        PROVE  Copies
    BY <1>7 DEF NodeEvent, NodeChanges, objectVars, recVars, Copies, Inherits
  <1>8. CASE Restart
    BY <1>8 DEF Restart, Copies, Inherits, WorkPcs
  <1>9. CASE UNCHANGED vars
    BY <1>9 DEF vars, objectVars, controllerVars, recVars, Copies, Inherits
  <1> QED
    BY <1>1, <1>2, <1>3, <1>4, <1>5, <1>6, <1>7, <1>8, <1>9 DEF Next, Environment

\* An edit gives the next generation its images.
LEMMA EditSays ==
  ASSUME TypeInv, SpecInv, prefetch.live,
         prefetch'.generation = prefetch.generation + 1, prefetch' \in Prefetch,
         UNCHANGED <<prefetchCache, sets, setsCache, recPc, recObj>>
  PROVE  SpecInv'
  <1>1. PICK spec \in Specs : Follows(spec)
    BY DEF SpecInv
  <1>n. PICK new : new = [g \in 0..prefetch'.generation |->
                            IF g = prefetch'.generation THEN prefetch'.images ELSE spec[g]]
    OBVIOUS
  <1>2. prefetch.generation \in Nat /\ prefetch'.images \in SUBSET Images
    BY VersionTypes DEF Prefetch
  <1>3. new \in Specs'
    BY <1>1, <1>2, <1>n DEF Specs
  <1>4. Says(new, prefetch'.generation, prefetch'.images)
    BY <1>2, <1>n DEF Says
  <1>5. ASSUME NEW generation, NEW images, Says(spec, generation, images)
        PROVE  Says(new, generation, images)
    <2>1. generation \in 0..prefetch.generation /\ spec[generation] = images
      BY <1>1, <1>5 DEF Says, Specs
    <2>2. generation \in 0..prefetch'.generation /\ generation # prefetch'.generation
      BY <1>2, <2>1
    <2> QED
      BY <1>n, <2>1, <2>2 DEF Says
  <1>6. Follows(new)'
    BY <1>1, <1>4, <1>5 DEF Follows
  <1> QED
    BY <1>3, <1>6 DEF SpecInv

\* A new ImagePrefetch meets nothing of its predecessor.
LEMMA CreateSays ==
  ASSUME TypeInv, OrphanInv, CreatePrefetch, CleanCreation
  PROVE  SpecInv'
  <1>1. /\ ~prefetch.live /\ prefetch'.live /\ prefetch'.generation = 1
        /\ prefetch'.images \in SUBSET Images
        /\ UNCHANGED <<prefetchCache, sets, setsCache, recPc, recObj>>
    BY ImageListsAssumption
    DEF CreatePrefetch, Edit, NoPrefetch, controllerVars, recVars
  <1>2. /\ \A n \in Nodes : ~sets[n].live /\ ~setsCache[n].live
        /\ recPc \notin WorkPcs
        /\ ~(prefetchCache.live /\ ~prefetchCache.deleting /\ prefetchCache.finalizer)
    BY <1>1 DEF CleanCreation, OrphanInv, Applying, CacheFollows
  <1>n. PICK spec : spec = [g \in 0..prefetch'.generation |-> prefetch'.images]
    OBVIOUS
  <1>3. spec \in Specs' /\ Says(spec, prefetch'.generation, prefetch'.images)
    BY <1>1, <1>n DEF Specs, Says
  <1>4. Follows(spec)'
    BY <1>1, <1>2, <1>3 DEF Follows
  <1> QED
    BY <1>3, <1>4 DEF SpecInv

LEMMA SpecStep ==
  TypeInv /\ OrphanInv /\ SpecInv /\ [Next]_vars /\ [CleanCreation]_vars => SpecInv'
  <1> SUFFICES ASSUME TypeInv, OrphanInv, SpecInv, [Next]_vars, [CleanCreation]_vars
               PROVE  SpecInv'
    OBVIOUS
  <1>1. CASE CreatePrefetch
    <2>1. prefetch' # prefetch
      BY <1>1 DEF CreatePrefetch, Edit, NoPrefetch
    <2>2. CleanCreation
      BY <2>1 DEF vars, objectVars
    <2> QED
      BY <1>1, <2>2, CreateSays
  <1>2. CASE UpdatePrefetch \/ DeletePrefetch
    <2>1. prefetch.live /\ UNCHANGED <<prefetchCache, sets, setsCache, recPc, recObj>>
      BY <1>2 DEF UpdatePrefetch, DeletePrefetch, Edit, controllerVars, recVars
    <2>2. prefetch' \in Prefetch
      BY TypeStep DEF TypeInv, TypeOK, ReconcilerTypeOK
    <2>3. CASE ~prefetch'.live
      BY <2>3 DEF SpecInv
    <2>4. CASE prefetch'.live
      <3>1. prefetch'.generation = prefetch.generation + 1
        BY <1>2, <2>4, NoVersion, ObjectTypes DEF UpdatePrefetch, DeletePrefetch, Edit, Prefetch
      <3> QED
        BY <2>1, <2>2, <3>1, EditSays
    <2> QED
      BY <2>3, <2>4
  <1>3. CASE ~CreatePrefetch /\ ~UpdatePrefetch /\ ~DeletePrefetch
    BY <1>3, StepCopies, CopiesKeep
  <1> QED
    BY <1>1, <1>2, <1>3

\* Whoever counts has had the images Reconcile works for.
LEMMA CountedIsServed ==
  ASSUME OrphanInv, DaemonInv, SpecInv, recPc \in WorkPcs
  PROVE  Counted(recObj.generation) \subseteq Served
  <1>1. PICK spec \in Specs : Follows(spec)
    BY DEF OrphanInv, Applying, SpecInv
  <1> SUFFICES ASSUME NEW n \in Counted(recObj.generation)
               PROVE  n \in Nodes /\ recObj.images \subseteq has[n]
    BY DEF Served
  <1>2. n \in Nodes /\ setsCache[n].live /\ setsCache[n].prefetchGeneration = recObj.generation
    BY DEF Counted, Current
  <1>3. setsCache[n].images = recObj.images
    BY <1>1, <1>2 DEF Follows, Says
  <1>4. setsCache[n].images \subseteq has[n]
    BY <1>2 DEF Counted, Current, DaemonInv, CacheHonest, Honest
  <1> QED
    BY <1>2, <1>3, <1>4

\* What a node has reported it has had stays so.
LEMMA HasGrows == TypeInv /\ [Next]_vars => \A n \in Nodes : has[n] \subseteq has'[n]
  <1> SUFFICES ASSUME TypeInv, [Next]_vars PROVE \A n \in Nodes : has[n] \subseteq has'[n]
    OBVIOUS
  <1>1. CASE UNCHANGED has
    BY <1>1
  <1>2. ASSUME NEW n \in Nodes, DaemonCompletes(n)
        PROVE  \A m \in Nodes : has[m] \subseteq has'[m]
    BY <1>2, SetTypes DEF DaemonCompletes
  <1> QED
    BY <1>1, <1>2
    DEF Next, Starts, Reconciles, Collects, Syncs, SetSyncs, Rests, DaemonStep, DaemonAdopts,
        DaemonReads, DaemonBegins, DaemonFallsBack, DaemonFinalizes, Environment,
        CreatePrefetch, UpdatePrefetch, DeletePrefetch, Edit, NodeEvent, Restart, vars

\* Steps of others than the reconciler.
Others ==
    \/ Collects \/ Syncs \/ UNCHANGED vars
    \/ \E n \in Nodes : SetSyncs(n) \/ DaemonStep(n) \/ NodeEvent(n)
    \/ CreatePrefetch \/ UpdatePrefetch \/ DeletePrefetch

LEMMA OthersWork == Others => UNCHANGED recVars
  BY DEF Others, Collects, CollectorStep, CollectorLists, CollectorGets, CollectorUpdates,
         CollectorDeletes, Elsewhere, Syncs, PrefetchSync, SetSyncs, NodeImageSetSync,
         DaemonStep, DaemonAdopts, DaemonReads, DaemonCompletes, DaemonBegins,
         DaemonFallsBack, DaemonFinalizes, DaemonReports, DaemonWrites, CreatePrefetch,
         UpdatePrefetch, DeletePrefetch, Edit, NodeEvent, NodeChanges, controllerVars, vars

\* Only the count leads to the report.
LEMMA OnlyCountReports ==
  ASSUME [Next]_vars, recPc' = "report", ~CountNodeImageSets
  PROVE  recPc = "report" /\ UNCHANGED <<recObj, recSelected, recReady>>
  <1>1. CASE Others
    BY <1>1, OthersWork DEF recVars
  <1>2. CASE Starts \/ Reconciles \/ Restart
    BY <1>2 DEF Starts, StartReconcile, Reconciles, ReconcileStep, AddFinalizer, DeleteAllOf,
                RemoveFinalizer, ListNodeImageSets, ApplyNodeImageSet, ListSurplus,
                DeleteSurplus, ReportStatus, Finish, Goto, Restart
  <1> QED
    BY <1>1, <1>2 DEF Next, Environment, Others

LEMMA EarnedStep ==
  ASSUME TypeInv, TypeInv', OrphanInv, DaemonInv, SpecInv, ReadyEarned, [Next]_vars
  PROVE  ReadyEarned'
  <1> SUFFICES ASSUME recPc' = "report", recReady'
               PROVE  Cardinality(Served') >= Cardinality(recSelected')
    BY DEF ReadyEarned
  <1>1. /\ IsFiniteSet(Served') /\ Cardinality(Served') \in Nat
        /\ Cardinality(Served) \in Nat /\ Cardinality(recSelected) \in Nat
        /\ Cardinality(Counted(recObj.generation)) \in Nat
    BY LocalTypes, CountType, NodesAssumption, FS_Subset DEF Served, Counted
  <1>2. recObj' = recObj => Served \subseteq Served'
    BY HasGrows DEF Served
  <1>3. CASE CountNodeImageSets
    <2>1. /\ recPc \in WorkPcs /\ UNCHANGED <<recObj, recSelected>>
          /\ Cardinality(Counted(recObj.generation)) = Cardinality(recSelected)
      BY <1>3, CountedIsAvailable DEF CountNodeImageSets, WorkPcs
    <2>2. Counted(recObj.generation) \subseteq Served'
      BY <1>2, <2>1, CountedIsServed
    <2> QED
      BY <1>1, <2>1, <2>2, FS_Subset
  <1>4. CASE ~CountNodeImageSets
    <2>1. recPc = "report" /\ recReady /\ UNCHANGED <<recObj, recSelected>>
      BY <1>4, OnlyCountReports
    <2>2. Cardinality(Served) <= Cardinality(Served')
      BY <1>1, <1>2, <2>1, FS_Subset
    <2> QED
      BY <1>1, <2>1, <2>2 DEF ReadyEarned
  <1> QED
    BY <1>3, <1>4

(***************************************************************************)
(* Ready is reported only when as many nodes as are selected have had the  *)
(* images it is reported for, provided that no node returns under the      *)
(* collector's hands and no ImagePrefetch is created again while something *)
(* of its predecessor is left: then a generation stands for one list of    *)
(* images, and an up-to-date status for the images of its NodeImageSet.    *)
(***************************************************************************)
THEOREM ReadyIsEarned ==
  Spec /\ [][CleanReturn]_vars /\ [][CleanCreation]_vars => []ReadyEarned
  <1> DEFINE Inv == StatusInv /\ SpecInv /\ ReadyEarned
  <1>1. Init => Inv
    BY StatusInit, NoVersion DEF Init, Idle, SpecInv, ReadyEarned
  <1>2. Inv /\ [Next]_vars /\ [CleanReturn]_vars /\ [CleanCreation]_vars => Inv'
    <2> SUFFICES ASSUME Inv, [Next]_vars, [CleanReturn]_vars, [CleanCreation]_vars
                 PROVE  Inv'
      OBVIOUS
    <2>1. StatusInv'
      BY StatusStep
    <2>2. SpecInv'
      BY SpecStep DEF StatusInv
    <2>3. ReadyEarned'
      BY <2>1, EarnedStep DEF StatusInv
    <2> QED
      BY <2>1, <2>2, <2>3
  <1>3. Inv => ReadyEarned
    OBVIOUS
  <1> HIDE DEF Inv
  <1> QED
    BY <1>1, <1>2, <1>3, PTL DEF Spec

=============================================================================
