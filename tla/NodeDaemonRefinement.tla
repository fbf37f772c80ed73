------------------------ MODULE NodeDaemonRefinement ------------------------
(***************************************************************************)
(* On a node that stays registered the daemon never mistakes an object for *)
(* a namesake, and so keeps the contract of NodeImageSetContract: proved   *)
(* for every set of NodeImageSets and images and every bound.              *)
(***************************************************************************)
EXTENDS NodeDaemonSafety

\* An object exists with a uid of its own, or not at all.
Named(obj) == obj = NoNis \/ (obj.live /\ obj.uid \in 1..edits)

AllNamed == /\ \A n \in NodeImageSets : Named(api[n]) /\ Named(cache[n])
            /\ recPc # "idle" => Named(recObj) /\ recObj.live

\* An object the cache holds with the finalizer is still there, and one that
\* was being deleted is so for good.
CacheHolds ==
    \A n \in NodeImageSets :
        /\ cache[n].live /\ cache[n].finalizer /\ ~cache[n].deleting =>
              api[n].live /\ api[n].finalizer /\ api[n].uid = cache[n].uid
        /\ cache[n].deleting /\ api[n].uid = cache[n].uid => api[n].deleting

\* The finalizer is taken from nothing the table or the cache still counts on.
RemovesDoomed ==
    /\ recPc = "removeFinalizer" =>
          /\ recNis \notin tracked /\ recObj.deleting
          /\ api[recNis].uid = recObj.uid => api[recNis].deleting
          /\ cache[recNis].uid = recObj.uid => cache[recNis].deleting
    /\ recPc = "addFinalizer" => ~recObj.deleting

\* The loops over an object's images.
LoopShape ==
    /\ recStage # "exists" => recPc \in {"collect", "count"}
    /\ recPc \in {"collect", "count"} => recTodo \subseteq recObj.images
    /\ recPc # "count" => recDownloaded = {}

IdentityInv == AllNamed /\ CacheHolds /\ RemovesDoomed /\ NoLeakedStatus

-----------------------------------------------------------------------------
(***************************************************************************)
(* What a step does to one object.                                         *)
(***************************************************************************)

Evolves(n) == /\ api[n].live /\ api'[n].live /\ api'[n].uid = api[n].uid
              /\ api[n].deleting => api'[n].deleting
              /\ api[n].finalizer => api'[n].finalizer

Appears(n) == ~api[n].live /\ api'[n].live /\ api'[n].uid = edits + 1 /\ edits' = edits + 1

Disappears(n) == /\ api'[n] = NoNis
                 /\ \/ ~api[n].finalizer
                    \/ recPc = "removeFinalizer" /\ recNis = n /\ api[n] = recObj /\ recPc' = "idle"

ObjectStep(n) == api'[n] = api[n] \/ Evolves(n) \/ Appears(n) \/ Disappears(n)

LEMMA EditObject ==
  ASSUME TypeOK, NEW m \in NodeImageSets, NEW n \in NodeImageSets,
         CreateNodeImageSet(m) \/ UpdateNodeImageSet(m) \/ DeleteNodeImageSet(m)
  PROVE  ObjectStep(n) /\ edits' = edits + 1
  <1>t. api[m] \in Nis /\ api \in [NodeImageSets -> Nis]
    BY DEF TypeOK, ReconcilerTypeOK
  <1>1. CASE CreateNodeImageSet(m)
    <2>1. PICK images \in ImageSets, policy \in RegistryPolicies :
            Edit(m, [NoNis EXCEPT !.live = TRUE, !.uid = edits + 1, !.generation = 1,
                                  !.images = images, !.policy = policy])
      BY <1>1 DEF CreateNodeImageSet
    <2> DEFINE new == [NoNis EXCEPT !.live = TRUE, !.uid = edits + 1, !.generation = 1,
                                    !.images = images, !.policy = policy]
    <2>2. Edit(m, new) /\ new.live /\ new.uid = edits + 1 /\ ~api[m].live
      BY <1>1, <2>1 DEF NoNis, CreateNodeImageSet
    <2> HIDE DEF new
    <2> QED
      BY <1>t, <2>2 DEF Edit, ObjectStep, Appears
  <1>2. CASE UpdateNodeImageSet(m)
    <2>1. PICK images \in ImageSets, policy \in RegistryPolicies :
            Edit(m, [api[m] EXCEPT !.images = images, !.policy = policy, !.generation = @ + 1])
      BY <1>2 DEF UpdateNodeImageSet
    <2> DEFINE new == [api[m] EXCEPT !.images = images, !.policy = policy, !.generation = @ + 1]
    <2>2. /\ Edit(m, new) /\ api[m].live /\ new.live /\ new.uid = api[m].uid
          /\ new.deleting = api[m].deleting /\ new.finalizer = api[m].finalizer
      BY <1>2, <1>t, <2>1 DEF UpdateNodeImageSet, Nis
    <2> HIDE DEF new
    <2> QED
      BY <1>t, <2>2 DEF Edit, ObjectStep, Evolves
  <1>3. CASE DeleteNodeImageSet(m) /\ api[m].finalizer
    <2> DEFINE new == [api[m] EXCEPT !.deleting = TRUE, !.generation = @ + 1]
    <2>2. /\ Edit(m, new) /\ api[m].live /\ new.live /\ new.uid = api[m].uid
          /\ new.deleting /\ new.finalizer = api[m].finalizer
      BY <1>3, <1>t DEF DeleteNodeImageSet, Nis
    <2> HIDE DEF new
    <2> QED
      BY <1>t, <2>2 DEF Edit, ObjectStep, Evolves
  <1>4. CASE DeleteNodeImageSet(m) /\ ~api[m].finalizer
    BY <1>t, <1>4 DEF DeleteNodeImageSet, Edit, ObjectStep, Disappears
  <1> QED
    BY <1>1, <1>2, <1>3, <1>4

LEMMA ReconcilerObject ==
  ASSUME TypeOK, RecShape, NEW n \in NodeImageSets, ReconcilerActs,
         recPc # "idle" => recObj.live
  PROVE  ObjectStep(n) /\ edits' = edits
  <1>t. api \in [NodeImageSets -> Nis] /\ api[n] \in Nis
    BY DEF TypeOK, ReconcilerTypeOK
  <1>e. edits' = edits
    BY DEF ReconcilerActs, envVars
  <1>1. CASE UNCHANGED api
    BY <1>e, <1>1 DEF ObjectStep
  <1>2. CASE RemoveFinalizer /\ Update(NoNis)
    BY <1>e, <1>t, <1>2 DEF RemoveFinalizer, Update, Finish, ObjectStep, Disappears
  <1>3. CASE AddFinalizer /\ Update([recObj EXCEPT !.finalizer = TRUE])
    <2>1. recNis \in NodeImageSets /\ recObj \in Nis /\ recObj.live
      BY <1>3 DEF AddFinalizer, TypeOK, ReconcilerTypeOK
    <2> DEFINE new == [recObj EXCEPT !.finalizer = TRUE]
    <2>2. /\ api' = [api EXCEPT ![recNis] = new] /\ api[recNis] = recObj
          /\ new.live /\ new.uid = recObj.uid /\ new.deleting = recObj.deleting /\ new.finalizer
      BY <1>3, <2>1 DEF Update, Nis
    <2> HIDE DEF new
    <2> QED
      BY <1>e, <1>t, <2>1, <2>2 DEF ObjectStep, Evolves
  <1>4. CASE Apply /\ api[recNis].live /\ api' = [api EXCEPT ![recNis] = Reported(@)]
    <2>1. recNis \in NodeImageSets /\ api[recNis] \in Nis
      BY <1>4, <1>t DEF Apply, TypeOK, ReconcilerTypeOK
    <2> DEFINE new == Reported(api[recNis])
    <2>2. /\ api' = [api EXCEPT ![recNis] = new]
          /\ new.live = api[recNis].live /\ new.uid = api[recNis].uid
          /\ new.deleting = api[recNis].deleting /\ new.finalizer = api[recNis].finalizer
      BY <1>4, <2>1 DEF Reported, Nis
    <2> HIDE DEF new
    <2> QED
      BY <1>e, <1>t, <1>4, <2>1, <2>2 DEF ObjectStep, Evolves
  <1> QED
    BY <1>1, <1>2, <1>3, <1>4
    DEF ReconcilerActs, ReconcileStep, RemoveFinalizer, AddFinalizer, Prepare, AskContainerd,
        ReadPulling, ReadError, EnqueueTask, StartCount, Apply, apiVars

LEMMA EveryObject ==
  ASSUME TypeOK, RecShape, AllNamed, ~Unregisters, [Next]_vars
  PROVE  /\ \A n \in NodeImageSets : ObjectStep(n)
         /\ edits' = edits \/ edits' = edits + 1
  <1>1. CASE ReconcilerActs
    <2>1. edits' = edits
      BY <1>1 DEF ReconcilerActs, envVars
    <2> QED
      BY <1>1, <2>1, ReconcilerObject DEF AllNamed
  <1>2. ASSUME NEW m \in NodeImageSets,
               CreateNodeImageSet(m) \/ UpdateNodeImageSet(m) \/ DeleteNodeImageSet(m)
        PROVE  (\A n \in NodeImageSets : ObjectStep(n)) /\ edits' = edits + 1
    BY <1>2, EditObject
  <1>3. CASE ~ReconcilerActs /\ \A m \in NodeImageSets :
                  ~(CreateNodeImageSet(m) \/ UpdateNodeImageSet(m) \/ DeleteNodeImageSet(m))
    <2>1. api' = api /\ (edits' = edits \/ edits' = edits + 1)
      BY <1>3
      DEF Next, RunnerActs, SubscriberActs, Subscribes, LosesEvent, WatcherListFails, EvictImage,
          KubeletPull, EditSecret, SecretSync, vars, daemonVars, apiVars, envVars, WatcherActs,
          WatcherStep, WatcherReceive, WatcherList, WatcherSend, Starts, StartReconcile, Syncs, CacheSync,
          Resyncs, Resync, Environment, Restart, CollectorRemovesFinalizer
    <2> QED
      BY <2>1 DEF ObjectStep
  <1> QED
    BY <1>1, <1>2, <1>3

-----------------------------------------------------------------------------
(***************************************************************************)
(* The identity of objects, step by step.                                  *)
(***************************************************************************)

LEMMA InitIdentity == Init => IdentityInv
  BY DEF Init, PullerInit, ReconcilerInit, IdentityInv, AllNamed, Named, CacheHolds,
         RemovesDoomed, NoLeakedStatus, NoNis

\* What was said of an object in the cache stays true while the cache does.
LEMMA ObjectKeeps ==
  ASSUME TypeOK, IdentityInv, NEW n \in NodeImageSets, ObjectStep(n),
         edits' = edits \/ edits' = edits + 1
  PROVE  /\ Named(api[n])' /\ (\A obj : Named(obj) => Named(obj)')
         /\ \A obj : Named(obj) /\ obj.live /\ api[n].uid # obj.uid => api'[n].uid # obj.uid
         /\ cache[n].live /\ cache[n].finalizer /\ ~cache[n].deleting =>
               api'[n].live /\ api'[n].finalizer /\ api'[n].uid = cache[n].uid
         /\ cache[n].deleting /\ api'[n].uid = cache[n].uid => api'[n].deleting
         /\ n \in tracked => api'[n].live /\ api'[n].finalizer
  <1>t. edits \in Nat /\ ~NoNis.live /\ NoNis.uid = 0 /\ ~NoNis.deleting
    BY EditsAssumption DEF TypeOK, NoNis
  <1>n. /\ Named(api[n]) /\ Named(cache[n])
        /\ cache[n].live /\ cache[n].finalizer /\ ~cache[n].deleting =>
              api[n].live /\ api[n].finalizer /\ api[n].uid = cache[n].uid
        /\ cache[n].deleting /\ api[n].uid = cache[n].uid => api[n].deleting
        /\ n \in tracked => api[n].live /\ api[n].finalizer
    BY DEF IdentityInv, AllNamed, CacheHolds, NoLeakedStatus
  <1>1. (\A obj : Named(obj) => Named(obj)') /\ edits' >= edits
    BY <1>t DEF Named
  <1>2. CASE api'[n] = api[n]
    BY <1>1, <1>2, <1>n DEF Named
  <1>3. CASE Evolves(n)
    BY <1>1, <1>3, <1>n, <1>t DEF Named, Evolves
  <1>4. CASE Appears(n)
    BY <1>1, <1>4, <1>n, <1>t DEF Named, Appears
  <1>5. CASE Disappears(n)
    <2>1. CASE ~api[n].finalizer
      BY <1>1, <1>5, <1>n, <1>t, <2>1 DEF Named, Disappears
    <2>2. CASE recPc = "removeFinalizer" /\ recNis = n /\ api[n] = recObj
      <3>1. n \notin tracked /\ (cache[n].uid = api[n].uid => cache[n].deleting)
        BY <2>2 DEF IdentityInv, RemovesDoomed
      <3> QED
        BY <1>1, <1>5, <1>n, <1>t, <3>1 DEF Named, Disappears
    <2> QED
      BY <1>5, <2>1, <2>2 DEF Disappears
  <1> QED
    BY <1>2, <1>3, <1>4, <1>5 DEF ObjectStep

\* So does what was said of the object Reconcile works on.
LEMMA ReconcileKeeps ==
  ASSUME TypeOK, IdentityInv, \A n \in NodeImageSets : ObjectStep(n),
         edits' = edits \/ edits' = edits + 1, recPc # "idle", recPc' # "idle"
  PROVE  /\ recPc \in {"prepare", "collect", "count"} =>
               api'[recNis].live /\ api'[recNis].finalizer /\ api'[recNis].uid = recObj.uid
         /\ recPc = "removeFinalizer" =>
               (api'[recNis].uid = recObj.uid => api'[recNis].deleting)
  <1>n. recNis \in NodeImageSets /\ ObjectStep(recNis) /\ Named(api[recNis])
        /\ Named(recObj) /\ recObj.live
    BY DEF TypeOK, ReconcilerTypeOK, IdentityInv, AllNamed
  <1>k. /\ recPc \in {"prepare", "collect", "count"} =>
              api[recNis].live /\ api[recNis].finalizer /\ api[recNis].uid = recObj.uid
        /\ recPc = "removeFinalizer" =>
              (api[recNis].uid = recObj.uid => api[recNis].deleting)
    BY DEF IdentityInv, NoLeakedStatus, RemovesDoomed
  <1>1. api[recNis].uid # recObj.uid => api'[recNis].uid # recObj.uid
    BY <1>n, ObjectKeeps
  <1>2. CASE api'[recNis] = api[recNis] \/ Evolves(recNis)
    BY <1>1, <1>2, <1>k DEF Evolves
  <1>3. CASE Appears(recNis)
    <2>1. api[recNis].uid # recObj.uid
      BY <1>3, <1>n, EditsAssumption DEF Appears, Named, NoNis, TypeOK
    <2> QED
      BY <1>1, <1>3, <1>k, <2>1 DEF Appears
  <1>4. CASE Disappears(recNis)
    <2>1. ~api[recNis].finalizer /\ recObj.uid # 0 /\ NoNis.uid = 0
      BY <1>4, <1>n, EditsAssumption DEF Disappears, Named, NoNis, TypeOK
    <2> QED
      BY <1>4, <1>k, <2>1 DEF Disappears
  <1> QED
    BY <1>n, <1>2, <1>3, <1>4 DEF ObjectStep

LEMMA StartIdentity ==
  ASSUME TypeOK, IdentityInv, NEW n \in NodeImageSets, Starts(n)
  PROVE  IdentityInv'
  <1>0. UNCHANGED <<api, cache, edits>> /\ tracked' \subseteq tracked
    BY DEF Starts, StartReconcile, envVars, DeleteNodeImageSetStatus, tableVars
  <1>1. /\ cache[n].live /\ cache[n].finalizer /\ ~cache[n].deleting =>
              api[n].live /\ api[n].finalizer /\ api[n].uid = cache[n].uid
        /\ cache[n].deleting /\ api[n].uid = cache[n].uid => api[n].deleting
        /\ Named(cache[n])
    BY DEF IdentityInv, CacheHolds, AllNamed
  <1>2. CASE recPc' = "idle"
    BY <1>0, <1>2 DEF IdentityInv, AllNamed, Named, CacheHolds, RemovesDoomed, NoLeakedStatus
  <1>3. CASE recPc' # "idle"
    <2>1. /\ recNis' = n /\ recObj' = cache[n] /\ cache[n].live
          /\ recPc' \in {"removeFinalizer", "addFinalizer", "prepare"}
          /\ recPc' = "removeFinalizer" <=> cache[n].deleting
          /\ recPc' = "prepare" => cache[n].finalizer
          /\ cache[n].deleting => DeleteNodeImageSetStatus(n)
      BY <1>3 DEF Starts, StartReconcile, TypeOK, ReconcilerTypeOK, Nis
    <2>2. cache[n].deleting => n \notin tracked'
      BY <2>1 DEF DeleteNodeImageSetStatus
    <2> QED
      BY <1>0, <1>1, <2>1, <2>2
      DEF IdentityInv, AllNamed, Named, CacheHolds, RemovesDoomed, NoLeakedStatus
  <1> QED
    BY <1>2, <1>3

LEMMA ReconcileIdentity ==
  ASSUME TypeOK, RecShape, LoopShape, IdentityInv, ReconcilerActs
  PROVE  IdentityInv'
  <1>0. cache' = cache /\ edits' = edits /\ recPc # "idle" /\ recNis \in NodeImageSets
    BY DEF ReconcilerActs, envVars, ReconcileStep, RemoveFinalizer, AddFinalizer, Prepare,
           AskContainerd, ReadPulling, ReadError, EnqueueTask, StartCount, Apply, apiVars,
           TypeOK, ReconcilerTypeOK, LoopShape
  <1>1. \A n \in NodeImageSets : ObjectStep(n)
    BY ReconcilerObject DEF IdentityInv, AllNamed
  <1>2. \/ recPc' = "idle" /\ tracked' = tracked
        \/ /\ recPc' \in {"prepare", "collect", "count"}
           /\ recPc \in {"prepare", "collect", "count"}
           /\ UNCHANGED <<recNis, recObj>>
           /\ tracked' \subseteq tracked \cup {recNis}
    <2>1. CASE RemoveFinalizer \/ AddFinalizer \/ Apply
      BY <2>1 DEF RemoveFinalizer, AddFinalizer, Apply, Finish, tableVars, runnerVars
    <2>2. CASE Prepare
      BY <2>2 DEF Prepare, Finish, GotoRec, TrackNodeImageSet, tableVars
    <2>3. CASE AskContainerd \/ EnqueueTask \/ StartCount
      BY <2>3 DEF AskContainerd, EnqueueTask, StartCount, GotoRec, tableVars, runnerVars
    <2>4. CASE ReadPulling \/ ReadError
      <3>1. recPc \in {"collect", "count"}
        BY <2>4 DEF ReadPulling, ReadError, LoopShape
      <3> QED
        BY <2>4, <3>1 DEF ReadPulling, ReadError, tableVars, runnerVars
    <2> QED
      BY <2>1, <2>2, <2>3, <2>4 DEF ReconcilerActs, ReconcileStep
  <1>k. recPc \in {"prepare", "collect", "count"} /\ recPc' # "idle" =>
           api'[recNis].live /\ api'[recNis].finalizer /\ api'[recNis].uid = recObj.uid
    BY <1>0, <1>1, ReconcileKeeps
  <1>3. AllNamed' /\ CacheHolds' /\ \A n \in tracked' : api'[n].live /\ api'[n].finalizer
    <2>1. \A n \in NodeImageSets : Named(cache[n])'
      BY <1>0 DEF IdentityInv, AllNamed, Named
    <2>2. recPc' # "idle" => Named(recObj)' /\ recObj'.live
      <3>1. recPc' # "idle" => recObj' = recObj
        BY <1>2
      <3> QED
        BY <1>0, <3>1 DEF IdentityInv, AllNamed, Named
    <2>3. \A n \in tracked : api'[n].live /\ api'[n].finalizer
      BY <1>0, <1>1, ObjectKeeps DEF TypeOK, PullerTypeOK
    <2>4. AllNamed' /\ CacheHolds'
      BY <1>0, <1>1, <2>1, <2>2, ObjectKeeps DEF AllNamed, CacheHolds
    <2> QED
      BY <1>2, <1>k, <2>3, <2>4
  <1>4. CASE recPc' = "idle"
    BY <1>2, <1>3, <1>4 DEF IdentityInv, RemovesDoomed, NoLeakedStatus
  <1>5. CASE recPc' # "idle"
    BY <1>2, <1>3, <1>5, <1>k DEF IdentityInv, RemovesDoomed, NoLeakedStatus
  <1> QED
    BY <1>4, <1>5

LEMMA OtherIdentity ==
  ASSUME TypeOK, IdentityInv, \A n \in NodeImageSets : ObjectStep(n),
         edits' = edits \/ edits' = edits + 1,
         \A n \in NodeImageSets : cache'[n] = cache[n] \/ cache'[n] = api'[n],
         UNCHANGED <<tracked, recPc, recNis, recObj>>
  PROVE  IdentityInv'
  <1>1. AllNamed' /\ CacheHolds' /\ \A n \in tracked : api'[n].live /\ api'[n].finalizer
    BY ObjectKeeps DEF IdentityInv, AllNamed, Named, CacheHolds, TypeOK, PullerTypeOK
  <1>2. CASE recPc = "idle"
    BY <1>1, <1>2 DEF IdentityInv, RemovesDoomed, NoLeakedStatus
  <1>3. CASE recPc # "idle"
    <2>1. recNis \in NodeImageSets
      BY <1>3 DEF TypeOK, ReconcilerTypeOK
    <2>2. /\ recPc \in {"prepare", "collect", "count"} =>
                api'[recNis].live /\ api'[recNis].finalizer /\ api'[recNis].uid = recObj.uid
          /\ recPc = "removeFinalizer" =>
                (api'[recNis].uid = recObj.uid => api'[recNis].deleting)
      BY <1>3, ReconcileKeeps
    <2> QED
      BY <1>1, <2>1, <2>2 DEF IdentityInv, RemovesDoomed, NoLeakedStatus
  <1> QED
    BY <1>2, <1>3

LEMMA NextIdentity ==
  ASSUME TypeOK, RecShape, LoopShape, IdentityInv, ~Unregisters, [Next]_vars
  PROVE  IdentityInv'
  <1>1. CASE \E n \in NodeImageSets : Starts(n)
    BY <1>1, StartIdentity
  <1>2. CASE ReconcilerActs
    BY <1>2, ReconcileIdentity
  <1>3. CASE Restart
    BY <1>3
    DEF Restart, IdentityInv, AllNamed, Named, CacheHolds, RemovesDoomed, NoLeakedStatus
  <1>4. CASE ~(\E n \in NodeImageSets : Starts(n)) /\ ~ReconcilerActs /\ ~Restart
    <2>1. UNCHANGED <<recPc, recNis, recObj>>
      BY <1>4, ReconcileUndisturbed
    <2>2. tracked' = tracked
      <3>1. CASE RunnerActs \/ SubscriberActs
        BY <3>1
        DEF RunnerActs, RunnerStep, RunnerGet, RunnerIsImageExists, RunnerDone, PullImage, PullLoad,
            PullCheck, PullTryStart, PullRecheck, PullTransfer, PullStop, PullRecord,
            SubscriberActs, SubscriberStep, SubscriberReceive, SubscriberVisit,
            SubscriberClearError, tableVars
      <3> QED
        BY <1>4, <3>1, OthersSpareTable DEF tableVars
    <2>3. \A n \in NodeImageSets : cache'[n] = cache[n] \/ cache'[n] = api'[n]
      <3>1. CASE \E n \in NodeImageSets : \E obj : Edit(n, obj)
        BY <3>1 DEF Edit
      <3>2. (\E n \in NodeImageSets : CreateNodeImageSet(n) \/ UpdateNodeImageSet(n)
                \/ DeleteNodeImageSet(n)) => \E n \in NodeImageSets : \E obj : Edit(n, obj)
        BY DEF CreateNodeImageSet, UpdateNodeImageSet, DeleteNodeImageSet
      <3> QED
      BY <1>4, <3>1, <3>2
      DEF Next, RunnerActs, SubscriberActs, Subscribes, LosesEvent, WatcherListFails, EvictImage,
          KubeletPull, EditSecret, SecretSync, vars, daemonVars, apiVars, WatcherActs, WatcherStep,
          WatcherReceive, WatcherList, WatcherSend, Syncs, CacheSync, Resyncs, Resync,
          Environment, CreateNodeImageSet, UpdateNodeImageSet, DeleteNodeImageSet, Edit,
          CollectorRemovesFinalizer, TypeOK, ReconcilerTypeOK
    <2> QED
      BY <2>1, <2>2, <2>3, EveryObject, OtherIdentity DEF IdentityInv
  <1> QED
    BY <1>1, <1>2, <1>3, <1>4

LEMMA NextLoop ==
  ASSUME TypeOK, LoopShape, [Next]_vars
  PROVE  LoopShape'
  <1>1. CASE Restart
    BY <1>1 DEF Restart, LoopShape
  <1>2. CASE \E n \in NodeImageSets : Starts(n)
    BY <1>2 DEF Starts, StartReconcile, loopVars, LoopShape
  <1>3. CASE ReconcilerActs
    <2>1. CASE RemoveFinalizer \/ AddFinalizer \/ Apply
      BY <2>1 DEF RemoveFinalizer, AddFinalizer, Apply, Finish, LoopShape
    <2>2. CASE Prepare
      BY <2>2 DEF Prepare, Finish, GotoRec, LoopShape
    <2>3. CASE AskContainerd
      BY <2>3 DEF AskContainerd, Answer, LoopShape
    <2>4. CASE ReadPulling \/ ReadError
      BY <2>4 DEF ReadPulling, ReadError, Answer, StatusOfError, LoopShape
    <2>5. CASE EnqueueTask \/ StartCount
      BY <2>5 DEF EnqueueTask, StartCount, GotoRec, LoopShape
    <2> QED
      BY <1>3, <2>1, <2>2, <2>3, <2>4, <2>5 DEF ReconcilerActs, ReconcileStep
  <1>4. CASE UNCHANGED recVars
    BY <1>4 DEF recVars, loopVars, LoopShape
  <1> QED
    BY <1>1, <1>2, <1>3, <1>4
    DEF Next, RunnerActs, SubscriberActs, Subscribes, LosesEvent, WatcherListFails, WatcherActs,
        WatcherStep, WatcherReceive, WatcherList, WatcherSend, Syncs, CacheSync, Resyncs, Resync,
        Environment, CreateNodeImageSet, UpdateNodeImageSet, DeleteNodeImageSet,
        CollectorRemovesFinalizer, Edit, EditSecret, SecretSync, EvictImage, KubeletPull,
        vars, daemonVars

LEMMA LoopsKeepShape == Spec => []LoopShape
  <1>1. Init => LoopShape
    BY DEF Init, ReconcilerInit, LoopInit, LoopShape
  <1> QED
    BY <1>1, NextLoop, TypeCorrect, PTL DEF Spec

(***************************************************************************)
(* NoLeakedStatus, as long as the node stays registered: the table and the *)
(* reconciler are never about a deleted namesake.                          *)
(***************************************************************************)
THEOREM IdentityInvariant ==
  ASSUME ~Unregisters
  PROVE  Spec => []IdentityInv
  <1>1. TypeOK /\ AttentionInv /\ LoopShape /\ IdentityInv /\ [Next]_vars => IdentityInv'
    BY NextIdentity DEF AttentionInv
  <1> QED
    BY <1>1, InitIdentity, TypeCorrect, AttentionInvariant, LoopsKeepShape, PTL DEF Spec

(***************************************************************************)
(* NoLeakedStatus, as long as the node stays registered: the table and the *)
(* reconciler are never about a deleted namesake.                          *)
(***************************************************************************)
THEOREM NothingIsLeaked ==
  ASSUME ~Unregisters
  PROVE  Spec => []NoLeakedStatus
  BY IdentityInvariant, PTL DEF IdentityInv

-----------------------------------------------------------------------------
(***************************************************************************)
(* The contract, step by step.                                             *)
(***************************************************************************)

LEMMA SeenNothing == Seen(NoNis) = Contract!NoObject
  BY DEF Seen, NoNis, Contract!NoObject

LEMMA SeenType ==
  ASSUME NEW obj \in Nis
  PROVE  Seen(obj) \in Contract!Object
  BY DEF Seen, Nis, Contract!Object

LEMMA SeenFields ==
  ASSUME NEW obj
  PROVE  /\ Seen(obj).live = obj.live /\ Seen(obj).deleting = obj.deleting
         /\ Seen(obj).uid = obj.uid /\ Seen(obj).generation = obj.generation
         /\ Seen(obj).images = obj.images /\ Seen(obj).finalizer = obj.finalizer
  BY DEF Seen

LEMMA SeenExcept ==
  ASSUME NEW obj \in Nis, NEW v
  PROVE  /\ Seen([obj EXCEPT !.live = v]) = [Seen(obj) EXCEPT !.live = v]
         /\ Seen([obj EXCEPT !.uid = v]) = [Seen(obj) EXCEPT !.uid = v]
         /\ Seen([obj EXCEPT !.generation = v]) = [Seen(obj) EXCEPT !.generation = v]
         /\ Seen([obj EXCEPT !.images = v]) = [Seen(obj) EXCEPT !.images = v]
         /\ Seen([obj EXCEPT !.deleting = v]) = [Seen(obj) EXCEPT !.deleting = v]
         /\ Seen([obj EXCEPT !.finalizer = v]) = [Seen(obj) EXCEPT !.finalizer = v]
         /\ Seen([obj EXCEPT !.observed = v]) = [Seen(obj) EXCEPT !.observed = v]
         /\ Seen([obj EXCEPT !.available = v]) = [Seen(obj) EXCEPT !.available = v]
         /\ Seen([obj EXCEPT !.policy = v]) = Seen(obj)
         /\ Seen([obj EXCEPT !.failed = v]) = Seen(obj)
  BY DEF Seen, Nis

LEMMA NisExcept ==
  ASSUME NEW obj \in Nis
  PROVE  /\ \A v \in BOOLEAN : /\ [obj EXCEPT !.live = v] \in Nis
                               /\ [obj EXCEPT !.deleting = v] \in Nis
                               /\ [obj EXCEPT !.available = v] \in Nis
         /\ \A v \in Nat : /\ [obj EXCEPT !.uid = v] \in Nis
                           /\ [obj EXCEPT !.generation = v] \in Nis
                           /\ [obj EXCEPT !.observed = v] \in Nis
         /\ \A v \in SUBSET Images : [obj EXCEPT !.images = v] \in Nis
         /\ \A v \in RegistryPolicies : [obj EXCEPT !.policy = v] \in Nis
  BY DEF Nis

\* Edits of several fields, by name, of an object and of what is seen of it.
Revised(obj, images, policy, g) ==
    [obj EXCEPT !.images = images, !.policy = policy, !.generation = g]
WithStatus(obj, g, all, f) == [obj EXCEPT !.observed = g, !.available = all, !.failed = f]
SeenWith(obj, images, g) == [Seen(obj) EXCEPT !.images = images, !.generation = g]
SeenStatus(obj, g, all)  == [Seen(obj) EXCEPT !.observed = g, !.available = all]

LEMMA SeenRevised ==
  ASSUME NEW obj \in Nis, NEW images \in SUBSET Images, NEW policy \in RegistryPolicies,
         NEW g \in Nat
  PROVE  Seen(Revised(obj, images, policy, g)) = SeenWith(obj, images, g)
  <1> DEFINE o1 == [obj EXCEPT !.images = images]
             o2 == [o1 EXCEPT !.policy = policy]
  <1>1. o1 \in Nis /\ Seen(o1) = [Seen(obj) EXCEPT !.images = images]
    BY SeenExcept, NisExcept
  <1> HIDE DEF o1
  <1>2. o2 \in Nis /\ Seen(o2) = Seen(o1)
    BY <1>1, SeenExcept, NisExcept
  <1> HIDE DEF o2
  <1>3. Seen([o2 EXCEPT !.generation = g]) = [Seen(o2) EXCEPT !.generation = g]
    BY <1>2, SeenExcept
  <1> QED
    BY <1>1, <1>2, <1>3 DEF o1, o2, Revised, SeenWith

LEMMA SeenCreated ==
  ASSUME NEW uid \in Nat, NEW images \in SUBSET Images, NEW policy \in RegistryPolicies
  PROVE  /\ Seen([NoNis EXCEPT !.live = TRUE, !.uid = uid, !.generation = 1,
                               !.images = images, !.policy = policy])
               = [Contract!NoObject EXCEPT !.live = TRUE, !.uid = uid, !.generation = 1,
                                           !.images = images]
  <1> DEFINE o1 == [NoNis EXCEPT !.live = TRUE]
             o2 == [o1 EXCEPT !.uid = uid]
             o3 == [o2 EXCEPT !.generation = 1]
             o4 == [o3 EXCEPT !.images = images]
  <1>1. o1 \in Nis /\ Seen(o1) = [Contract!NoObject EXCEPT !.live = TRUE]
    BY SeenExcept, NisExcept, SeenNothing, NoNisType
  <1> HIDE DEF o1
  <1>2. o2 \in Nis /\ Seen(o2) = [Seen(o1) EXCEPT !.uid = uid]
    BY <1>1, SeenExcept, NisExcept
  <1> HIDE DEF o2
  <1>3. o3 \in Nis /\ Seen(o3) = [Seen(o2) EXCEPT !.generation = 1]
    BY <1>2, SeenExcept, NisExcept
  <1> HIDE DEF o3
  <1>4. o4 \in Nis /\ Seen(o4) = [Seen(o3) EXCEPT !.images = images]
    BY <1>3, SeenExcept, NisExcept
  <1> HIDE DEF o4
  <1>5. Seen([o4 EXCEPT !.policy = policy]) = Seen(o4)
    BY <1>4, SeenExcept
  <1> QED
    BY <1>1, <1>2, <1>3, <1>4, <1>5 DEF o1, o2, o3, o4

LEMMA SeenReported ==
  ASSUME NEW obj \in Nis, NEW g \in Nat, NEW a \in BOOLEAN, NEW f \in BOOLEAN
  PROVE  Seen(WithStatus(obj, g, a, f)) = SeenStatus(obj, g, a)
  <1> DEFINE o1 == [obj EXCEPT !.observed = g]
             o2 == [o1 EXCEPT !.available = a]
  <1>1. o1 \in Nis /\ Seen(o1) = [Seen(obj) EXCEPT !.observed = g]
    BY SeenExcept, NisExcept
  <1> HIDE DEF o1
  <1>2. o2 \in Nis /\ Seen(o2) = [Seen(o1) EXCEPT !.available = a]
    BY <1>1, SeenExcept, NisExcept
  <1> HIDE DEF o2
  <1>3. Seen([o2 EXCEPT !.failed = f]) = Seen(o2)
    BY <1>2, SeenExcept
  <1> QED
    BY <1>1, <1>2, <1>3 DEF o1, o2, WithStatus, SeenStatus

LEMMA SeenDeleted ==
  ASSUME NEW obj \in Nis, NEW g \in Nat
  PROVE  Seen([obj EXCEPT !.deleting = TRUE, !.generation = g])
            = [Seen(obj) EXCEPT !.deleting = TRUE, !.generation = g]
  <1> DEFINE o1 == [obj EXCEPT !.deleting = TRUE]
  <1>1. o1 \in Nis /\ Seen(o1) = [Seen(obj) EXCEPT !.deleting = TRUE]
    BY SeenExcept, NisExcept
  <1> HIDE DEF o1
  <1>3. Seen([o1 EXCEPT !.generation = g]) = [Seen(o1) EXCEPT !.generation = g]
    BY <1>1, SeenExcept
  <1> QED
    BY <1>1, <1>3 DEF o1

\* All that the mapping looks at, but for the objects.
readVars == <<cache, recPc, recNis, recObj, recDownloaded, present>>

LEMMA SeenWrite ==
  ASSUME api \in [NodeImageSets -> Nis], NEW n \in NodeImageSets, NEW obj,
         api' = [api EXCEPT ![n] = obj], UNCHANGED readVars
  PROVE  Contract!Write(n, Seen(obj))
  BY DEF Contract!Write, WorksOn, readVars

LEMMA InitContract == Init => Contract!Init
  <1> SUFFICES ASSUME Init PROVE Contract!Init
    OBVIOUS
  <1>1. \A n \in NodeImageSets : Seen(api[n]) = Contract!NoObject
                               /\ Seen(cache[n]) = Contract!NoObject /\ ~WorksOn(n)
    BY SeenNothing DEF Init, ReconcilerInit, WorksOn
  <1>2. Contract!NoObject \in Contract!Object
    BY SeenNothing, SeenType, NoNisType
  <1>3. present \in SUBSET Images
    BY DEF Init, PullerInit
  <1> QED
    BY <1>1, <1>2, <1>3, SeenNothing DEF Contract!Init

LEMMA EditContract ==
  ASSUME TypeOK, IdentityInv, NEW n \in NodeImageSets,
         CreateNodeImageSet(n) \/ UpdateNodeImageSet(n) \/ DeleteNodeImageSet(n)
  PROVE  Contract!Create(n) \/ Contract!Update(n) \/ Contract!Delete(n)
  <1>t. api \in [NodeImageSets -> Nis] /\ api[n] \in Nis /\ edits \in Nat
    BY EditsAssumption DEF TypeOK, ReconcilerTypeOK
  <1>u. \A obj : Edit(n, obj) => Contract!Write(n, Seen(obj))
    BY <1>t, SeenWrite DEF Edit, readVars, recVars, loopVars, runnerVars
  <1>1. CASE CreateNodeImageSet(n)
    <2>1. PICK images \in ImageSets, policy \in RegistryPolicies :
            Edit(n, [NoNis EXCEPT !.live = TRUE, !.uid = edits + 1, !.generation = 1,
                                  !.images = images, !.policy = policy])
      BY <1>1 DEF CreateNodeImageSet
    <2> DEFINE new == [NoNis EXCEPT !.live = TRUE, !.uid = edits + 1, !.generation = 1,
                                    !.images = images, !.policy = policy]
               seen == [Contract!NoObject EXCEPT !.live = TRUE, !.uid = edits + 1,
                                                 !.generation = 1, !.images = images]
    <2>2. edits + 1 \in Nat /\ images \in SUBSET Images
      BY <1>t DEF ImageSets
    <2>3. Seen(new) = seen
      BY <2>2, SeenCreated
    <2>4. seen \in Contract!Object /\ seen.uid = edits + 1 /\ seen.images = images
      BY <2>2 DEF Contract!NoObject, Contract!Object
    <2>5. Contract!Write(n, seen) /\ api'[n] = new /\ ~api[n].live
      BY <1>t, <1>u, <1>1, <2>1, <2>3 DEF Edit, CreateNodeImageSet
    <2>6. /\ Seen(cache[n]).uid # edits + 1 /\ edits + 1 # 0
          /\ Seen(IF WorksOn(n) THEN recObj ELSE NoNis).uid # edits + 1
      BY <1>t, SeenFields DEF IdentityInv, AllNamed, Named, WorksOn, NoNis
    <2> HIDE DEF new
    <2>7. [m \in NodeImageSets |-> Seen(api'[m])][n] = seen
      BY <2>3, <2>5
    <2>8. seen = [Contract!NoObject EXCEPT !.live = TRUE, !.uid = seen.uid,
                                           !.generation = 1, !.images = seen.images]
      BY <2>4
    <2> HIDE DEF seen
    <2> QED
      BY <2>4, <2>5, <2>6, <2>7, <2>8, SeenFields DEF Contract!Create
  <1>2. CASE UpdateNodeImageSet(n)
    <2>1. PICK images \in ImageSets, policy \in RegistryPolicies :
            Edit(n, [api[n] EXCEPT !.images = images, !.policy = policy, !.generation = @ + 1])
      BY <1>2 DEF UpdateNodeImageSet
    <2> DEFINE g == api[n].generation + 1
    <2>2. Contract!Write(n, [Seen(api[n]) EXCEPT !.images = images, !.generation = g])
      <3>1. images \in SUBSET Images /\ policy \in RegistryPolicies /\ g \in Nat
        BY <1>t, <2>1, NisFields DEF ImageSets
      <3> HIDE DEF g
      <3> DEFINE obj == api[n]
      <3>o. obj \in Nis /\ Edit(n, Revised(obj, images, policy, g))
        BY <1>t, <2>1 DEF g, Revised
      <3> HIDE DEF obj
      <3>2. Seen(Revised(obj, images, policy, g)) = SeenWith(obj, images, g)
        BY <3>1, <3>o, SeenRevised
      <3>3. Contract!Write(n, SeenWith(obj, images, g))
        BY <1>u, <3>2, <3>o
      <3> QED
        BY <3>3 DEF obj, SeenWith
    <2>3. api[n].live /\ images \in SUBSET Images
      BY <1>2 DEF UpdateNodeImageSet, ImageSets
    <2>4. g = Seen(api[n]).generation + 1
      BY SeenFields
    <2> HIDE DEF g
    <2> QED
      BY <2>2, <2>3, <2>4, SeenFields DEF Contract!Update
  <1>3. CASE DeleteNodeImageSet(n)
    <2>1. api[n].live /\ ~api[n].deleting
      BY <1>3 DEF DeleteNodeImageSet
    <2>2. CASE api[n].finalizer
      <3> DEFINE g == api[n].generation + 1
      <3>1. g \in Nat
        BY <1>t, NisFields
      <3>2. Edit(n, [api[n] EXCEPT !.deleting = TRUE, !.generation = g])
        BY <1>3, <2>2 DEF DeleteNodeImageSet
      <3> HIDE DEF g
      <3>3. Seen([api[n] EXCEPT !.deleting = TRUE, !.generation = g])
               = [Seen(api[n]) EXCEPT !.deleting = TRUE, !.generation = g]
        BY <1>t, <3>1, SeenDeleted
      <3>4. Contract!Write(n, [Seen(api[n]) EXCEPT !.deleting = TRUE, !.generation = g])
        BY <1>u, <3>2, <3>3
      <3>5. g = Seen(api[n]).generation + 1
        BY SeenFields DEF g
      <3> QED
        BY <2>1, <2>2, <3>4, <3>5, SeenFields DEF Contract!Delete
    <2>3. CASE ~api[n].finalizer
      <3>1. Contract!Write(n, Contract!NoObject)
        BY <1>u, <1>3, <2>3, SeenNothing DEF DeleteNodeImageSet
      <3> QED
        BY <2>1, <2>3, <3>1, SeenFields DEF Contract!Delete
    <2> QED
      BY <2>2, <2>3
  <1> QED
    BY <1>1, <1>2, <1>3

LEMMA StartContract ==
  ASSUME TypeOK, LoopShape, NEW n \in NodeImageSets, Starts(n)
  PROVE  Contract!Read(n) \/ UNCHANGED Contract!vars
  <1>0. /\ UNCHANGED <<api, cache, recDownloaded, present>> /\ recPc = "idle" /\ recDownloaded = {}
        /\ cache \in [NodeImageSets -> Nis] /\ cache[n] \in Nis
    BY DEF Starts, StartReconcile, loopVars, LoopShape, TypeOK, ReconcilerTypeOK
  <1>1. CASE recPc' = "prepare"
    <2>1. /\ recNis' = n /\ recObj' = cache[n]
          /\ cache[n].live /\ ~cache[n].deleting /\ cache[n].finalizer
      BY <1>0, <1>1 DEF Starts, StartReconcile, Nis
    <2>2. \A m \in NodeImageSets : ~WorksOn(m) /\ (WorksOn(m)' <=> m = n)
      BY <1>0, <1>1, <2>1 DEF WorksOn
    <2> QED
      BY <1>0, <2>1, <2>2, SeenFields, SeenNothing DEF Contract!Read
  <1>2. CASE recPc' # "prepare"
    <2>1. \A m \in NodeImageSets : ~WorksOn(m) /\ ~WorksOn(m)'
      BY <1>0, <1>2 DEF WorksOn, Starts, StartReconcile
    <2> QED
      BY <1>0, <2>1 DEF Contract!vars
  <1> QED
    BY <1>1, <1>2

\* Reconcile returns without having written a status.
LEMMA ReturnContract ==
  ASSUME TypeOK, NEW n \in NodeImageSets, recNis = n, recPc' = "idle",
         UNCHANGED <<api, cache, present>>
  PROVE  Contract!GiveUp(n)
  <1>1. \A m \in NodeImageSets : ~WorksOn(m)' /\ (WorksOn(m) => m = n)
    BY DEF WorksOn
  <1> QED
    BY <1>1, SeenNothing DEF Contract!GiveUp, Contract!Forget

LEMMA ReconcileContract ==
  ASSUME TypeOK, LoopShape, IdentityInv, ReconcilerActs
  PROVE  Contract!Next \/ UNCHANGED Contract!vars
  <1>t. /\ api \in [NodeImageSets -> Nis] /\ recNis \in NodeImageSets /\ recObj \in Nis
        /\ UNCHANGED <<cache, present>>
    BY DEF ReconcilerActs, ReconcileStep, RemoveFinalizer, AddFinalizer, Prepare,
           AskContainerd, ReadPulling, ReadError, EnqueueTask, StartCount, Apply, apiVars,
           runnerVars, TypeOK, ReconcilerTypeOK, LoopShape
  <1>f. Finish(TRUE) \/ Finish(FALSE) => recPc' = "idle" /\ recDownloaded' = {}
    BY DEF Finish
  <1>1. CASE recPc' = "idle" /\ UNCHANGED api
    BY <1>1, <1>t, ReturnContract DEF Contract!Next
  <1>2. CASE RemoveFinalizer /\ Update(NoNis)
    <2>1. api' = [api EXCEPT ![recNis] = NoNis] /\ api[recNis].live /\ api[recNis].deleting
      BY <1>2 DEF RemoveFinalizer, Update, IdentityInv, AllNamed, RemovesDoomed
    <2>2. recPc' = "idle" /\ recPc = "removeFinalizer"
      BY <1>2, <1>f DEF RemoveFinalizer
    <2>3. \A m \in NodeImageSets : ~WorksOn(m)' /\ ~WorksOn(m)
      BY <2>2 DEF WorksOn
    <2>4. Contract!Finalize(recNis)
      BY <1>t, <2>1, <2>3, SeenNothing, SeenFields DEF Contract!Finalize, Contract!Write
    <2> QED
      BY <1>t, <2>4 DEF Contract!Next
  <1>3. CASE AddFinalizer /\ Update([recObj EXCEPT !.finalizer = TRUE])
    <2>1. /\ api' = [api EXCEPT ![recNis] = [recObj EXCEPT !.finalizer = TRUE]]
          /\ api[recNis] = recObj /\ recObj.live /\ ~recObj.deleting
      BY <1>3 DEF AddFinalizer, Update, IdentityInv, AllNamed, RemovesDoomed
    <2>2. recPc' = "idle" /\ recPc = "addFinalizer"
      BY <1>3, <1>f DEF AddFinalizer
    <2>3. \A m \in NodeImageSets : ~WorksOn(m)' /\ ~WorksOn(m)
      BY <2>2 DEF WorksOn
    <2>4. Seen([recObj EXCEPT !.finalizer = TRUE]) = [Seen(recObj) EXCEPT !.finalizer = TRUE]
      BY <1>t, SeenExcept
    <2>5. Contract!Adopt(recNis)
      BY <1>t, <2>1, <2>3, <2>4, SeenFields DEF Contract!Adopt, Contract!Write
    <2> QED
      BY <1>t, <2>5 DEF Contract!Next
  <1>4. CASE Apply /\ api[recNis].live /\ api' = [api EXCEPT ![recNis] = Reported(@)]
    <2> DEFINE g == recObj.generation
               all == AllDownloaded
               f == recFailed # {}
    <2>1. g \in Nat /\ all \in BOOLEAN /\ f \in BOOLEAN /\ api[recNis] \in Nis
      BY <1>t, NisFields DEF AllDownloaded
    <2>2. /\ recPc = "count" /\ recPc' = "idle"
          /\ api[recNis].live /\ api[recNis].finalizer /\ api[recNis].uid = recObj.uid
          /\ recObj.live
      BY <1>4 DEF Apply, Finish, IdentityInv, NoLeakedStatus, AllNamed
    <2>3. \A m \in NodeImageSets : ~WorksOn(m)' /\ (WorksOn(m) <=> m = recNis)
      BY <2>2 DEF WorksOn
    <2>4. api' = [api EXCEPT ![recNis] =
                     [api[recNis] EXCEPT !.observed = g, !.available = all, !.failed = f]]
      BY <1>4 DEF Reported
    <2>5. all = (recDownloaded = Seen(recObj).images) /\ g = Seen(recObj).generation
      BY SeenFields DEF AllDownloaded
    <2> HIDE DEF g, all, f
    <2>6. Seen(api'[recNis]) = [Seen(api[recNis]) EXCEPT !.observed = g, !.available = all]
      <3> DEFINE obj == api[recNis]
      <3>1. obj \in Nis
            /\ api'[recNis] = WithStatus(obj, g, all, f)
        BY <1>t, <2>1, <2>4 DEF WithStatus
      <3> HIDE DEF obj
      <3>2. Seen(WithStatus(obj, g, all, f)) = SeenStatus(obj, g, all)
        BY <2>1, <3>1, SeenReported
      <3> QED
        BY <3>1, <3>2 DEF obj, SeenStatus
    <2>7. \A m \in NodeImageSets \ {recNis} : api'[m] = api[m]
      BY <1>t, <2>4
    <2>o. [m \in NodeImageSets |-> Seen(api'[m])]
             = [[m \in NodeImageSets |-> Seen(api[m])] EXCEPT
                   ![recNis] = [Seen(api[recNis]) EXCEPT !.observed = g, !.available = all]]
      BY <1>t, <2>6, <2>7
    <2>n. Contract!Forget(recNis)
      BY <2>3, SeenNothing DEF Contract!Forget
    <2>8. Contract!Report(recNis)
      BY <1>t, <2>2, <2>3, <2>5, <2>o, <2>n, SeenFields DEF Contract!Report
    <2> QED
      BY <1>t, <2>8 DEF Contract!Next
  <1>5. CASE AskContainerd /\ recDownloaded' # recDownloaded
    <2>1. PICK i \in recTodo : /\ recPc = "count" /\ i \in present
                              /\ recDownloaded' = recDownloaded \cup {i}
      BY <1>5 DEF AskContainerd, Answer
    <2>2. UNCHANGED <<api, recPc, recNis, recObj>>
      BY <1>5 DEF AskContainerd, apiVars
    <2>3. /\ \A m \in NodeImageSets : (WorksOn(m)' <=> WorksOn(m)) /\ (WorksOn(m) <=> m = recNis)
          /\ recObj.live /\ i \in recObj.images
      BY <2>1, <2>2 DEF WorksOn, LoopShape, IdentityInv, AllNamed
    <2>4. Contract!Find(recNis)
      BY <1>t, <2>1, <2>2, <2>3, SeenFields DEF Contract!Find
    <2> QED
      BY <1>t, <2>4 DEF Contract!Next
  <1>6. CASE UNCHANGED <<api, recNis, recObj, recDownloaded>>
             /\ (recPc \in {"prepare", "collect", "count"} <=>
                    recPc' \in {"prepare", "collect", "count"})
    <2>1. \A m \in NodeImageSets : WorksOn(m)' <=> WorksOn(m)
      BY <1>6 DEF WorksOn
    <2> QED
      BY <1>t, <1>6, <2>1 DEF Contract!vars
  <1>a. CASE RemoveFinalizer \/ AddFinalizer \/ Apply
    BY <1>a, <1>f, <1>1, <1>2, <1>3, <1>4 DEF RemoveFinalizer, AddFinalizer, Apply
  <1>b. CASE Prepare
    BY <1>b, <1>f, <1>1, <1>6 DEF Prepare, GotoRec
  <1>c. CASE AskContainerd
    BY <1>c, <1>5, <1>6 DEF AskContainerd, apiVars
  <1>d. CASE ReadPulling \/ ReadError
    BY <1>d, <1>6 DEF ReadPulling, ReadError, Answer, StatusOfError, apiVars
  <1>e. CASE EnqueueTask \/ StartCount
    BY <1>e, <1>6 DEF EnqueueTask, StartCount, GotoRec, apiVars
  <1> QED
    BY <1>a, <1>b, <1>c, <1>d, <1>e DEF ReconcilerActs, ReconcileStep

LEMMA NextContract ==
  ASSUME TypeOK, TypeOK', LoopShape, IdentityInv, ~Unregisters, [Next]_vars
  PROVE  [Contract!Next]_Contract!vars
  <1>1. CASE \E n \in NodeImageSets : Starts(n)
    BY <1>1, StartContract DEF Contract!Next
  <1>2. CASE ReconcilerActs
    BY <1>2, ReconcileContract
  <1>3. CASE \E n \in NodeImageSets :
                CreateNodeImageSet(n) \/ UpdateNodeImageSet(n) \/ DeleteNodeImageSet(n)
    BY <1>3, EditContract DEF Contract!Next
  <1>4. ASSUME NEW n \in NodeImageSets, Syncs(n)
        PROVE  Contract!Deliver(n)
    <2>1. cache' = [cache EXCEPT ![n] = api[n]] /\ cache \in [NodeImageSets -> Nis]
          /\ UNCHANGED <<api, recPc, recNis, recObj, recDownloaded, present>>
      BY <1>4 DEF Syncs, CacheSync, recVars, loopVars, runnerVars, TypeOK, ReconcilerTypeOK
    <2> QED
      BY <2>1 DEF Contract!Deliver, WorksOn
  <1>5. CASE Restart
    <2>1. /\ api' = api /\ cache' = api /\ recPc' = "idle" /\ present' \in SUBSET Images
      BY <1>5 DEF Restart, TypeOK, PullerTypeOK, ClientTypeOK
    <2>2. \A n \in NodeImageSets : ~WorksOn(n)'
      BY <2>1 DEF WorksOn
    <2> QED
      BY <2>1, <2>2, SeenNothing DEF Contract!Restart, Contract!Next
  <1>6. CASE UNCHANGED <<api, cache, recPc, recNis, recObj, recDownloaded>>
    <2>1. present' \in SUBSET Images
      BY DEF TypeOK, PullerTypeOK, ClientTypeOK
    <2> QED
      BY <1>6, <2>1 DEF WorksOn, Contract!ImagesComeAndGo, Contract!Next
  <1> QED
    BY <1>1, <1>2, <1>3, <1>4, <1>5, <1>6
    DEF Next, RunnerActs, SubscriberActs, Subscribes, LosesEvent, WatcherListFails, WatcherActs,
        WatcherStep, WatcherReceive, WatcherList, WatcherSend, Resyncs, Resync,
        Environment, CollectorRemovesFinalizer, EditSecret, SecretSync, EvictImage, KubeletPull,
        vars, daemonVars, apiVars, recVars, loopVars, Contract!Next

(***************************************************************************)
(* The daemon implements its contract, as long as the node stays           *)
(* registered: whatever the order of the goroutines' steps, of edits, of   *)
(* watch events, of failures and restarts.                                 *)
(***************************************************************************)
THEOREM DaemonKeepsContract ==
  ASSUME ~Unregisters
  PROVE  Spec => ImplementsContract
  <1>1. TypeOK /\ TypeOK' /\ LoopShape /\ IdentityInv /\ [Next]_vars
           => [Contract!Next]_Contract!vars
    BY NextContract
  <1> QED
    BY <1>1, InitContract, TypeCorrect, LoopsKeepShape, IdentityInvariant, PTL
    DEF Spec, ImplementsContract, Contract!Spec

\* What was proved of the contract, for this implementation of it.
Proved == INSTANCE NodeImageSetContractProofs WITH
    object    <- [n \in NodeImageSets |-> Seen(api[n])],
    delivered <- [n \in NodeImageSets |-> Seen(cache[n])],
    read      <- [n \in NodeImageSets |-> Seen(IF WorksOn(n) THEN recObj ELSE NoNis)],
    found     <- [n \in NodeImageSets |-> IF WorksOn(n) THEN recDownloaded ELSE {}]

LEMMA SameContract == ImplementsContract => Proved!Spec
  <1>1. [Contract!Next]_Contract!vars => [Proved!Next]_Proved!vars
    BY DEF Contract!Next, Contract!vars, Proved!Next, Proved!vars,
           Contract!ImagesComeAndGo, Contract!Create, Contract!Update, Contract!Delete,
           Contract!Deliver, Contract!Adopt, Contract!Read, Contract!Find, Contract!Report,
           Contract!GiveUp, Contract!Finalize, Contract!Restart, Contract!Write, Contract!Forget,
           Proved!ImagesComeAndGo, Proved!Create, Proved!Update, Proved!Delete,
           Proved!Deliver, Proved!Adopt, Proved!Read, Proved!Find, Proved!Report,
           Proved!GiveUp, Proved!Finalize, Proved!Restart, Proved!Write, Proved!Forget,
           Contract!Object, Contract!NoObject, Proved!Object, Proved!NoObject
  <1>2. Contract!Init => Proved!Init
    BY DEF Contract!Init, Proved!Init, Contract!Object, Contract!NoObject, Proved!Object,
           Proved!NoObject
  <1> QED
    BY <1>1, <1>2, PTL DEF ImplementsContract, Contract!Spec, Proved!Spec

LEMMA GoesForward ==
  ASSUME TypeOK, Proved!ContractInv, Proved!ContractInv', [Proved!Next]_Proved!vars,
         NEW n \in NodeImageSets, api'[n].uid = api[n].uid
  PROVE  api'[n].observed >= api[n].observed /\ api'[n].observed <= api'[n].generation
  <1>1. [m \in NodeImageSets |-> Seen(api'[m])][n].observed
           >= [m \in NodeImageSets |-> Seen(api[m])][n].observed
    BY SeenFields, Proved!StepNeverBack
  <1>2. [m \in NodeImageSets |-> Seen(api'[m])][n].observed
           <= [m \in NodeImageSets |-> Seen(api'[m])][n].generation
    BY DEF Proved!ContractInv, Proved!Trails
  <1> QED
    BY <1>1, <1>2 DEF Seen

(***************************************************************************)
(* Therefore what the ImagePrefetch controller reads is never a newer      *)
(* status replaced by an older one, although the reconciler reports from a *)
(* cache that trails and its Apply carries no resource version.            *)
(***************************************************************************)
THEOREM StatusGoesForward ==
  ASSUME ~Unregisters
  PROVE  Spec => StatusNeverGoesBack
  <1>1. TypeOK /\ Proved!ContractInv /\ Proved!ContractInv' /\ [Proved!Next]_Proved!vars
           => [\A n \in NodeImageSets :
                 api'[n].uid = api[n].uid => /\ api'[n].observed >= api[n].observed
                                            /\ api'[n].observed <= api'[n].generation]_vars
    BY GoesForward
  <1> QED
    BY <1>1, TypeCorrect, DaemonKeepsContract, SameContract, Proved!ContractInvariant, PTL
    DEF StatusNeverGoesBack, Proved!Spec

=============================================================================
