----------------------------- MODULE NodeDaemon -----------------------------
(***************************************************************************)
(* The nodeimageset-controller process of one node: reconciler, runner,    *)
(* delete-event subscriber and containerd event watcher run concurrently   *)
(* over the ImagePuller's table, in an environment where users and the     *)
(* ImagePrefetch controller edit NodeImageSets, containerd loses images,   *)
(* the kubelet pulls images of its own, and the process restarts.          *)
(***************************************************************************)
EXTENDS ContainerdEventWatcher

CONSTANTS
    Unregisters,   \* the node may leave the cluster while the daemon runs on
    MaxForeign,    \* bound: images that others remove from or pull to the node
    MaxRestarts    \* bound: restarts of the daemon

ASSUME UnregistersAssumption == Unregisters \in BOOLEAN
ASSUME ForeignAssumption  == MaxForeign \in Nat
ASSUME RestartsAssumption == MaxRestarts \in Nat

VARIABLES edits, foreign, restarts

envVars == <<secretVars, edits, foreign, restarts>>
daemonVars == <<runnerVars, apiVars, recVars, watchVars, faults>>
vars == <<daemonVars, envVars>>

TypeOK ==
    /\ PullerTypeOK
    /\ RunnerTypeOK
    /\ ReconcilerTypeOK
    /\ WatcherTypeOK
    /\ secret \in SecretStates /\ secretCache \in SecretStates
    /\ edits \in 0..MaxEdits
    /\ foreign \in 0..MaxForeign
    /\ restarts \in 0..MaxRestarts

Init ==
    /\ PullerInit
    /\ RunnerInit
    /\ ReconcilerInit
    /\ WatcherInit
    /\ edits = 0 /\ foreign = 0 /\ restarts = 0 /\ faults = 0

-----------------------------------------------------------------------------
(***************************************************************************)
(* The environment.                                                        *)
(***************************************************************************)

ImageSets == (SUBSET Images) \ {{}}

Edit(n, obj) ==
    /\ edits < MaxEdits
    /\ edits' = edits + 1
    /\ api' = [api EXCEPT ![n] = obj]
    /\ UNCHANGED <<cache, requests, recVars, watchVars, runnerVars, faults,
                   secretVars, foreign, restarts>>

CreateNodeImageSet(n) ==
    /\ ~api[n].live
    /\ \E images \in ImageSets, policy \in RegistryPolicies :
          Edit(n, [NoNis EXCEPT !.live = TRUE, !.uid = edits + 1, !.generation = 1,
                                !.images = images, !.policy = policy])

UpdateNodeImageSet(n) ==
    /\ api[n].live /\ ~api[n].deleting
    /\ \E images \in ImageSets, policy \in RegistryPolicies :
          /\ <<images, policy>> # <<api[n].images, api[n].policy>>
          /\ Edit(n, [api[n] EXCEPT !.images = images, !.policy = policy,
                                    !.generation = @ + 1])

\* An object without finalizer goes away at once.
DeleteNodeImageSet(n) ==
    /\ api[n].live /\ ~api[n].deleting
    /\ Edit(n, IF api[n].finalizer
               THEN [api[n] EXCEPT !.deleting = TRUE, !.generation = @ + 1]
               ELSE NoNis)

\* The garbage collector of the other process takes a node that is no longer
\* registered for gone and removes the finalizer; DeleteNodeImageSet follows.
CollectorRemovesFinalizer(n) ==
    /\ Unregisters
    /\ api[n].live /\ api[n].finalizer
    /\ Edit(n, IF api[n].deleting THEN NoNis ELSE [api[n] EXCEPT !.finalizer = FALSE])

\* A user corrects or spoils a pull secret.  No request is queued for it.
EditSecret ==
    /\ edits < MaxEdits
    /\ edits' = edits + 1
    /\ secret' \in SecretStates \ {secret}
    /\ UNCHANGED <<daemonVars, secretCache, foreign, restarts>>

\* The informer of the Secrets that r.Get reads is told.
SecretSync ==
    /\ secretCache # secret
    /\ secretCache' = secret
    /\ UNCHANGED <<daemonVars, secret, edits, foreign, restarts>>

ForeignStep == foreign < MaxForeign /\ foreign' = foreign + 1

\* The kubelet's image garbage collection or an operator removes an image.
EvictImage(i) ==
    /\ ForeignStep
    /\ i \in present
    /\ present' = present \ {i}
    /\ stream = "up" \/ LoseEvents
    /\ events' = IF stream = "up" THEN [events EXCEPT ![i] = @ + 1] ELSE events
    /\ UNCHANGED <<apiVars, recVars, watchVars, tableVars, pullVars, stream, subImage,
                   subTodo, subEntry, tasks, faults, secretVars, edits, restarts>>

\* The kubelet pulls an image for a Pod.
KubeletPull(i) ==
    /\ ForeignStep
    /\ i \notin present
    /\ present' = present \cup {i}
    /\ UNCHANGED <<apiVars, recVars, watchVars, tableVars, pullVars, subVars, tasks,
                   faults, secretVars, edits, restarts>>

\* The process ends and starts again: everything it kept in memory is gone,
\* images may have been lost meanwhile, and the informer lists all objects anew.
Restart ==
    /\ restarts < MaxRestarts
    /\ restarts' = restarts + 1
    /\ tracked' = {}
    /\ pulling' = [n \in NodeImageSets |-> {}]
    /\ lastError' = [n \in NodeImageSets |-> [i \in Images |-> NoError]]
    /\ present' \in SUBSET present
    /\ pullPc' = "idle" /\ pullTask' = None /\ pullHeld' = FALSE /\ pullResult' = NoError
    /\ stream' = "starting" /\ events' = [i \in Images |-> 0]
    /\ subImage' = None /\ subTodo' = {} /\ subEntry' = None
    /\ tasks' = [t \in Task |-> 0]
    /\ cache' = api /\ secretCache' = secret
    /\ requests' = {n \in NodeImageSets : api[n].live}
    /\ recPc' = "idle" /\ recNis' = None /\ recObj' = NoNis /\ recSecret' = None
    /\ recTodo' = {} /\ recImage' = None /\ recStage' = "exists"
    /\ recPending' = {} /\ recDownloaded' = {} /\ recFailed' = {}
    /\ watchImage' = None /\ watchTodo' = {}
    /\ UNCHANGED <<api, faults, secret, edits, foreign>>

Environment ==
    \/ \E n \in NodeImageSets :
          \/ CreateNodeImageSet(n) \/ UpdateNodeImageSet(n) \/ DeleteNodeImageSet(n)
          \/ CollectorRemovesFinalizer(n)
    \/ EditSecret \/ SecretSync
    \/ \E i \in Images : EvictImage(i) \/ KubeletPull(i)
    \/ Restart

-----------------------------------------------------------------------------
RunnerActs     == RunnerStep /\ UNCHANGED <<apiVars, recVars, watchVars, envVars>>
SubscriberActs == SubscriberStep /\ UNCHANGED <<tasks, apiVars, recVars, watchVars, envVars>>
Subscribes     == Subscribe /\ UNCHANGED <<tasks, apiVars, recVars, watchVars, envVars>>
WatcherActs    == WatcherStep /\ UNCHANGED envVars
LosesEvent     == \/ /\ StreamBreak \/ SubscriberDrop
                     /\ UNCHANGED <<tasks, apiVars, recVars, watchVars, envVars>>
                  \/ WatcherListFails /\ UNCHANGED envVars
ReconcilerActs == ReconcileStep /\ UNCHANGED <<watchVars, envVars>>
Starts(n)      == StartReconcile(n) /\ UNCHANGED <<watchVars, envVars>>
Syncs(n)       == CacheSync(n) /\ UNCHANGED <<watchVars, envVars>>
Resyncs(n)     == Resync(n) /\ UNCHANGED <<watchVars, envVars>>

Next ==
    \/ RunnerActs
    \/ SubscriberActs
    \/ Subscribes
    \/ WatcherActs
    \/ LosesEvent
    \/ ReconcilerActs
    \/ \E n \in NodeImageSets : Starts(n) \/ Syncs(n) \/ Resyncs(n)
    \/ Environment

Spec == Init /\ [][Next]_vars

(***************************************************************************)
(* Every goroutine keeps running and the API server delivers its watch     *)
(* events.  The work queue is first in, first out, so a queued request is  *)
(* taken even when others keep arriving.  Nothing is assumed of users, of  *)
(* the kubelet, or of faults.                                              *)
(***************************************************************************)
Fairness ==
    /\ WF_vars(RunnerActs)
    /\ WF_vars(SubscriberActs)
    /\ WF_vars(Subscribes)
    /\ WF_vars(WatcherActs)
    /\ WF_vars(ReconcilerActs)
    /\ WF_vars(SecretSync)
    /\ \A n \in NodeImageSets : SF_vars(Starts(n)) /\ WF_vars(Syncs(n))

FairSpec == Spec /\ Fairness

\* The informer also resyncs, however rarely.
FairResyncSpec == FairSpec /\ \A n \in NodeImageSets : WF_vars(Resyncs(n))

-----------------------------------------------------------------------------
(***************************************************************************)
(* Safety.                                                                 *)
(***************************************************************************)

Runs(n, i) == pullPc # "idle" /\ pullTask.nis = n /\ pullTask.ref = i

(***************************************************************************)
(* The flag that makes TryStartPulling refuse a second pull, and makes     *)
(* GetImageStatus answer ImageDownloadInProgress, is up only while the     *)
(* runner really is between TryStartPulling and StopPulling for that very  *)
(* entry, whatever the reconciler and the delete-event subscriber do to    *)
(* the table meanwhile.  A flag left behind would stop the image from ever *)
(* being pulled: PullImage returns nil and the task is forgotten.          *)
(***************************************************************************)
PullFlag ==
    \A n \in NodeImageSets : \A i \in pulling[n] :
        Runs(n, i) /\ pullHeld /\ pullPc \in {"recheck", "transfer", "stop"}

\* A task for the image is queued, or will be once the runner is done with it.
WillRetry(n, i) ==
    \/ \E t \in Task : t.nis = n /\ t.ref = i /\ tasks[t] > 0
    \/ Runs(n, i) /\ ~(pullPc = "returned" /\ pullResult = NoError)

\* The subscriber has still to clear the error of image i for NodeImageSet n.
WillClear(n, i) ==
    \/ events[i] > 0
    \/ subImage = i /\ (n \in subTodo \/ subEntry = n)

(***************************************************************************)
(* A recorded error keeps the reconciler from queueing the image: only     *)
(* WaitingForImageDownload is pending in collectPendingImages.  So while   *)
(* the image is missing an error must come with the runner's own retry, or *)
(* with a delete event that is about to clear it.                          *)
(***************************************************************************)
ErrorHasRetry ==
    \A n \in NodeImageSets, i \in Images :
        lastError[n][i] # NoError /\ i \notin present => WillRetry(n, i) \/ WillClear(n, i)

Desired(n, i) == api[n].live /\ ~api[n].deleting /\ i \in api[n].images

\* The cache is behind, or a request is queued: Reconcile will see the object.
WillReconcile(n) == cache[n] # api[n] \/ n \in requests

\* The deletion of image i will be announced for NodeImageSet n.
WillNotify(n, i) == events[i] > 0 \/ subImage = i \/ watchImage = i \/ n \in watchTodo

(***************************************************************************)
(* A desired image that is missing on the node is never overlooked: there  *)
(* is a request for its NodeImageSet or one to come, or a reconcile in     *)
(* progress that has not counted the image as downloaded and so asks to be *)
(* called again, or a delete event on its way.  A NodeImageSet reported    *)
(* complete is not requeued, so an eviction that overlaps the last         *)
(* reconcile, a spec change or a restart could lose the image for good.    *)
(***************************************************************************)
NoLostWork ==
    \A n \in NodeImageSets, i \in Images :
        Desired(n, i) /\ i \notin present =>
            \/ WillReconcile(n)
            \/ recNis = n /\ i \notin recDownloaded
            \/ WillNotify(n, i)

(***************************************************************************)
(* A NodeImageSet whose status does not yet say that everything is         *)
(* available for its current generation, or that is being deleted, has a   *)
(* reconcile in progress or to come.                                       *)
(***************************************************************************)
StatusFollowed ==
    \A n \in NodeImageSets :
        /\ api[n].live
        /\ api[n].deleting \/ ~api[n].available \/ api[n].observed # api[n].generation
        => WillReconcile(n) \/ recNis = n

(***************************************************************************)
(* The table has an entry only for a NodeImageSet that exists with the     *)
(* finalizer, so the daemon will be asked to remove it; and the reconcile  *)
(* that is about to use the table or to report a status works on the       *)
(* object that exists now, not on a deleted namesake.                      *)
(***************************************************************************)
NoLeakedStatus ==
    /\ \A n \in tracked : api[n].live /\ api[n].finalizer
    /\ recPc \in {"prepare", "collect", "count"} =>
          api[recNis].live /\ api[recNis].finalizer /\ api[recNis].uid = recObj.uid

-----------------------------------------------------------------------------
(***************************************************************************)
(* The daemon as seen by those who read its NodeImageSets' status.         *)
(***************************************************************************)

\* Of an object, the part the contract speaks of.
Seen(obj) == [live |-> obj.live, uid |-> obj.uid, generation |-> obj.generation,
              images |-> obj.images, deleting |-> obj.deleting,
              finalizer |-> obj.finalizer, observed |-> obj.observed,
              available |-> obj.available]

\* reconcileNodeImageSet is at work on n.
WorksOn(n) == recPc \in {"prepare", "collect", "count"} /\ recNis = n

Contract == INSTANCE NodeImageSetContract WITH
    object    <- [n \in NodeImageSets |-> Seen(api[n])],
    delivered <- [n \in NodeImageSets |-> Seen(cache[n])],
    read      <- [n \in NodeImageSets |-> Seen(IF WorksOn(n) THEN recObj ELSE NoNis)],
    found     <- [n \in NodeImageSets |-> IF WorksOn(n) THEN recDownloaded ELSE {}]

(***************************************************************************)
(* As long as the node stays registered, each step of the goroutines is a  *)
(* step the contract allows: a status is about one version that was read,  *)
(* available only with every image of that version found, and never        *)
(* written on a namesake of the object that was read.                      *)
(***************************************************************************)
ImplementsContract == Contract!Spec

(***************************************************************************)
(* The reported generation of an object never goes back and never runs     *)
(* ahead, however far the cache the reconciler reads from trails its own   *)
(* status Applies, which carry no resource version.                        *)
(***************************************************************************)
StatusNeverGoesBack ==
    [][\A n \in NodeImageSets :
          api'[n].uid = api[n].uid => /\ api'[n].observed >= api[n].observed
                                     /\ api'[n].observed <= api'[n].generation]_vars

-----------------------------------------------------------------------------
(***************************************************************************)
(* Liveness.                                                               *)
(***************************************************************************)

(***************************************************************************)
(* Every desired image is eventually on the node or no longer desired,     *)
(* also after failed pulls, evictions and restarts.                        *)
(***************************************************************************)
Prefetched ==
    \A n \in NodeImageSets, i \in Images :
        Desired(n, i) ~> i \in present \/ ~Desired(n, i)

\* What a NodeImageSet's status says is what containerd has.
StatusExact(n) ==
    api[n].live /\ ~api[n].deleting =>
        /\ api[n].observed = api[n].generation
        /\ api[n].available = (api[n].images \subseteq present)
        /\ ~api[n].failed

(***************************************************************************)
(* A NodeImageSet that is being deleted goes away, whatever conflicts its  *)
(* finalizer meets, also when the collector takes the finalizer away and   *)
(* the daemon, which still runs, puts it back.                             *)
(***************************************************************************)
Finalized == \A n \in NodeImageSets : api[n].deleting ~> ~api[n].live

(***************************************************************************)
(* When the pull secrets stay correct from some time on, desired images    *)
(* arrive.  This is what docs/design.md:162 makes one expect of a Secret   *)
(* "used for authentication with the container registry"; the code does    *)
(* not keep it.                                                            *)
(***************************************************************************)
SecretTakesEffect == <>[](secret = "accepted") => Prefetched

(***************************************************************************)
(* Once the environment is quiet the reported status becomes exact and     *)
(* stays so: available, for the current generation, with no failure.       *)
(***************************************************************************)
StatusSettles == \A n \in NodeImageSets : <>[]StatusExact(n)

(***************************************************************************)
(* The runner's queue does not grow for ever: nothing merges the copies of *)
(* a task that every reconcile of a waiting image adds, but once the       *)
(* environment is quiet each of them finds its image there, or its         *)
(* NodeImageSet gone from the table, and is forgotten.                     *)
(***************************************************************************)
QueueDrains == <>[](\A t \in Task : tasks[t] = 0)

=============================================================================
