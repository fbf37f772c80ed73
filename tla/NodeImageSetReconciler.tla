----------------------- MODULE NodeImageSetReconciler -----------------------
(***************************************************************************)
(* internal/controller/nodeimageset_controller.go: the reconciler of the   *)
(* NodeImageSets assigned to this node.                                    *)
(*                                                                         *)
(* controller-runtime runs one worker.  A request taken from its queue may *)
(* be queued again while it is processed; it is then processed once more   *)
(* afterwards.  Reads come from the informer cache, which trails the API   *)
(* server; writes go to the API server.  An Update carries the resource    *)
(* version it read and is refused when the object has changed since; the   *)
(* server-side Apply of the status carries none.  A request that waits for *)
(* its back-off or for RequeueAfter counts as queued: how long it waits is *)
(* left open.                                                              *)
(*                                                                         *)
(* Metrics and the texts of conditions and of containerImageStatuses are   *)
(* left out.  Of the status the model keeps the observed generation,       *)
(* whether availableImages equals desiredImages (the condition             *)
(* ImageAvailable), and whether some download failed (the condition        *)
(* ImageDownloadSucceeded is false).                                       *)
(***************************************************************************)
EXTENDS Runner

CONSTANTS
    Resyncing,  \* the informer sends events for unchanged objects
    MaxTasks,   \* bound: copies of one task in the runner's queue
    MaxEdits    \* bound: creations, updates and deletions of NodeImageSets

ASSUME ResyncAssumption == Resyncing \in BOOLEAN
ASSUME TasksAssumption == MaxTasks \in Nat \ {0}
ASSUME EditsAssumption == MaxEdits \in Nat

Nis == [live : BOOLEAN, uid : Nat, generation : Nat,
        images : SUBSET Images, policy : RegistryPolicies \cup {None},
        deleting : BOOLEAN, finalizer : BOOLEAN,
        observed : Nat, available : BOOLEAN, failed : BOOLEAN]

NoNis == [live |-> FALSE, uid |-> 0, generation |-> 0, images |-> {},
          policy |-> None, deleting |-> FALSE, finalizer |-> FALSE,
          observed |-> 0, available |-> FALSE, failed |-> FALSE]

VARIABLES
    api,            \* [NodeImageSets -> Nis]: objects in the API server (external)
    cache,          \* [NodeImageSets -> Nis]: objects in the informer cache (external)
    requests,       \* names in the controller's work queue (external)
    secret,         \* the pull secrets the NodeImageSets refer to (external)
    secretCache,    \* the pull secrets in the client's informer cache (external)
    recPc,          \* where Reconcile is
    recNis,         \* the request it processes
    recObj,         \* the object it read
    recSecret,      \* the pull secrets it read
    recTodo,        \* images whose status has still to be asked
    recImage,       \* the image GetImageStatus is called for
    recStage,       \* what GetImageStatus reads next
    recPending,     \* pendingImages still to be queued
    recDownloaded,  \* images counted as downloaded
    recFailed       \* images counted as failed

apiVars == <<api, cache, requests>>
loopVars == <<recTodo, recImage, recStage, recPending, recDownloaded, recFailed>>
secretVars == <<secret, secretCache>>
recVars == <<recPc, recNis, recObj, recSecret, loopVars>>
runnerVars == <<tableVars, present, pullVars, subVars, tasks>>

RecPcs == {"idle", "removeFinalizer", "addFinalizer", "prepare", "collect", "count"}

ReconcilerTypeOK ==
    /\ api \in [NodeImageSets -> Nis]
    /\ cache \in [NodeImageSets -> Nis]
    /\ requests \in SUBSET NodeImageSets
    /\ recPc \in RecPcs
    /\ recNis \in NodeImageSets \cup {None}
    /\ recPc # "idle" => recNis \in NodeImageSets
    /\ recObj \in Nis
    /\ recSecret \in SecretStates \cup {None}
    /\ recPc \in {"collect", "count"} => recSecret \in SecretStates
    /\ recTodo \in SUBSET Images
    /\ recImage \in Images \cup {None}
    /\ recStage \in {"exists", "pulling", "error"}
    /\ recStage # "exists" => recImage \in Images
    /\ recPending \in SUBSET Images
    /\ recDownloaded \in SUBSET Images
    /\ recFailed \in SUBSET Images

LoopInit == /\ recTodo = {} /\ recImage = None /\ recStage = "exists"
            /\ recPending = {} /\ recDownloaded = {} /\ recFailed = {}

ReconcilerInit ==
    /\ api = [n \in NodeImageSets |-> NoNis]
    /\ cache = [n \in NodeImageSets |-> NoNis]
    /\ requests = {}
    /\ secret \in SecretStates /\ secretCache = secret
    /\ recPc = "idle" /\ recNis = None /\ recObj = NoNis /\ recSecret = None
    /\ LoopInit

-----------------------------------------------------------------------------
(***************************************************************************)
(* The controller's queue and the two writes to the object itself.         *)
(***************************************************************************)

\* Reconcile returns; the request is queued again when again is true.
Finish(again) ==
    /\ recPc' = "idle" /\ recNis' = None /\ recObj' = NoNis /\ recSecret' = None
    /\ recTodo' = {} /\ recImage' = None /\ recStage' = "exists"
    /\ recPending' = {} /\ recDownloaded' = {} /\ recFailed' = {}
    /\ requests' = IF again THEN requests \cup {recNis} ELSE requests

GotoRec(pc) == recPc' = pc /\ UNCHANGED <<recNis, recObj, requests>>

\* The beginning of Reconcile: Get, the deletion branch up to its Update, and
\* AddFinalizer's test.
StartReconcile(n) ==
    /\ recPc = "idle" /\ n \in requests
    /\ requests' = requests \ {n}
    /\ LET obj == cache[n]
           ended == ~obj.live \/ (obj.deleting /\ ~obj.finalizer)
       IN  /\ recPc' = IF ended THEN "idle"
                       ELSE IF obj.deleting THEN "removeFinalizer"
                       ELSE IF obj.finalizer THEN "prepare"
                       ELSE "addFinalizer"
           /\ recNis' = IF ended THEN None ELSE n
           /\ recObj' = IF ended THEN NoNis ELSE obj
           /\ IF ~ended /\ obj.deleting
              THEN DeleteNodeImageSetStatus(n)
              ELSE UNCHANGED <<tableVars, pullVars, subEntry>>
    /\ UNCHANGED <<api, cache, recSecret, loopVars, present, stream, events, subImage,
                   subTodo, tasks, faults>>

\* Mutant: the object is written whatever it has become.
ForcedUpdate(obj) == api' = [api EXCEPT ![recNis] = obj]

\* r.Update: accepted when the object is still the one that was read.
Update(obj) ==
    /\ api[recNis] = recObj
    /\ api' = [api EXCEPT ![recNis] = obj]

\* Mutant: a failed Update is taken for a conflict and dropped.
RemoveFinalizerOnce ==
    /\ recPc = "removeFinalizer"
    /\ \/ Update(NoNis) /\ Finish(FALSE) /\ UNCHANGED faults
       \/ api[recNis] # recObj /\ Finish(TRUE) /\ UNCHANGED <<api, faults>>
       \/ CallFails /\ Finish(FALSE) /\ UNCHANGED api
    /\ UNCHANGED <<cache, runnerVars>>

RemoveFinalizer ==
    /\ recPc = "removeFinalizer"
    /\ \/ Update(NoNis) /\ Finish(FALSE) /\ UNCHANGED faults
       \/ api[recNis] # recObj /\ Finish(TRUE) /\ UNCHANGED <<api, faults>>
       \/ CallFails /\ Finish(TRUE) /\ UNCHANGED api
    /\ UNCHANGED <<cache, runnerVars>>

AddFinalizer ==
    /\ recPc = "addFinalizer"
    /\ \/ Update([recObj EXCEPT !.finalizer = TRUE]) /\ UNCHANGED faults
       \/ api[recNis] # recObj /\ UNCHANGED <<api, faults>>
       \/ CallFails /\ UNCHANGED api
    /\ Finish(TRUE)
    /\ UNCHANGED <<cache, runnerVars>>

-----------------------------------------------------------------------------
(***************************************************************************)
(* reconcileNodeImageSet.                                                  *)
(***************************************************************************)

NewGeneration == recObj.generation # recObj.observed

\* Mutant: the secrets are read after the early return for a new generation.
ReadsSecretsLate == recSecret' = IF NewGeneration THEN recSecret ELSE secretCache

\* r.Get for each pull secret: the client reads its informer cache; a secret that
\* is not there is skipped.
ReadsSecrets == recSecret' = secretCache

\* Read the pull secrets, then make the table follow the object.  For a new
\* generation every image is pending; otherwise the status of each is asked.
Prepare ==
    /\ recPc = "prepare"
    /\ \/ CallFails /\ Finish(TRUE) /\ UNCHANGED <<tableVars, pullVars, subEntry>>
       \/ /\ TrackNodeImageSet(recNis, IF NewGeneration THEN recObj.images ELSE Images)
          /\ GotoRec("collect")
          /\ ReadsSecrets
          /\ recTodo' = IF NewGeneration THEN {} ELSE recObj.images
          /\ recPending' = IF NewGeneration THEN recObj.images ELSE {}
          /\ UNCHANGED <<recImage, recStage, recDownloaded, recFailed, faults>>
    /\ UNCHANGED <<api, cache, present, stream, events, subImage, subTodo, tasks>>

\* What the caller does with the status of image i: collectPendingImages
\* before the tasks are queued, calculateImageStatus after.
Answer(i, status) ==
    /\ recTodo' = recTodo \ {i} /\ recImage' = None /\ recStage' = "exists"
    /\ recPending' = IF recPc = "collect" /\ status = "WaitingForImageDownload"
                     THEN recPending \cup {i} ELSE recPending
    /\ recDownloaded' = IF recPc = "count" /\ status = "ImageDownloaded"
                        THEN recDownloaded \cup {i} ELSE recDownloaded
    /\ recFailed' = IF recPc = "count" /\ status = "ImageDownloadFailed"
                    THEN recFailed \cup {i} ELSE recFailed

\* GetImageStatus asks containerd, then reads ImagePulling, then Error, each
\* under a lock of its own.  On an error of containerd the callers skip the image.
AskContainerd ==
    /\ recPc \in {"collect", "count"} /\ recStage = "exists"
    /\ \E i \in recTodo :
          \/ i \in present /\ Answer(i, "ImageDownloaded") /\ UNCHANGED faults
          \/ CallFails /\ Answer(i, "Error")
          \/ /\ i \notin present
             /\ recImage' = i /\ recStage' = "pulling"
             /\ UNCHANGED <<recTodo, recPending, recDownloaded, recFailed, faults>>
    /\ UNCHANGED <<apiVars, recPc, recNis, recObj, recSecret, runnerVars>>

ReadPulling ==
    /\ recStage = "pulling"
    /\ IF recImage \in pulling[recNis]
       THEN Answer(recImage, "ImageDownloadInProgress")
       ELSE recStage' = "error"
            /\ UNCHANGED <<recTodo, recImage, recPending, recDownloaded, recFailed>>
    /\ UNCHANGED <<apiVars, recPc, recNis, recObj, recSecret, runnerVars, faults>>

ReadError ==
    /\ recStage = "error"
    /\ Answer(recImage, StatusOfError(lastError[recNis][recImage], recObj.policy))
    /\ UNCHANGED <<apiVars, recPc, recNis, recObj, recSecret, runnerVars, faults>>

\* Queue.Add for one pending image.
EnqueueTask ==
    /\ recPc = "collect" /\ recTodo = {}
    /\ \E i \in recPending :
          LET t == [nis |-> recNis, ref |-> i, policy |-> recObj.policy, secret |-> recSecret] IN
          /\ tasks[t] < MaxTasks
          /\ tasks' = [tasks EXCEPT ![t] = @ + 1]
          /\ recPending' = recPending \ {i}
    /\ UNCHANGED <<apiVars, recPc, recNis, recObj, recSecret, recTodo, recImage, recStage,
                   recDownloaded, recFailed, tableVars, present, pullVars, subVars, faults>>

-----------------------------------------------------------------------------
(***************************************************************************)
(* updateStatus.                                                           *)
(***************************************************************************)

StartCount ==
    /\ recPc = "collect" /\ recTodo = {} /\ recPending = {}
    /\ GotoRec("count")
    /\ recTodo' = recObj.images
    /\ UNCHANGED <<api, cache, recSecret, recImage, recStage, recPending, recDownloaded,
                   recFailed, runnerVars, faults>>

\* Mutant: no failure is taken for completion.
NoneFailed == recFailed = {}

AllDownloaded == recDownloaded = recObj.images

\* Mutant: the observed generation is advanced only with the last image.
LateReported(obj) ==
    [obj EXCEPT !.observed = IF AllDownloaded THEN recObj.generation ELSE recObj.observed,
                !.available = AllDownloaded, !.failed = recFailed # {}]

\* Mutant: the status names the generation the object has by now.
CurrentReported(obj) == [obj EXCEPT !.observed = obj.generation,
                                    !.available = AllDownloaded,
                                    !.failed = recFailed # {}]

\* Mutant: a failure, once reported, stays in the status.
StickyReported(obj) == [obj EXCEPT !.observed = recObj.generation,
                                   !.available = AllDownloaded,
                                   !.failed = @ \/ recFailed # {}]

Reported(obj) == [obj EXCEPT !.observed = recObj.generation,
                             !.available = AllDownloaded,
                             !.failed = recFailed # {}]

\* The loop that asks every image's status once more, which ends Reconcile on
\* an error of containerd, and the Apply of the status.
Apply ==
    /\ recPc = "count" /\ recTodo = {}
    /\ \/ /\ api[recNis].live
          /\ api' = [api EXCEPT ![recNis] = Reported(@)]
          /\ Finish(~AllDownloaded)
          /\ UNCHANGED faults
       \/ ~api[recNis].live /\ Finish(TRUE) /\ UNCHANGED <<api, faults>>
       \/ CallFails /\ Finish(TRUE) /\ UNCHANGED api
    /\ UNCHANGED <<cache, runnerVars>>

ReconcileStep == \/ RemoveFinalizer \/ AddFinalizer \/ Prepare
                 \/ AskContainerd \/ ReadPulling \/ ReadError
                 \/ EnqueueTask \/ StartCount \/ Apply

-----------------------------------------------------------------------------
(***************************************************************************)
(* For(&NodeImageSet{}): the informer.                                     *)
(***************************************************************************)

\* A watch event brings the cache up to date and queues a request.
CacheSync(n) ==
    /\ cache[n] # api[n]
    /\ cache' = [cache EXCEPT ![n] = api[n]]
    /\ requests' = requests \cup {n}
    /\ UNCHANGED <<api, recVars, runnerVars, faults>>

\* The informer's periodic resync, or a watch event for a part of the status
\* that the model leaves out.
Resync(n) ==
    /\ Resyncing /\ cache[n].live /\ n \notin requests
    /\ requests' = requests \cup {n}
    /\ UNCHANGED <<api, cache, recVars, runnerVars, faults>>

=============================================================================
