---------------------------- MODULE ImagePuller ----------------------------
(***************************************************************************)
(* internal/imgmanager/image_puller.go: the per-node table of image pull   *)
(* states, the PullImage method and the delete-event subscriber.           *)
(*                                                                         *)
(* The table is a sync.Map from NodeImageSet name to a sync.Map from image *)
(* to *ImagePullStatus.  Three goroutines use it: the reconciler creates,  *)
(* prunes, deletes and reads, the runner pulls, and the delete-event       *)
(* subscriber clears.  Each access to a map or to a mutex-guarded field is *)
(* one atomic step here.  An image that has no *ImagePullStatus and one    *)
(* whose status is fresh (not pulling, no error) answer every query alike, *)
(* so a missing entry is represented by a fresh one.                       *)
(*                                                                         *)
(* The runner is the only caller of PullImage and calls it sequentially:   *)
(* pullPc, pullTask, pullHeld and pullResult are the activation record of  *)
(* the one call in progress.                                               *)
(***************************************************************************)
EXTENDS ContainerdClient

CONSTANTS
    NodeImageSets,     \* names of the NodeImageSets assigned to this node
    None               \* no task, no image, no NodeImageSet, no secrets

\* A queued pull keeps the policy and the secrets it was queued with.
Task == [nis : NodeImageSets, ref : Images, policy : RegistryPolicies, secret : SecretStates]

ASSUME NoneAssumption == None \notin NodeImageSets \cup Images \cup Task \cup Secrets

VARIABLES
    tracked,     \* keys of ImagePuller.status
    pulling,     \* [NodeImageSets -> SUBSET Images]: ImagePulling is true
    lastError,   \* [NodeImageSets -> [Images -> Results]]: Error
    pullPc,      \* where the runner is inside processTask / PullImage
    pullTask,    \* the task it works on
    pullHeld,    \* its *ImagePullStatus is the one the table holds
    pullResult,  \* the error PullImage is about to return
    subImage,    \* the image whose deletion the subscriber handles
    subTodo,     \* the NodeImageSets its Range has still to visit
    subEntry     \* the NodeImageSet whose entry it is in the middle of

tableVars == <<tracked, pulling, lastError>>
pullVars  == <<pullPc, pullTask, pullHeld, pullResult>>
subVars   == <<stream, events, subImage, subTodo, subEntry>>

PullPcs == {"idle", "exists", "load", "check", "try", "recheck", "transfer",
            "stop", "record", "returned"}

PullerTypeOK ==
    /\ tracked \in SUBSET NodeImageSets
    /\ pulling \in [NodeImageSets -> SUBSET Images]
    /\ lastError \in [NodeImageSets -> [Images -> Results]]
    /\ ClientTypeOK
    /\ pullPc \in PullPcs
    /\ pullTask \in Task \cup {None}
    /\ pullPc # "idle" => pullTask \in Task
    /\ pullHeld \in BOOLEAN
    /\ pullResult \in Results
    /\ subImage \in Images \cup {None}
    /\ subTodo \in SUBSET NodeImageSets
    /\ subEntry \in NodeImageSets \cup {None}

PullerInit ==
    /\ tracked = {}
    /\ pulling = [n \in NodeImageSets |-> {}]
    /\ lastError = [n \in NodeImageSets |-> [i \in Images |-> NoError]]
    /\ present \in SUBSET Images
    /\ pullPc = "idle"
    /\ pullTask = None
    /\ pullHeld = FALSE
    /\ pullResult = NoError
    /\ stream = "starting"
    /\ events = [i \in Images |-> 0]
    /\ subImage = None
    /\ subTodo = {}
    /\ subEntry = None

-----------------------------------------------------------------------------
(***************************************************************************)
(* The table.                                                              *)
(***************************************************************************)

\* The call in progress has obtained its *ImagePullStatus.
HoldsEntry == pullPc \in {"recheck", "transfer", "stop", "record"}

\* NewNodeImageSetStatus followed, when the generation is new, by
\* UpdateNodeImageSetStatus: entries of images outside keep are dropped.  A
\* pull or a subscriber that holds a dropped entry goes on with an orphan
\* nobody reads.
TrackNodeImageSet(n, keep) ==
    /\ tracked' = tracked \cup {n}
    /\ pulling' = [pulling EXCEPT ![n] = @ \cap keep]
    /\ lastError' = [lastError EXCEPT ![n] =
                        [i \in Images |-> IF i \in keep THEN @[i] ELSE NoError]]
    /\ pullHeld' = (pullHeld /\ ~(/\ HoldsEntry
                                  /\ pullTask.nis = n
                                  /\ pullTask.ref \notin keep))
    /\ subEntry' = IF subEntry = n /\ subImage \notin keep THEN None ELSE subEntry
    /\ UNCHANGED <<pullPc, pullTask, pullResult>>

\* Mutant: the table keeps what it knows of a deleted NodeImageSet.
KeepNodeImageSetStatus(n) == UNCHANGED <<tableVars, pullVars, subEntry>>

DeleteNodeImageSetStatus(n) ==
    /\ tracked' = tracked \ {n}
    /\ pulling' = [pulling EXCEPT ![n] = {}]
    /\ lastError' = [lastError EXCEPT ![n] = [i \in Images |-> NoError]]
    /\ pullHeld' = (pullHeld /\ pullTask.nis # n)
    /\ subEntry' = IF subEntry = n THEN None ELSE subEntry
    /\ UNCHANGED <<pullPc, pullTask, pullResult>>

-----------------------------------------------------------------------------
(***************************************************************************)
(* PullImage, step by step.                                                *)
(***************************************************************************)

Return(result) ==
    /\ pullPc' = "returned"
    /\ pullResult' = result
    /\ pullHeld' = FALSE
    /\ UNCHANGED pullTask

Goto(pc) == pullPc' = pc /\ UNCHANGED <<pullTask, pullHeld, pullResult>>

\* TryStartPulling once it has found the flag down; StopPulling; SetError.
\* On an orphan entry none of them is visible in the table.
StartPulling ==
    IF pullHeld
    THEN /\ pulling' = [pulling EXCEPT ![pullTask.nis] = @ \cup {pullTask.ref}]
         /\ lastError' = [lastError EXCEPT ![pullTask.nis][pullTask.ref] = NoError]
    ELSE UNCHANGED <<pulling, lastError>>

\* Mutant: the early returns after the second existence check forget the flag.
StopPullingAfterTransfer ==
    pulling' = IF pullHeld /\ pullPc # "recheck"
               THEN [pulling EXCEPT ![pullTask.nis] = @ \ {pullTask.ref}]
               ELSE pulling

\* Mutant: the flag is taken down only after a successful transfer.
StopPullingOnSuccess ==
    pulling' = IF pullHeld /\ pullResult = NoError
               THEN [pulling EXCEPT ![pullTask.nis] = @ \ {pullTask.ref}]
               ELSE pulling

StopPulling ==
    pulling' = IF pullHeld
               THEN [pulling EXCEPT ![pullTask.nis] = @ \ {pullTask.ref}]
               ELSE pulling

SetError(e) ==
    lastError' = IF pullHeld
                 THEN [lastError EXCEPT ![pullTask.nis][pullTask.ref] = e]
                 ELSE lastError

\* Mutant: a task for a NodeImageSet that is gone ends with an error.
PullLoadFails ==
    /\ pullPc = "load"
    /\ IF pullTask.nis \in tracked
       THEN pullPc' = "check" /\ pullHeld' = TRUE /\ UNCHANGED <<pullTask, pullResult>>
       ELSE Return("Other")
    /\ UNCHANGED <<tableVars, present, subVars, faults>>

\* p.status.Load(nodeImageSetName)
PullLoad ==
    /\ pullPc = "load"
    /\ IF pullTask.nis \in tracked
       THEN pullPc' = "check" /\ pullHeld' = TRUE /\ UNCHANGED <<pullTask, pullResult>>
       ELSE Return(NoError)
    /\ UNCHANGED <<tableVars, present, subVars, faults>>

\* The first IsImageExists.
PullCheck ==
    /\ pullPc = "check"
    /\ \/ pullTask.ref \in present /\ Return(NoError) /\ UNCHANGED faults
       \/ pullTask.ref \notin present /\ Goto("try") /\ UNCHANGED faults
       \/ CallFails /\ Return("Other")
    /\ UNCHANGED <<tableVars, present, subVars>>

\* GetOrCreateImageStatus and TryStartPulling.
PullTryStart ==
    /\ pullPc = "try"
    /\ IF pullHeld /\ pullTask.ref \in pulling[pullTask.nis]
       THEN Return(NoError) /\ UNCHANGED <<pulling, lastError>>
       ELSE Goto("recheck") /\ StartPulling
    /\ UNCHANGED <<tracked, present, subVars, faults>>

\* The second IsImageExists, under the flag.
PullRecheck ==
    /\ pullPc = "recheck"
    /\ \/ /\ pullTask.ref \in present
          /\ StopPulling
          /\ Return(NoError)
          /\ UNCHANGED faults
       \/ /\ CallFails
          /\ StopPulling
          /\ Return("Other")
       \/ /\ pullTask.ref \notin present
          /\ Goto("transfer")
          /\ UNCHANGED <<pulling, faults>>
    /\ UNCHANGED <<tracked, lastError, present, subVars>>

\* containerdClient.PullImage comes back.
PullTransfer ==
    /\ pullPc = "transfer"
    /\ pullPc' = "stop"
    /\ pullResult' \in Results
    /\ ClientPullImage(pullTask.ref, pullTask.policy, pullTask.secret, pullResult')
    /\ UNCHANGED <<tableVars, pullTask, pullHeld, subVars>>

PullStop ==
    /\ pullPc = "stop"
    /\ StopPulling
    /\ Goto("record")
    /\ UNCHANGED <<tracked, lastError, present, subVars, faults>>

\* SetError on failure, SetImageSize (a metric) on success.
PullRecord ==
    /\ pullPc = "record"
    /\ IF pullResult # NoError THEN SetError(pullResult) ELSE UNCHANGED lastError
    /\ Return(pullResult)
    /\ UNCHANGED <<tracked, pulling, present, subVars, faults>>

PullImage == \/ PullLoad \/ PullCheck \/ PullTryStart \/ PullRecheck
             \/ PullTransfer \/ PullStop \/ PullRecord

-----------------------------------------------------------------------------
(***************************************************************************)
(* SubscribeDeleteEvent and its goroutine.                                 *)
(***************************************************************************)

Subscribe ==
    /\ stream = "starting"
    /\ stream' = "up"
    /\ UNCHANGED <<tableVars, present, pullVars, events, subImage, subTodo, subEntry, faults>>

\* An event arrives.  Range visits every NodeImageSet that is in the table now
\* and may or may not visit one that is stored while it runs.
SubscriberReceive ==
    /\ subImage = None
    /\ \E i \in Images, visited \in SUBSET NodeImageSets :
          /\ events[i] > 0
          /\ tracked \subseteq visited
          /\ events' = [events EXCEPT ![i] = @ - 1]
          /\ subImage' = i
          /\ subTodo' = visited
    /\ UNCHANGED <<tableVars, present, pullVars, stream, subEntry, faults>>

\* SetImagePulling(false) on the entry of one NodeImageSet.
SubscriberVisit ==
    /\ subImage # None /\ subEntry = None
    /\ \E n \in subTodo :
          /\ subTodo' = subTodo \ {n}
          /\ IF n \in tracked
             THEN /\ pulling' = [pulling EXCEPT ![n] = @ \ {subImage}]
                  /\ subEntry' = n
             ELSE UNCHANGED <<pulling, subEntry>>
    /\ UNCHANGED <<tracked, lastError, present, pullVars, stream, events, subImage, faults>>

\* Mutant: the subscriber takes the flag down and leaves the error.
LeaveError(n, i) == UNCHANGED lastError

ClearError(n, i) == lastError' = [lastError EXCEPT ![n][i] = NoError]

\* SetError(nil) on the same entry.
SubscriberClearError ==
    /\ subEntry # None
    /\ ClearError(subEntry, subImage)
    /\ subEntry' = None
    /\ UNCHANGED <<tracked, pulling, present, pullVars, stream, events, subImage, subTodo, faults>>

\* imageDeletionCh <- deleteImageName, the sender's half: the receiver takes
\* the image in the same step.
SubscriberSend ==
    /\ subImage # None /\ subTodo = {} /\ subEntry = None
    /\ subImage' = None
    /\ UNCHANGED <<tableVars, present, pullVars, stream, events, subTodo, subEntry, faults>>

\* The stream ends with an error.  The goroutine logs it and keeps waiting on
\* the same channels; nothing subscribes again.
StreamBreak ==
    /\ LoseEvents /\ stream = "up"
    /\ stream' = "broken"
    /\ events' = [i \in Images |-> 0]
    /\ UNCHANGED <<tableVars, present, pullVars, subImage, subTodo, subEntry, faults>>

\* handleDeleteEvent fails: the event is logged and dropped.
SubscriberDrop ==
    /\ LoseEvents /\ subImage = None
    /\ \E i \in Images : events[i] > 0 /\ events' = [events EXCEPT ![i] = @ - 1]
    /\ UNCHANGED <<tableVars, present, pullVars, stream, subImage, subTodo, subEntry, faults>>

SubscriberStep == SubscriberReceive \/ SubscriberVisit \/ SubscriberClearError

-----------------------------------------------------------------------------
(***************************************************************************)
(* The answer of GetImageStatus once containerd has said the image is not  *)
(* there and the entry is not pulling, given the entry's error.            *)
(***************************************************************************)
StatusOfError(e, policy) ==
    CASE e = NoError -> "WaitingForImageDownload"
      [] e = "NotFound" /\ policy = "MirrorOnly" -> "ImageDownloadTemporarilyFailed"
      [] OTHER -> "ImageDownloadFailed"

=============================================================================
