-------------------------- MODULE NodeDaemonSafety --------------------------
(***************************************************************************)
(* The safety of NodeDaemon, for every set of NodeImageSets and images and *)
(* every bound: it is type-correct; the reconciler comes back as long as   *)
(* there is something to do; and the ImagePuller's table tells the truth   *)
(* to all who share it.                                                    *)
(***************************************************************************)
EXTENDS NodeDaemon, TLAPS

\* The client's variables are the puller's.
USE DEF ClientTypeOK

LEMMA NoNisType == NoNis \in Nis
  BY DEF NoNis, Nis

(***************************************************************************)
(* Type correctness, component by component.                               *)
(***************************************************************************)

LEMMA InitTypeOK == Init => TypeOK
  <1> SUFFICES ASSUME Init PROVE TypeOK
    OBVIOUS
  <1>1. PullerTypeOK
    <2>1. lastError \in [NodeImageSets -> [Images -> Results]]
      BY DEF Init, PullerInit, Results
    <2>2. events \in [Images -> Nat] /\ pulling \in [NodeImageSets -> SUBSET Images]
      BY DEF Init, PullerInit
    <2>3. pullPc \in PullPcs /\ pullResult \in Results /\ faults \in 0..MaxFaults
      BY FaultsAssumption DEF Init, PullerInit, PullPcs, Results
    <2> QED
      BY <2>1, <2>2, <2>3 DEF Init, PullerInit, PullerTypeOK
  <1>2. RunnerTypeOK
    BY DEF Init, RunnerInit, RunnerTypeOK
  <1>3. ReconcilerTypeOK
    BY NoNisType DEF Init, ReconcilerInit, LoopInit, ReconcilerTypeOK, RecPcs
  <1>4. WatcherTypeOK
    BY DEF Init, WatcherInit, WatcherTypeOK
  <1> QED
    BY <1>1, <1>2, <1>3, <1>4, EditsAssumption, ForeignAssumption, RestartsAssumption
    DEF Init, TypeOK, ReconcilerInit

LEMMA RunningTask ==
  ASSUME PullerTypeOK, pullPc # "idle"
  PROVE  pullTask.nis \in NodeImageSets /\ pullTask.ref \in Images
  BY DEF PullerTypeOK, Task

LEMMA ErrorTypes == NoError \in Results /\ "Other" \in Results
  BY DEF Results, Errors

LEMMA StartPullingType ==
  ASSUME PullerTypeOK, pullPc # "idle", StartPulling
  PROVE  /\ pulling' \in [NodeImageSets -> SUBSET Images]
         /\ lastError' \in [NodeImageSets -> [Images -> Results]]
  <1>1. CASE pullHeld
    <2>1. pulling' \in [NodeImageSets -> SUBSET Images]
      BY <1>1, RunningTask DEF StartPulling, PullerTypeOK
    <2>2. lastError' = [lastError EXCEPT ![pullTask.nis][pullTask.ref] = NoError]
      BY <1>1 DEF StartPulling
    <2>3. /\ pullTask.nis \in NodeImageSets /\ pullTask.ref \in Images /\ NoError \in Results
          /\ lastError \in [NodeImageSets -> [Images -> Results]]
      BY RunningTask, ErrorTypes DEF PullerTypeOK
    <2>4. lastError' \in [NodeImageSets -> [Images -> Results]]
      BY <2>2, <2>3
    <2> QED
      BY <2>1, <2>4
  <1>2. CASE ~pullHeld
    BY <1>2 DEF StartPulling, PullerTypeOK
  <1> QED
    BY <1>1, <1>2

LEMMA StopPullingType ==
  ASSUME PullerTypeOK, pullPc # "idle", StopPulling
  PROVE  pulling' \in [NodeImageSets -> SUBSET Images]
  BY RunningTask DEF StopPulling, PullerTypeOK

LEMMA CallFailsType ==
  ASSUME PullerTypeOK, CallFails \/ UNCHANGED faults
  PROVE  faults' \in 0..MaxFaults
  BY FaultsAssumption DEF PullerTypeOK, CallFails

LEMMA ClientPullType ==
  ASSUME PullerTypeOK, NEW ref \in Images, NEW policy, NEW s, NEW result,
         ClientPullImage(ref, policy, s, result)
  PROVE  present' \in SUBSET Images /\ (CallFails \/ UNCHANGED faults)
  BY DEF ClientPullImage, PullerTypeOK

LEMMA PullImageType == PullerTypeOK /\ PullImage => PullerTypeOK'
  <1> SUFFICES ASSUME PullerTypeOK, PullImage PROVE PullerTypeOK'
    OBVIOUS
  <1>0. /\ faults' \in 0..MaxFaults /\ pullPc # "idle" /\ pullTask \in Task
        /\ subVars' = subVars /\ pullTask' = pullTask
    <2>1. pullPc # "idle" /\ pullTask \in Task /\ subVars' = subVars /\ pullTask' = pullTask
      BY DEF PullImage, PullLoad, PullCheck, PullTryStart, PullRecheck, PullTransfer,
             PullStop, PullRecord, PullerTypeOK, Return, Goto
    <2>2. CallFails \/ UNCHANGED faults
      BY <2>1, ClientPullType, RunningTask
      DEF PullImage, PullLoad, PullCheck, PullTryStart, PullRecheck, PullTransfer, PullStop,
          PullRecord
    <2> QED
      BY <2>1, <2>2, CallFailsType
  <1>1. CASE PullLoad
    BY <1>0, <1>1, ErrorTypes DEF PullLoad, Return, tableVars, subVars, PullerTypeOK, PullPcs
  <1>2. CASE PullCheck
    BY <1>0, <1>2, ErrorTypes DEF PullCheck, Return, Goto, tableVars, subVars, PullerTypeOK, PullPcs
  <1>3. CASE PullTryStart
    <2>1. /\ pulling' \in [NodeImageSets -> SUBSET Images]
          /\ lastError' \in [NodeImageSets -> [Images -> Results]]
      BY <1>0, <1>3, StartPullingType DEF PullTryStart, PullerTypeOK
    <2> QED
      BY <1>0, <1>3, <2>1, ErrorTypes
      DEF PullTryStart, Return, Goto, subVars, PullerTypeOK, PullPcs
  <1>4. CASE PullRecheck
    <2>1. pulling' \in [NodeImageSets -> SUBSET Images]
      BY <1>0, <1>4, StopPullingType DEF PullRecheck, PullerTypeOK
    <2> QED
      BY <1>0, <1>4, <2>1, ErrorTypes
      DEF PullRecheck, Return, Goto, subVars, PullerTypeOK, PullPcs
  <1>5. CASE PullTransfer
    <2>1. present' \in SUBSET Images /\ pullResult' \in Results
      BY <1>0, <1>5, RunningTask, ClientPullType DEF PullTransfer
    <2> QED
      BY <1>0, <1>5, <2>1 DEF PullTransfer, tableVars, subVars, PullerTypeOK, PullPcs
  <1>6. CASE PullStop
    <2>1. pulling' \in [NodeImageSets -> SUBSET Images]
      BY <1>0, <1>6, StopPullingType DEF PullStop, PullerTypeOK
    <2> QED
      BY <1>0, <1>6, <2>1 DEF PullStop, Goto, subVars, PullerTypeOK, PullPcs
  <1>7. CASE PullRecord
    <2>1. pullTask.nis \in NodeImageSets /\ pullTask.ref \in Images
      BY <1>0, RunningTask
    <2>2. pullResult \in Results /\ lastError \in [NodeImageSets -> [Images -> Results]]
      BY DEF PullerTypeOK
    <2>3. \/ lastError' = lastError
          \/ lastError' = [lastError EXCEPT ![pullTask.nis][pullTask.ref] = pullResult]
      BY <1>7 DEF PullRecord, SetError
    <2>4. lastError' \in [NodeImageSets -> [Images -> Results]]
      BY <2>1, <2>2, <2>3
    <2> QED
      BY <1>0, <1>7, <2>4 DEF PullRecord, Return, subVars, PullerTypeOK, PullPcs
  <1> QED
    BY <1>1, <1>2, <1>3, <1>4, <1>5, <1>6, <1>7 DEF PullImage

LEMMA SubscriberType ==
  ASSUME PullerTypeOK,
         \/ SubscriberStep \/ Subscribe \/ SubscriberSend \/ StreamBreak \/ SubscriberDrop
  PROVE  PullerTypeOK'
  <1>1. CASE SubscriberReceive
    <2>1. events' \in [Images -> Nat]
      BY <1>1 DEF SubscriberReceive, PullerTypeOK
    <2> QED
      BY <1>1, <2>1 DEF SubscriberReceive, PullerTypeOK, tableVars, pullVars
  <1>2. CASE SubscriberVisit
    BY <1>2 DEF SubscriberVisit, PullerTypeOK, pullVars
  <1>3. CASE SubscriberClearError
    <2>1. subEntry \in NodeImageSets /\ (subImage = None \/ subImage \in Images)
      BY <1>3 DEF SubscriberClearError, PullerTypeOK
    <2>2. lastError' \in [NodeImageSets -> [Images -> Results]]
      BY <1>3, <2>1, ErrorTypes DEF SubscriberClearError, ClearError, PullerTypeOK
    <2> QED
      BY <1>3, <2>2 DEF SubscriberClearError, PullerTypeOK, pullVars
  <1>4. CASE Subscribe
    BY <1>4 DEF Subscribe, PullerTypeOK, tableVars, pullVars
  <1>5. CASE SubscriberSend
    BY <1>5 DEF SubscriberSend, PullerTypeOK, tableVars, pullVars
  <1>6. CASE StreamBreak
    BY <1>6 DEF StreamBreak, PullerTypeOK, tableVars, pullVars
  <1>7. CASE SubscriberDrop
    BY <1>7 DEF SubscriberDrop, PullerTypeOK, tableVars, pullVars
  <1> QED
    BY <1>1, <1>2, <1>3, <1>4, <1>5, <1>6, <1>7 DEF SubscriberStep

\* What the reconciler's use of the table leaves to its caller.
TableFrame == UNCHANGED <<present, stream, events, subImage, subTodo>>

LEMMA TrackType ==
  ASSUME PullerTypeOK, NEW n \in NodeImageSets, NEW keep \in SUBSET Images,
         TrackNodeImageSet(n, keep), TableFrame, faults' \in 0..MaxFaults
  PROVE  PullerTypeOK'
  <1>1. lastError' \in [NodeImageSets -> [Images -> Results]]
    <2>1. [i \in Images |-> IF i \in keep THEN lastError[n][i] ELSE NoError]
             \in [Images -> Results]
      BY ErrorTypes DEF PullerTypeOK
    <2> QED
      BY <2>1 DEF TrackNodeImageSet, PullerTypeOK
  <1>2. pulling' \in [NodeImageSets -> SUBSET Images]
    BY DEF TrackNodeImageSet, PullerTypeOK
  <1> QED
    BY <1>1, <1>2 DEF TrackNodeImageSet, TableFrame, PullerTypeOK

LEMMA DeleteStatusType ==
  ASSUME PullerTypeOK, NEW n \in NodeImageSets,
         DeleteNodeImageSetStatus(n), TableFrame, faults' \in 0..MaxFaults
  PROVE  PullerTypeOK'
  <1>1. [i \in Images |-> NoError] \in [Images -> Results]
    BY ErrorTypes
  <1>2. lastError' \in [NodeImageSets -> [Images -> Results]]
    BY <1>1 DEF DeleteNodeImageSetStatus, PullerTypeOK
  <1>3. pulling' \in [NodeImageSets -> SUBSET Images]
    BY DEF DeleteNodeImageSetStatus, PullerTypeOK
  <1> QED
    BY <1>2, <1>3 DEF DeleteNodeImageSetStatus, TableFrame, PullerTypeOK

LEMMA RunnerType ==
  ASSUME PullerTypeOK, RunnerTypeOK, RunnerStep
  PROVE  PullerTypeOK' /\ RunnerTypeOK'
  <1>1. CASE RunnerGet
    <2>1. PICK t \in Task : /\ tasks[t] > 0
                            /\ tasks' = [tasks EXCEPT ![t] = @ - 1]
                            /\ pullTask' = t /\ pullPc' = "exists"
      BY <1>1 DEF RunnerGet
    <2>2. tasks' \in [Task -> Nat]
      BY <2>1 DEF RunnerTypeOK
    <2> QED
      BY <1>1, <2>1, <2>2
      DEF RunnerGet, PullerTypeOK, RunnerTypeOK, PullPcs, tableVars, subVars
  <1>2. CASE RunnerIsImageExists
    <2>1. faults' \in 0..MaxFaults
      BY <1>2, CallFailsType DEF RunnerIsImageExists
    <2> QED
      BY <1>2, <2>1, ErrorTypes
      DEF RunnerIsImageExists, Return, Goto, PullerTypeOK, RunnerTypeOK, PullPcs,
          tableVars, subVars
  <1>3. CASE PullImage /\ UNCHANGED tasks
    BY <1>3, PullImageType DEF RunnerTypeOK
  <1>4. CASE RunnerDone
    <2>1. pullTask \in Task /\ Requeue(pullResult) \in Nat
      BY <1>4 DEF RunnerDone, PullerTypeOK, Requeue
    <2>2. tasks' \in [Task -> Nat]
      BY <1>4, <2>1 DEF RunnerDone, RunnerTypeOK
    <2> QED
      BY <1>4, <2>2, ErrorTypes
      DEF RunnerDone, PullerTypeOK, RunnerTypeOK, PullPcs, tableVars, subVars
  <1> QED
    BY <1>1, <1>2, <1>3, <1>4 DEF RunnerStep

-----------------------------------------------------------------------------

LEMMA FinishType ==
  ASSUME ReconcilerTypeOK, recPc # "idle", NEW again \in BOOLEAN, Finish(again),
         api' \in [NodeImageSets -> Nis], cache' \in [NodeImageSets -> Nis]
  PROVE  ReconcilerTypeOK'
  BY NoNisType DEF Finish, ReconcilerTypeOK, RecPcs

LEMMA AnswerType ==
  ASSUME ReconcilerTypeOK, NEW i \in Images, NEW status, Answer(i, status),
         UNCHANGED <<apiVars, recPc, recNis, recObj, recSecret>>
  PROVE  ReconcilerTypeOK'
  BY DEF Answer, ReconcilerTypeOK, apiVars

LEMMA ApiType ==
  ASSUME NEW n \in NodeImageSets, NEW obj \in Nis, api \in [NodeImageSets -> Nis],
         api' = [api EXCEPT ![n] = obj]
  PROVE  api' \in [NodeImageSets -> Nis]
  OBVIOUS

LEMMA NisFields ==
  ASSUME NEW obj \in Nis
  PROVE  /\ obj.images \in SUBSET Images /\ obj.generation \in Nat
         /\ obj.live \in BOOLEAN /\ obj.deleting \in BOOLEAN /\ obj.finalizer \in BOOLEAN
         /\ obj.policy \in RegistryPolicies \cup {None}
  BY DEF Nis

LEMMA NisReported ==
  ASSUME NEW obj \in Nis, NEW g \in Nat, NEW a \in BOOLEAN, NEW f \in BOOLEAN
  PROVE  [obj EXCEPT !.observed = g, !.available = a, !.failed = f] \in Nis
  BY DEF Nis

LEMMA NisUpdate ==
  ASSUME NEW obj \in Nis, NEW images \in SUBSET Images, NEW policy \in RegistryPolicies,
         NEW g \in Nat
  PROVE  [obj EXCEPT !.images = images, !.policy = policy, !.generation = g] \in Nis
  BY DEF Nis

LEMMA StartType ==
  ASSUME PullerTypeOK, RunnerTypeOK, ReconcilerTypeOK,
         NEW n \in NodeImageSets, StartReconcile(n)
  PROVE  PullerTypeOK' /\ RunnerTypeOK' /\ ReconcilerTypeOK'
  <1>1. PullerTypeOK'
    <2>1. TableFrame /\ faults' \in 0..MaxFaults
      BY DEF StartReconcile, TableFrame, PullerTypeOK
    <2>2. CASE DeleteNodeImageSetStatus(n)
      BY <2>1, <2>2, DeleteStatusType
    <2>3. CASE UNCHANGED <<tableVars, pullVars, subEntry>>
      BY <2>1, <2>3 DEF TableFrame, PullerTypeOK, tableVars, pullVars
    <2> QED
      BY <2>2, <2>3 DEF StartReconcile
  <1>2. RunnerTypeOK'
    BY DEF StartReconcile, RunnerTypeOK
  <1>3. ReconcilerTypeOK'
    <2>1. cache[n] \in Nis
      BY DEF ReconcilerTypeOK
    <2>2. /\ recPc' \in RecPcs
          /\ recNis' \in NodeImageSets \cup {None}
          /\ recPc' # "idle" => recNis' \in NodeImageSets
          /\ recObj' \in Nis
      <3> DEFINE ended == ~cache[n].live \/ (cache[n].deleting /\ ~cache[n].finalizer)
      <3>1. CASE ended
        BY <3>1, NoNisType DEF StartReconcile, RecPcs
      <3>2. CASE ~ended
        BY <2>1, <3>2 DEF StartReconcile, RecPcs
      <3> QED
        BY <3>1, <3>2
    <2> QED
      BY <2>2 DEF StartReconcile, ReconcilerTypeOK, loopVars
  <1> QED
    BY <1>1, <1>2, <1>3

LEMMA ReconcileType ==
  ASSUME PullerTypeOK, RunnerTypeOK, ReconcilerTypeOK, secretCache \in SecretStates, ReconcileStep
  PROVE  PullerTypeOK' /\ RunnerTypeOK' /\ ReconcilerTypeOK'
  <1>1. CASE RemoveFinalizer
    <2>1. api' \in [NodeImageSets -> Nis] /\ cache' \in [NodeImageSets -> Nis]
      BY <1>1, NoNisType DEF RemoveFinalizer, Update, ReconcilerTypeOK
    <2>2. ReconcilerTypeOK'
      BY <1>1, <2>1, FinishType DEF RemoveFinalizer
    <2>3. faults' \in 0..MaxFaults
      BY <1>1, CallFailsType DEF RemoveFinalizer
    <2> QED
      BY <1>1, <2>2, <2>3
      DEF RemoveFinalizer, PullerTypeOK, RunnerTypeOK, runnerVars, tableVars, pullVars, subVars
  <1>2. CASE AddFinalizer
    <2>1. [recObj EXCEPT !.finalizer = TRUE] \in Nis
      BY DEF ReconcilerTypeOK, Nis
    <2>2. api' \in [NodeImageSets -> Nis] /\ cache' \in [NodeImageSets -> Nis]
      BY <1>2, <2>1 DEF AddFinalizer, Update, ReconcilerTypeOK
    <2>3. ReconcilerTypeOK'
      BY <1>2, <2>2, FinishType DEF AddFinalizer
    <2>4. faults' \in 0..MaxFaults
      BY <1>2, CallFailsType DEF AddFinalizer
    <2> QED
      BY <1>2, <2>3, <2>4
      DEF AddFinalizer, PullerTypeOK, RunnerTypeOK, runnerVars, tableVars, pullVars, subVars
  <1>3. CASE Prepare
    <2>1. TableFrame /\ faults' \in 0..MaxFaults /\ RunnerTypeOK'
      BY <1>3, CallFailsType DEF Prepare, TableFrame, RunnerTypeOK
    <2>2. recNis \in NodeImageSets /\ recObj.images \in SUBSET Images
      BY <1>3, NisFields DEF Prepare, ReconcilerTypeOK
    <2>3. CASE Finish(TRUE) /\ UNCHANGED <<tableVars, pullVars, subEntry>>
      <3>1. ReconcilerTypeOK'
        BY <1>3, <2>3, FinishType DEF Prepare, ReconcilerTypeOK
      <3> QED
        BY <2>1, <2>3, <3>1 DEF TableFrame, PullerTypeOK, tableVars, pullVars
    <2>4. CASE /\ TrackNodeImageSet(recNis, IF NewGeneration THEN recObj.images ELSE Images)
               /\ GotoRec("collect")
               /\ recSecret' = secretCache
               /\ recTodo' = IF NewGeneration THEN {} ELSE recObj.images
               /\ recPending' = IF NewGeneration THEN recObj.images ELSE {}
               /\ UNCHANGED <<recImage, recStage, recDownloaded, recFailed, faults>>
      <3>1. PullerTypeOK'
        BY <2>1, <2>2, <2>4, TrackType
      <3>2. ReconcilerTypeOK'
        BY <1>3, <2>2, <2>4 DEF Prepare, GotoRec, ReconcilerTypeOK, RecPcs
      <3> QED
        BY <2>1, <3>1, <3>2
    <2> QED
      BY <1>3, <2>3, <2>4 DEF Prepare, ReadsSecrets
  <1>4. CASE AskContainerd
    <2>1. faults' \in 0..MaxFaults
      BY <1>4, CallFailsType DEF AskContainerd
    <2>2. PICK i \in recTodo :
            \/ Answer(i, "ImageDownloaded") \/ Answer(i, "Error")
            \/ /\ recImage' = i /\ recStage' = "pulling"
               /\ UNCHANGED <<recTodo, recPending, recDownloaded, recFailed>>
      BY <1>4 DEF AskContainerd
    <2>3. i \in Images
      BY DEF ReconcilerTypeOK
    <2>4. UNCHANGED <<apiVars, recPc, recNis, recObj, recSecret, runnerVars>>
      BY <1>4 DEF AskContainerd
    <2>5. ReconcilerTypeOK'
      <3>1. CASE Answer(i, "ImageDownloaded") \/ Answer(i, "Error")
        BY <2>3, <2>4, <3>1, AnswerType
      <3>2. CASE ~(Answer(i, "ImageDownloaded") \/ Answer(i, "Error"))
        BY <2>2, <2>3, <2>4, <3>2 DEF ReconcilerTypeOK, apiVars
      <3> QED
        BY <3>1, <3>2
    <2> QED
      BY <2>1, <2>4, <2>5
      DEF PullerTypeOK, RunnerTypeOK, runnerVars, tableVars, pullVars, subVars
  <1>5. CASE ReadPulling
    <2>1. recImage \in Images
      BY <1>5 DEF ReadPulling, ReconcilerTypeOK
    <2>2. ReconcilerTypeOK'
      <3>1. CASE recImage \in pulling[recNis]
        BY <1>5, <2>1, <3>1, AnswerType DEF ReadPulling
      <3>2. CASE recImage \notin pulling[recNis]
        BY <1>5, <2>1, <3>2 DEF ReadPulling, ReconcilerTypeOK, apiVars
      <3> QED
        BY <3>1, <3>2
    <2> QED
      BY <1>5, <2>2
      DEF ReadPulling, PullerTypeOK, RunnerTypeOK, runnerVars, tableVars, pullVars, subVars
  <1>6. CASE ReadError
    <2>1. recImage \in Images
      BY <1>6 DEF ReadError, ReconcilerTypeOK
    <2>2. ReconcilerTypeOK'
      BY <1>6, <2>1, AnswerType DEF ReadError
    <2> QED
      BY <1>6, <2>2
      DEF ReadError, PullerTypeOK, RunnerTypeOK, runnerVars, tableVars, pullVars, subVars
  <1>7. CASE EnqueueTask
    <2>1. RunnerTypeOK'
      <3>1. PICK t : tasks' = [tasks EXCEPT ![t] = @ + 1]
        BY <1>7 DEF EnqueueTask
      <3>2. CASE t \in Task
        BY <3>1, <3>2 DEF RunnerTypeOK
      <3>3. CASE t \notin Task
        <4>1. tasks' = tasks
          BY <3>1, <3>3 DEF RunnerTypeOK
        <4> QED
          BY <4>1 DEF RunnerTypeOK
      <3> QED
        BY <3>2, <3>3
    <2> QED
      BY <1>7, <2>1
      DEF EnqueueTask, PullerTypeOK, ReconcilerTypeOK, apiVars, tableVars, pullVars, subVars
  <1>8. CASE StartCount
    <2>1. recObj.images \in SUBSET Images
      BY NisFields DEF ReconcilerTypeOK
    <2> QED
      BY <1>8, <2>1
      DEF StartCount, GotoRec, ReconcilerTypeOK, RecPcs, PullerTypeOK, RunnerTypeOK,
          runnerVars, tableVars, pullVars, subVars
  <1>9. CASE Apply
    <2>1. recNis \in NodeImageSets
      BY <1>9 DEF Apply, ReconcilerTypeOK
    <2>2. Reported(api[recNis]) \in Nis
      <3>1. api[recNis] \in Nis /\ recObj.generation \in Nat
        BY <2>1, NisFields DEF ReconcilerTypeOK
      <3>2. AllDownloaded \in BOOLEAN /\ (recFailed # {}) \in BOOLEAN
        BY DEF AllDownloaded
      <3> QED
        BY <3>1, <3>2, NisReported DEF Reported
    <2>3. api' \in [NodeImageSets -> Nis] /\ cache' \in [NodeImageSets -> Nis]
      BY <1>9, <2>2 DEF Apply, ReconcilerTypeOK
    <2>4. ReconcilerTypeOK'
      <3>1. PICK again \in BOOLEAN : Finish(again)
        BY <1>9 DEF Apply, AllDownloaded
      <3> QED
        BY <1>9, <2>3, <3>1, FinishType DEF Apply
    <2>5. faults' \in 0..MaxFaults
      BY <1>9, CallFailsType DEF Apply
    <2> QED
      BY <1>9, <2>4, <2>5
      DEF Apply, PullerTypeOK, RunnerTypeOK, runnerVars, tableVars, pullVars, subVars
  <1> QED
    BY <1>1, <1>2, <1>3, <1>4, <1>5, <1>6, <1>7, <1>8, <1>9 DEF ReconcileStep

LEMMA WatcherType ==
  ASSUME PullerTypeOK, RunnerTypeOK, ReconcilerTypeOK, WatcherTypeOK,
         WatcherStep \/ WatcherListFails
  PROVE  PullerTypeOK' /\ RunnerTypeOK' /\ ReconcilerTypeOK' /\ WatcherTypeOK'
  <1> USE DEF RunnerTypeOK, ReconcilerTypeOK, WatcherTypeOK
  <1>1. CASE WatcherReceive
    <2>1. PullerTypeOK'
      BY <1>1, SubscriberType DEF WatcherReceive
    <2> QED
      BY <1>1, <2>1 DEF WatcherReceive, apiVars, recVars, loopVars, PullerTypeOK
  <1>2. CASE WatcherList \/ WatcherListFails
    BY <1>2 DEF WatcherList, WatcherListFails, Wanting, PullerTypeOK, apiVars, recVars, loopVars,
                runnerVars, tableVars, pullVars, subVars
  <1>3. CASE WatcherSend
    BY <1>3 DEF WatcherSend, PullerTypeOK, recVars, loopVars,
                runnerVars, tableVars, pullVars, subVars
  <1> QED
    BY <1>1, <1>2, <1>3 DEF WatcherStep

LEMMA EnvironmentType == TypeOK /\ Environment => TypeOK'
  <1> SUFFICES ASSUME TypeOK, Environment PROVE TypeOK'
    OBVIOUS
  <1>1. ASSUME NEW n \in NodeImageSets,
               \/ CreateNodeImageSet(n) \/ UpdateNodeImageSet(n) \/ DeleteNodeImageSet(n)
               \/ CollectorRemovesFinalizer(n)
        PROVE  TypeOK'
    <2>1. api[n] \in Nis /\ edits + 1 \in Nat
      BY DEF TypeOK, ReconcilerTypeOK
    <2>2. PICK obj \in Nis : Edit(n, obj)
      <3>1. CASE CreateNodeImageSet(n)
        <4>1. PICK images \in ImageSets, policy \in RegistryPolicies :
                Edit(n, [NoNis EXCEPT !.live = TRUE, !.uid = edits + 1, !.generation = 1,
                                      !.images = images, !.policy = policy])
          BY <3>1 DEF CreateNodeImageSet
        <4>2. [NoNis EXCEPT !.live = TRUE, !.uid = edits + 1, !.generation = 1,
                            !.images = images, !.policy = policy] \in Nis
          BY <2>1 DEF NoNis, Nis, ImageSets
        <4> QED
          BY <4>1, <4>2
      <3>2. CASE UpdateNodeImageSet(n)
        <4>1. PICK images \in ImageSets, policy \in RegistryPolicies :
                Edit(n, [api[n] EXCEPT !.images = images, !.policy = policy,
                                       !.generation = @ + 1])
          BY <3>2 DEF UpdateNodeImageSet
        <4>2. api[n].generation + 1 \in Nat
          BY <2>1, NisFields
        <4>3. [api[n] EXCEPT !.images = images, !.policy = policy, !.generation = @ + 1] \in Nis
          BY <2>1, <4>2, NisUpdate DEF ImageSets
        <4> QED
          BY <4>1, <4>3
      <3>3. CASE DeleteNodeImageSet(n)
        <4>1. api[n].generation + 1 \in Nat
          BY <2>1, NisFields
        <4>2. [api[n] EXCEPT !.deleting = TRUE, !.generation = @ + 1] \in Nis
          BY <2>1, <4>1 DEF Nis
        <4> QED
          BY <3>3, <4>2, NoNisType DEF DeleteNodeImageSet
      <3>4. CASE CollectorRemovesFinalizer(n)
        <4>1. [api[n] EXCEPT !.finalizer = FALSE] \in Nis
          BY <2>1 DEF Nis
        <4> QED
          BY <3>4, <4>1, NoNisType DEF CollectorRemovesFinalizer
      <3> QED
        BY <1>1, <3>1, <3>2, <3>3, <3>4
    <2>3. api' \in [NodeImageSets -> Nis] /\ edits' \in 0..MaxEdits
      BY <2>2, EditsAssumption DEF Edit, TypeOK, ReconcilerTypeOK
    <2> QED
      BY <2>2, <2>3
      DEF Edit, TypeOK, PullerTypeOK, RunnerTypeOK, ReconcilerTypeOK, WatcherTypeOK, recVars,
          loopVars, watchVars, runnerVars, tableVars, pullVars, subVars, secretVars
  <1>2. ASSUME NEW i \in Images, EvictImage(i) \/ KubeletPull(i)
        PROVE  TypeOK'
    <2>1. present' \in SUBSET Images /\ events' \in [Images -> Nat] /\ foreign' \in 0..MaxForeign
      BY <1>2, ForeignAssumption
      DEF EvictImage, KubeletPull, ForeignStep, TypeOK, PullerTypeOK, subVars
    <2> QED
      BY <1>2, <2>1
      DEF EvictImage, KubeletPull, TypeOK, PullerTypeOK, RunnerTypeOK, ReconcilerTypeOK,
          WatcherTypeOK, apiVars, recVars, loopVars, watchVars, tableVars, pullVars, subVars,
          secretVars
  <1>3. CASE Restart
    <2>1. PullerTypeOK'
      <3>1. lastError' \in [NodeImageSets -> [Images -> Results]]
        BY <1>3, ErrorTypes DEF Restart
      <3> QED
        BY <1>3, <3>1, ErrorTypes DEF Restart, TypeOK, PullerTypeOK, PullPcs
    <2>2. RunnerTypeOK' /\ WatcherTypeOK'
      BY <1>3 DEF Restart, RunnerTypeOK, WatcherTypeOK
    <2>3. ReconcilerTypeOK'
      BY <1>3, NoNisType DEF Restart, TypeOK, ReconcilerTypeOK, RecPcs
    <2>4. restarts' \in 0..MaxRestarts
      BY <1>3, RestartsAssumption DEF Restart, TypeOK
    <2> QED
      BY <1>3, <2>1, <2>2, <2>3, <2>4 DEF Restart, TypeOK
  <1>4. CASE EditSecret \/ SecretSync
    <2>1. /\ secret' \in SecretStates /\ secretCache' \in SecretStates
          /\ edits' \in 0..MaxEdits
      BY <1>4, EditsAssumption DEF EditSecret, SecretSync, TypeOK
    <2> QED
      BY <1>4, <2>1
      DEF EditSecret, SecretSync, TypeOK, PullerTypeOK, RunnerTypeOK, ReconcilerTypeOK,
          WatcherTypeOK, daemonVars, apiVars, recVars, loopVars, watchVars, runnerVars,
          tableVars, pullVars, subVars
  <1> QED
    BY <1>1, <1>2, <1>3, <1>4 DEF Environment

(***************************************************************************)
(* Every variable keeps to its set of values: the shape of the table, of   *)
(* the queues and of the objects, whatever the goroutines, users and       *)
(* faults do.                                                              *)
(***************************************************************************)
THEOREM TypeCorrect == Spec => []TypeOK
  <1>1. TypeOK /\ [Next]_vars => TypeOK'
    <2> SUFFICES ASSUME TypeOK, [Next]_vars PROVE TypeOK'
      OBVIOUS
    <2> USE DEF TypeOK
    <2>1. CASE RunnerActs
      BY <2>1, RunnerType
      DEF RunnerActs, ReconcilerTypeOK, WatcherTypeOK, apiVars, recVars, loopVars, watchVars,
          envVars, secretVars
    <2>2. CASE SubscriberActs \/ Subscribes
      <3>1. PullerTypeOK'
        BY <2>2, SubscriberType DEF SubscriberActs, Subscribes
      <3> QED
        BY <2>2, <3>1
        DEF SubscriberActs, Subscribes, RunnerTypeOK, ReconcilerTypeOK, WatcherTypeOK, apiVars,
            recVars, loopVars, watchVars, envVars, secretVars
    <2>3. CASE WatcherActs
      BY <2>3, WatcherType DEF WatcherActs, envVars, secretVars
    <2>4. CASE LosesEvent
      <3>1. CASE WatcherListFails /\ UNCHANGED envVars
        BY <3>1, WatcherType DEF envVars, secretVars
      <3>2. CASE /\ StreamBreak \/ SubscriberDrop
                 /\ UNCHANGED <<tasks, apiVars, recVars, watchVars, envVars>>
        <4>1. PullerTypeOK'
          BY <3>2, SubscriberType
        <4> QED
          BY <3>2, <4>1
          DEF RunnerTypeOK, ReconcilerTypeOK, WatcherTypeOK, apiVars, recVars, loopVars,
              watchVars, envVars, secretVars
      <3> QED
        BY <2>4, <3>1, <3>2 DEF LosesEvent
    <2>5. CASE ReconcilerActs
      BY <2>5, ReconcileType DEF ReconcilerActs, WatcherTypeOK, watchVars, envVars, secretVars
    <2>6. ASSUME NEW n \in NodeImageSets, Starts(n) \/ Syncs(n) \/ Resyncs(n)
          PROVE  TypeOK'
      <3>1. CASE Starts(n)
        BY <3>1, StartType DEF Starts, WatcherTypeOK, watchVars, envVars, secretVars
      <3>2. CASE Syncs(n) \/ Resyncs(n)
        BY <3>2
        DEF Syncs, Resyncs, CacheSync, Resync, PullerTypeOK, RunnerTypeOK, ReconcilerTypeOK,
            WatcherTypeOK, recVars, loopVars, watchVars, runnerVars, tableVars, pullVars,
            subVars, envVars, secretVars
      <3> QED
        BY <2>6, <3>1, <3>2
    <2>7. CASE Environment
      BY <2>7, EnvironmentType
    <2>8. CASE UNCHANGED vars
      BY <2>8
      DEF vars, daemonVars, PullerTypeOK, RunnerTypeOK, ReconcilerTypeOK, WatcherTypeOK, apiVars,
          recVars, loopVars, watchVars, runnerVars, tableVars, pullVars, subVars, envVars,
          secretVars
    <2> QED
      BY <2>1, <2>2, <2>3, <2>4, <2>5, <2>6, <2>7, <2>8 DEF Next
  <1> QED
    BY <1>1, InitTypeOK, PTL DEF Spec

-----------------------------------------------------------------------------
(***************************************************************************)
(* What makes the reconciler come back.                                    *)
(***************************************************************************)

\* The activation record of Reconcile.
RecShape ==
    /\ recPc = "idle" <=> recNis = None
    /\ recPc \in {"prepare", "collect", "count"} => ~recObj.deleting
    /\ recPc \notin {"idle", "addFinalizer"} => recObj.finalizer

\* A reconcile works on what the cache holds, or will be followed by another.
SnapshotFresh == recNis # None => recObj = cache[recNis] \/ recNis \in requests

\* The cache never runs ahead of the API server, so an edit makes it differ.
Versions ==
    \A n \in NodeImageSets :
        /\ api[n].uid <= edits /\ cache[n].uid <= edits
        /\ api[n].live /\ cache[n].uid = api[n].uid => cache[n].generation <= api[n].generation
        /\ api[n].deleting => api[n].finalizer

\* The collector may take the finalizer away, after which the object is again
\* what the cache has held all along.
FinalizerFollowed ==
    \A n \in NodeImageSets :
        cache[n].live /\ ~cache[n].deleting /\ ~cache[n].finalizer =>
            n \in requests \/ recNis = n

AttentionInv == RecShape /\ SnapshotFresh /\ Versions /\ StatusFollowed /\ FinalizerFollowed

\* All that AttentionInv speaks of.
attentionVars == <<api, cache, requests, recPc, recNis, recObj, edits>>

LEMMA InitAttention == Init => AttentionInv
  BY DEF Init, ReconcilerInit, AttentionInv, RecShape, SnapshotFresh, Versions, StatusFollowed,
         FinalizerFollowed, NoNis

LEMMA FrameAttention ==
  ASSUME AttentionInv, UNCHANGED attentionVars
  PROVE  AttentionInv'
  BY DEF AttentionInv, RecShape, SnapshotFresh, Versions, StatusFollowed,
         FinalizerFollowed, WillReconcile,
         attentionVars

LEMMA RequestAttention ==
  ASSUME AttentionInv, UNCHANGED <<api, cache, recPc, recNis, recObj, edits>>,
         requests \subseteq requests'
  PROVE  AttentionInv'
  BY DEF AttentionInv, RecShape, SnapshotFresh, Versions, StatusFollowed,
         FinalizerFollowed, WillReconcile

LEMMA StartAttention ==
  ASSUME TypeOK, AttentionInv, NEW n \in NodeImageSets, Starts(n)
  PROVE  AttentionInv'
  <1>0. UNCHANGED <<api, cache, edits>> /\ requests' = requests \ {n} /\ recNis = None
    BY DEF Starts, StartReconcile, envVars, AttentionInv, RecShape
  <1> DEFINE obj == cache[n]
             ended == ~obj.live \/ (obj.deleting /\ ~obj.finalizer)
  <1>n. n # None /\ obj \in Nis
    BY NoneAssumption DEF TypeOK, ReconcilerTypeOK
  <1>1. Versions'
    BY <1>0 DEF AttentionInv, Versions
  <1>2. CASE ended
    <2>1. recPc' = "idle" /\ recNis' = None
      BY <1>2 DEF Starts, StartReconcile
    <2>2. RecShape' /\ SnapshotFresh'
      BY <2>1 DEF RecShape, SnapshotFresh
    <2>3. StatusFollowed'
      BY <1>0, <1>2, <2>1 DEF AttentionInv, StatusFollowed, WillReconcile, Versions
    <2>4. FinalizerFollowed'
      BY <1>0, <1>2, <2>1 DEF AttentionInv, FinalizerFollowed
    <2> QED
      BY <1>1, <2>2, <2>3, <2>4 DEF AttentionInv
  <1>3. CASE ~ended
    <2>1. /\ recNis' = n /\ recObj' = obj
          /\ recPc' \in {"removeFinalizer", "addFinalizer", "prepare"}
          /\ recPc' # "removeFinalizer" => ~obj.deleting
          /\ recPc' # "addFinalizer" => obj.finalizer
      BY <1>3 DEF Starts, StartReconcile
    <2>2. RecShape' /\ SnapshotFresh'
      BY <1>0, <1>n, <2>1 DEF RecShape, SnapshotFresh
    <2>3. StatusFollowed'
      <3> SUFFICES ASSUME NEW m \in NodeImageSets, m # n, api[m].live,
                          api[m].deleting \/ ~api[m].available
                             \/ api[m].observed # api[m].generation
                   PROVE  cache[m] # api[m] \/ m \in requests
        BY <1>0, <2>1 DEF StatusFollowed, WillReconcile
      <3> QED
        BY <1>0, NoneAssumption DEF AttentionInv, StatusFollowed, WillReconcile
    <2>4. FinalizerFollowed'
      BY <1>0, <2>1, NoneAssumption DEF AttentionInv, FinalizerFollowed
    <2> QED
      BY <1>1, <2>2, <2>3, <2>4 DEF AttentionInv
  <1> QED
    BY <1>2, <1>3

LEMMA SyncAttention ==
  ASSUME TypeOK, AttentionInv, NEW n \in NodeImageSets, Syncs(n)
  PROVE  AttentionInv'
  <1>0. /\ cache' = [cache EXCEPT ![n] = api[n]] /\ requests' = requests \cup {n}
        /\ UNCHANGED <<api, recPc, recNis, recObj, edits>>
    BY DEF Syncs, CacheSync, recVars, envVars
  <1>1. \A m \in NodeImageSets : cache'[m] = IF m = n THEN api[n] ELSE cache[m]
    BY <1>0 DEF TypeOK, ReconcilerTypeOK
  <1>2. RecShape' /\ SnapshotFresh'
    BY <1>0, <1>1 DEF AttentionInv, RecShape, SnapshotFresh, TypeOK, ReconcilerTypeOK
  <1>3. Versions'
    <2> SUFFICES ASSUME NEW m \in NodeImageSets
                 PROVE  /\ api[m].uid <= edits /\ cache'[m].uid <= edits
                        /\ api[m].live /\ cache'[m].uid = api[m].uid =>
                              cache'[m].generation <= api[m].generation
                        /\ api[m].deleting => api[m].finalizer
      BY <1>0 DEF Versions
    <2>1. api[m].generation \in Nat
      BY NisFields DEF TypeOK, ReconcilerTypeOK
    <2> QED
      BY <1>1, <2>1 DEF AttentionInv, Versions
  <1>4. StatusFollowed'
    BY <1>0, <1>1 DEF AttentionInv, StatusFollowed, WillReconcile
  <1>5. FinalizerFollowed'
    BY <1>0, <1>1 DEF AttentionInv, FinalizerFollowed
  <1> QED
    BY <1>2, <1>3, <1>4, <1>5 DEF AttentionInv

LEMMA EditAttention ==
  ASSUME TypeOK, AttentionInv, NEW n \in NodeImageSets,
         CreateNodeImageSet(n) \/ UpdateNodeImageSet(n) \/ DeleteNodeImageSet(n)
  PROVE  /\ AttentionInv'
         /\ api'[n].live => cache'[n] # api'[n]
  <1>0. api[n] \in Nis /\ cache[n] \in Nis /\ edits \in Nat
    BY EditsAssumption DEF TypeOK, ReconcilerTypeOK
  <1>1. PICK obj : Edit(n, obj) /\ \/ obj = NoNis
                                   \/ /\ obj.live /\ ~obj.deleting
                                      /\ obj.uid = edits + 1
                                   \/ /\ obj.uid = api[n].uid /\ api[n].live
                                      /\ obj.generation = api[n].generation + 1
                                      /\ obj.deleting => obj.finalizer
    <2>1. CASE CreateNodeImageSet(n)
      <3>1. PICK images \in ImageSets, policy \in RegistryPolicies :
              Edit(n, [NoNis EXCEPT !.live = TRUE, !.uid = edits + 1, !.generation = 1,
                                    !.images = images, !.policy = policy])
        BY <2>1 DEF CreateNodeImageSet
      <3> DEFINE new == [NoNis EXCEPT !.live = TRUE, !.uid = edits + 1, !.generation = 1,
                                      !.images = images, !.policy = policy]
      <3>2. new.live /\ ~new.deleting /\ new.uid = edits + 1
        BY DEF NoNis
      <3>3. Edit(n, new)
        BY <3>1
      <3> HIDE DEF new
      <3> QED
        BY <3>2, <3>3
    <2>2. CASE UpdateNodeImageSet(n)
      <3>1. PICK images \in ImageSets, policy \in RegistryPolicies :
              Edit(n, [api[n] EXCEPT !.images = images, !.policy = policy,
                                     !.generation = @ + 1])
        BY <2>2 DEF UpdateNodeImageSet
      <3>2. ~api[n].deleting /\ api[n].live
        BY <2>2 DEF UpdateNodeImageSet
      <3> DEFINE new == [api[n] EXCEPT !.images = images, !.policy = policy,
                                       !.generation = @ + 1]
      <3>3. new.uid = api[n].uid /\ new.generation = api[n].generation + 1 /\ ~new.deleting
        BY <1>0, <3>2 DEF Nis
      <3>4. Edit(n, new)
        BY <3>1
      <3> HIDE DEF new
      <3> QED
        BY <3>2, <3>3, <3>4
    <2>3. CASE DeleteNodeImageSet(n)
      <3>1. CASE api[n].finalizer
        <4> DEFINE new == [api[n] EXCEPT !.deleting = TRUE, !.generation = @ + 1]
        <4>1. new.uid = api[n].uid /\ new.generation = api[n].generation + 1 /\ new.finalizer
          BY <1>0, <3>1 DEF Nis
        <4>2. Edit(n, new) /\ api[n].live
          BY <2>3, <3>1 DEF DeleteNodeImageSet
        <4> HIDE DEF new
        <4> QED
          BY <4>1, <4>2
      <3>2. CASE ~api[n].finalizer
        BY <2>3, <3>2 DEF DeleteNodeImageSet
      <3> QED
        BY <3>1, <3>2
    <2> QED
      BY <2>1, <2>2, <2>3
  <1>2. /\ \A m \in NodeImageSets : api'[m] = IF m = n THEN obj ELSE api[m]
        /\ edits' = edits + 1
        /\ UNCHANGED <<cache, requests, recPc, recNis, recObj>>
    BY <1>1 DEF Edit, TypeOK, ReconcilerTypeOK, recVars
  <1>3. RecShape' /\ SnapshotFresh'
    BY <1>2 DEF AttentionInv, RecShape, SnapshotFresh
  <1>4. obj.live => cache[n] # obj
    <2>1. ~NoNis.live
      BY DEF NoNis
    <2>2. cache[n].uid <= edits /\ (api[n].live /\ cache[n].uid = api[n].uid =>
                                       cache[n].generation <= api[n].generation)
      BY DEF AttentionInv, Versions
    <2>3. cache[n].uid \in Nat /\ cache[n].generation \in Nat /\ api[n].generation \in Nat
      BY <1>0 DEF Nis
    <2> QED
      BY <1>0, <1>1, <2>1, <2>2, <2>3
  <1>5. Versions'
    <2> SUFFICES ASSUME NEW m \in NodeImageSets
                 PROVE  /\ api'[m].uid <= edits + 1 /\ cache[m].uid <= edits + 1
                        /\ api'[m].live /\ cache[m].uid = api'[m].uid =>
                              cache[m].generation <= api'[m].generation
                        /\ api'[m].deleting => api'[m].finalizer
      BY <1>0, <1>2 DEF Versions
    <2>1. /\ api[m].uid \in Nat /\ cache[m].uid \in Nat
          /\ api[m].generation \in Nat /\ cache[m].generation \in Nat
      BY DEF TypeOK, ReconcilerTypeOK, Nis
    <2>2. /\ api[m].uid <= edits /\ cache[m].uid <= edits
          /\ api[m].live /\ cache[m].uid = api[m].uid =>
                cache[m].generation <= api[m].generation
          /\ api[m].deleting => api[m].finalizer
      BY DEF AttentionInv, Versions
    <2>3. CASE m # n
      BY <1>0, <1>2, <2>1, <2>2, <2>3
    <2>4. CASE m = n /\ obj = NoNis
      BY <1>0, <1>2, <2>1, <2>2, <2>4 DEF NoNis
    <2>5. CASE m = n /\ obj # NoNis
      BY <1>0, <1>1, <1>2, <2>1, <2>2, <2>5
    <2> QED
      BY <2>3, <2>4, <2>5
  <1>6. StatusFollowed'
    BY <1>2, <1>4 DEF AttentionInv, StatusFollowed, WillReconcile
  <1>7. FinalizerFollowed'
    BY <1>2 DEF AttentionInv, FinalizerFollowed
  <1> QED
    BY <1>2, <1>3, <1>4, <1>5, <1>6, <1>7 DEF AttentionInv

LEMMA CollectorAttention ==
  ASSUME TypeOK, AttentionInv, NEW n \in NodeImageSets, CollectorRemovesFinalizer(n)
  PROVE  AttentionInv'
  <1>0. /\ api[n] \in Nis /\ cache[n] \in Nis /\ edits \in Nat
        /\ api[n].live /\ api[n].finalizer
    BY EditsAssumption DEF TypeOK, ReconcilerTypeOK, CollectorRemovesFinalizer
  <1>1. PICK obj : Edit(n, obj) /\ \/ obj = NoNis
                                   \/ /\ obj.live /\ ~obj.deleting /\ ~obj.finalizer
                                      /\ obj.uid = api[n].uid
                                      /\ obj.generation = api[n].generation
    <2>1. CASE api[n].deleting
      BY <2>1 DEF CollectorRemovesFinalizer
    <2>2. CASE ~api[n].deleting
      <3> DEFINE new == [api[n] EXCEPT !.finalizer = FALSE]
      <3>1. /\ new.live /\ ~new.deleting /\ ~new.finalizer
            /\ new.uid = api[n].uid /\ new.generation = api[n].generation
        BY <1>0, <2>2 DEF Nis
      <3>2. Edit(n, new)
        BY <2>2 DEF CollectorRemovesFinalizer
      <3> HIDE DEF new
      <3> QED
        BY <3>1, <3>2
    <2> QED
      BY <2>1, <2>2
  <1>2. /\ \A m \in NodeImageSets : api'[m] = IF m = n THEN obj ELSE api[m]
        /\ edits' = edits + 1
        /\ UNCHANGED <<cache, requests, recPc, recNis, recObj>>
    BY <1>1 DEF Edit, TypeOK, ReconcilerTypeOK, recVars
  <1>3. RecShape' /\ SnapshotFresh' /\ FinalizerFollowed'
    BY <1>2 DEF AttentionInv, RecShape, SnapshotFresh, FinalizerFollowed
  <1>4. Versions'
    <2> SUFFICES ASSUME NEW m \in NodeImageSets
                 PROVE  /\ api'[m].uid <= edits + 1 /\ cache[m].uid <= edits + 1
                        /\ api'[m].live /\ cache[m].uid = api'[m].uid =>
                              cache[m].generation <= api'[m].generation
                        /\ api'[m].deleting => api'[m].finalizer
      BY <1>0, <1>2 DEF Versions
    <2>1. api[m].uid \in Nat /\ cache[m].uid \in Nat
      BY DEF TypeOK, ReconcilerTypeOK, Nis
    <2>2. /\ api[m].uid <= edits /\ cache[m].uid <= edits
          /\ api[m].live /\ cache[m].uid = api[m].uid =>
                cache[m].generation <= api[m].generation
          /\ api[m].deleting => api[m].finalizer
      BY DEF AttentionInv, Versions
    <2>3. CASE m # n
      BY <1>0, <1>2, <2>1, <2>2, <2>3
    <2>4. CASE m = n /\ obj = NoNis
      BY <1>0, <1>2, <2>1, <2>2, <2>4 DEF NoNis
    <2>5. CASE m = n /\ obj # NoNis
      BY <1>0, <1>1, <1>2, <2>1, <2>2, <2>5
    <2> QED
      BY <2>3, <2>4, <2>5
  <1>5. StatusFollowed'
    <2> SUFFICES ASSUME NEW m \in NodeImageSets, api'[m].live, cache[m] = api'[m],
                        \/ api'[m].deleting \/ ~api'[m].available
                        \/ api'[m].observed # api'[m].generation
                 PROVE  m \in requests \/ recNis = m
      BY <1>2 DEF StatusFollowed, WillReconcile
    <2>1. CASE m # n
      BY <1>2, <2>1 DEF AttentionInv, StatusFollowed, WillReconcile
    <2>2. CASE m = n
      BY <1>1, <1>2, <2>2 DEF AttentionInv, FinalizerFollowed, NoNis
    <2> QED
      BY <2>1, <2>2
  <1> QED
    BY <1>3, <1>4, <1>5 DEF AttentionInv

LEMMA RestartAttention ==
  ASSUME TypeOK, AttentionInv, Restart
  PROVE  AttentionInv'
  <1>1. /\ api' = api /\ cache' = api /\ edits' = edits
        /\ requests' = {n \in NodeImageSets : api[n].live}
        /\ recPc' = "idle" /\ recNis' = None
    BY DEF Restart
  <1>2. RecShape' /\ SnapshotFresh' /\ StatusFollowed' /\ FinalizerFollowed'
    BY <1>1 DEF RecShape, SnapshotFresh, StatusFollowed, FinalizerFollowed, WillReconcile
  <1>3. Versions'
    <2>1. \A n \in NodeImageSets : api[n].generation \in Nat
      BY NisFields DEF TypeOK, ReconcilerTypeOK
    <2> QED
      BY <1>1, <2>1 DEF AttentionInv, Versions
  <1> QED
    BY <1>2, <1>3 DEF AttentionInv

\* Reconcile returns and asks to be called again; the object's identity and
\* generation do not change.
LEMMA AgainAttention ==
  ASSUME TypeOK, AttentionInv, recNis # None, Finish(TRUE),
         UNCHANGED <<cache, edits>>,
         \/ api' = api
         \/ \E obj : /\ api' = [api EXCEPT ![recNis] = obj]
                     /\ obj.uid = api[recNis].uid /\ obj.generation = api[recNis].generation
                     /\ obj.live = api[recNis].live
                     /\ obj.deleting => obj.finalizer
  PROVE  AttentionInv'
  <1>1. recNis \in NodeImageSets /\ recPc' = "idle" /\ recNis' = None
        /\ requests' = requests \cup {recNis}
    BY DEF TypeOK, ReconcilerTypeOK, Finish
  <1>2. RecShape' /\ SnapshotFresh'
    BY <1>1 DEF RecShape, SnapshotFresh
  <1>3. \A m \in NodeImageSets \ {recNis} : api'[m] = api[m]
    BY DEF TypeOK, ReconcilerTypeOK
  <1>4. /\ api'[recNis].uid = api[recNis].uid
        /\ api'[recNis].generation = api[recNis].generation
        /\ api'[recNis].live = api[recNis].live
        /\ api'[recNis].deleting => api'[recNis].finalizer
    <2>1. CASE api' = api
      BY <1>1, <2>1 DEF AttentionInv, Versions
    <2>2. CASE api' # api
      <3>1. PICK obj : /\ api' = [api EXCEPT ![recNis] = obj]
                       /\ obj.uid = api[recNis].uid
                       /\ obj.generation = api[recNis].generation
                       /\ obj.live = api[recNis].live
                       /\ obj.deleting => obj.finalizer
        BY <2>2
      <3> QED
        BY <1>1, <3>1 DEF TypeOK, ReconcilerTypeOK
    <2> QED
      BY <2>1, <2>2
  <1>5. Versions'
    BY <1>1, <1>3, <1>4 DEF AttentionInv, Versions
  <1>6. StatusFollowed'
    BY <1>1, <1>3 DEF AttentionInv, StatusFollowed, WillReconcile
  <1>7. FinalizerFollowed'
    BY <1>1 DEF AttentionInv, FinalizerFollowed
  <1> QED
    BY <1>2, <1>5, <1>6, <1>7 DEF AttentionInv

LEMMA ReconcileAttention ==
  ASSUME TypeOK, AttentionInv, ReconcilerActs
  PROVE  AttentionInv'
  <1>0. edits' = edits
    BY DEF ReconcilerActs, envVars
  <1>t. api \in [NodeImageSets -> Nis] /\ recObj \in Nis
    BY DEF TypeOK, ReconcilerTypeOK
  <1>1. CASE RemoveFinalizer
    <2>0. recNis # None /\ cache' = cache /\ recNis \in NodeImageSets
      BY <1>1, NoneAssumption DEF RemoveFinalizer, TypeOK, ReconcilerTypeOK
    <2>1. CASE Finish(TRUE) /\ UNCHANGED api
      BY <1>0, <2>0, <2>1, AgainAttention
    <2>2. CASE Update(NoNis) /\ Finish(FALSE)
      <3>1. /\ \A m \in NodeImageSets : api'[m] = IF m = recNis THEN NoNis ELSE api[m]
            /\ requests' = requests /\ recPc' = "idle" /\ recNis' = None
        BY <1>t, <2>2 DEF Update, Finish
      <3>2. RecShape' /\ SnapshotFresh'
        BY <3>1 DEF RecShape, SnapshotFresh
      <3>3. Versions'
        <4>1. api[recNis].uid <= edits /\ cache[recNis].uid <= edits /\ edits \in Nat
          BY <2>0, EditsAssumption DEF AttentionInv, Versions, TypeOK
        <4> QED
          BY <1>0, <2>0, <3>1, <4>1 DEF AttentionInv, Versions, NoNis
      <3>4. StatusFollowed'
        BY <2>0, <3>1 DEF AttentionInv, StatusFollowed, WillReconcile, NoNis
      <3>5. FinalizerFollowed'
        BY <1>1, <2>0, <3>1
        DEF RemoveFinalizer, AttentionInv, FinalizerFollowed, SnapshotFresh, RecShape
      <3> QED
        BY <3>2, <3>3, <3>4, <3>5 DEF AttentionInv
    <2> QED
      BY <1>1, <2>1, <2>2 DEF RemoveFinalizer
  <1>2. CASE AddFinalizer
    <2>0. recNis # None /\ cache' = cache /\ recNis \in NodeImageSets /\ Finish(TRUE)
      BY <1>2, NoneAssumption DEF AddFinalizer, TypeOK, ReconcilerTypeOK
    <2>1. CASE UNCHANGED api
      BY <1>0, <2>0, <2>1, AgainAttention
    <2>2. CASE Update([recObj EXCEPT !.finalizer = TRUE])
      <3> DEFINE new == [recObj EXCEPT !.finalizer = TRUE]
      <3>1. api' = [api EXCEPT ![recNis] = new] /\ api[recNis] = recObj
        BY <2>2 DEF Update
      <3>2. /\ new.uid = recObj.uid /\ new.generation = recObj.generation
            /\ new.live = recObj.live /\ new.finalizer
        BY <1>t DEF Nis
      <3> HIDE DEF new
      <3> QED
        BY <1>0, <2>0, <3>1, <3>2, AgainAttention
    <2> QED
      BY <1>2, <2>1, <2>2 DEF AddFinalizer
  <1>3. CASE Prepare
    <2>0. recNis # None /\ cache' = cache /\ api' = api
      BY <1>3, NoneAssumption DEF Prepare, TypeOK, ReconcilerTypeOK
    <2>1. CASE Finish(TRUE)
      BY <1>0, <2>0, <2>1, AgainAttention
    <2>2. CASE GotoRec("collect")
      BY <1>0, <1>3, <2>0, <2>2
      DEF Prepare, GotoRec, AttentionInv, RecShape, SnapshotFresh, Versions, StatusFollowed,
          FinalizerFollowed, WillReconcile
    <2> QED
      BY <1>3, <2>1, <2>2 DEF Prepare
  <1>4. CASE AskContainerd \/ ReadPulling \/ ReadError \/ EnqueueTask
    BY <1>0, <1>4, FrameAttention
    DEF AskContainerd, ReadPulling, ReadError, EnqueueTask, attentionVars, apiVars
  <1>5. CASE StartCount
    BY <1>0, <1>5
    DEF StartCount, GotoRec, AttentionInv, RecShape, SnapshotFresh, Versions, StatusFollowed,
        FinalizerFollowed, WillReconcile
  <1>6. CASE Apply
    <2>0. recNis # None /\ cache' = cache /\ recNis \in NodeImageSets
      BY <1>6, NoneAssumption DEF Apply, TypeOK, ReconcilerTypeOK
    <2>1. CASE Finish(TRUE) /\ UNCHANGED api
      BY <1>0, <2>0, <2>1, AgainAttention
    <2>2. CASE /\ api' = [api EXCEPT ![recNis] = Reported(@)]
               /\ Finish(~AllDownloaded)
      <3> DEFINE new == Reported(api[recNis])
      <3>1. /\ new.uid = api[recNis].uid /\ new.generation = api[recNis].generation
            /\ new.live = api[recNis].live /\ new.deleting = api[recNis].deleting
            /\ new.finalizer = api[recNis].finalizer
            /\ new.available = AllDownloaded /\ new.observed = recObj.generation
        BY <1>t, <2>0 DEF Reported, Nis
      <3>2. new.deleting => new.finalizer
        BY <2>0, <3>1 DEF AttentionInv, Versions
      <3>3. api' = [api EXCEPT ![recNis] = new]
        BY <2>2
      <3> HIDE DEF new
      <3>4. CASE ~AllDownloaded
        <4>1. Finish(TRUE)
          BY <2>2, <3>4
        <4> QED
          BY <1>0, <2>0, <3>1, <3>2, <3>3, <4>1, AgainAttention
      <3>5. CASE AllDownloaded
        <4>1. requests' = requests /\ recPc' = "idle" /\ recNis' = None
          BY <2>2, <3>5 DEF Finish
        <4>2. \A m \in NodeImageSets : api'[m] = IF m = recNis THEN new ELSE api[m]
          BY <1>t, <3>3
        <4>3. RecShape' /\ SnapshotFresh'
          BY <4>1 DEF RecShape, SnapshotFresh
        <4>4. Versions'
          BY <1>0, <2>0, <3>1, <4>2 DEF AttentionInv, Versions
        <4>5. StatusFollowed'
          <5> SUFFICES ASSUME NEW m \in NodeImageSets, api'[m].live,
                              api'[m].deleting \/ ~api'[m].available
                                 \/ api'[m].observed # api'[m].generation
                       PROVE  cache[m] # api'[m] \/ m \in requests
            BY <2>0, <4>1 DEF StatusFollowed, WillReconcile
          <5>1. CASE m # recNis
            BY <4>2, <5>1 DEF AttentionInv, StatusFollowed, WillReconcile
          <5>2. CASE m = recNis
            <6>1. recObj = cache[recNis] \/ recNis \in requests
              BY <2>0 DEF AttentionInv, SnapshotFresh
            <6>2. ~recObj.deleting
              BY <1>6 DEF Apply, AttentionInv, RecShape
            <6> QED
              BY <3>1, <3>5, <4>2, <5>2, <6>1, <6>2
          <5> QED
            BY <5>1, <5>2
        <4>6. FinalizerFollowed'
          BY <1>6, <2>0, <4>1
          DEF Apply, AttentionInv, FinalizerFollowed, SnapshotFresh, RecShape
        <4> QED
          BY <4>3, <4>4, <4>5, <4>6 DEF AttentionInv
      <3> QED
        BY <3>4, <3>5
    <2> QED
      BY <1>6, <2>1, <2>2 DEF Apply
  <1> QED
    BY <1>1, <1>2, <1>3, <1>4, <1>5, <1>6 DEF ReconcilerActs, ReconcileStep

LEMMA NextAttention == TypeOK /\ AttentionInv /\ [Next]_vars => AttentionInv'
  <1> SUFFICES ASSUME TypeOK, AttentionInv, [Next]_vars PROVE AttentionInv'
    OBVIOUS
  <1>1. CASE \/ RunnerActs \/ SubscriberActs \/ Subscribes \/ LosesEvent \/ UNCHANGED vars
             \/ SecretSync \/ \E i \in Images : EvictImage(i) \/ KubeletPull(i)
    BY <1>1, FrameAttention
    DEF RunnerActs, SubscriberActs, Subscribes, LosesEvent, WatcherListFails, EvictImage,
        KubeletPull, SecretSync, vars, daemonVars, attentionVars, apiVars, recVars, envVars
  <1>s. CASE EditSecret
    <2>1. /\ UNCHANGED <<api, cache, requests, recPc, recNis, recObj>>
          /\ edits \in Nat /\ edits' = edits + 1
      BY <1>s, EditsAssumption DEF EditSecret, daemonVars, apiVars, recVars, TypeOK
    <2>2. Versions'
      <3>1. \A n \in NodeImageSets : api[n].uid \in Nat /\ cache[n].uid \in Nat
        BY DEF TypeOK, ReconcilerTypeOK, Nis
      <3> QED
        BY <2>1, <3>1 DEF AttentionInv, Versions
    <2> QED
      BY <2>1, <2>2 DEF AttentionInv, RecShape, SnapshotFresh, StatusFollowed,
                        FinalizerFollowed, WillReconcile
  <1>2. CASE WatcherActs
    <2>1. UNCHANGED <<api, cache, recPc, recNis, recObj, edits>> /\ requests \subseteq requests'
      BY <1>2
      DEF WatcherActs, WatcherStep, WatcherReceive, WatcherList, WatcherSend, apiVars, recVars,
          envVars
    <2> QED
      BY <2>1, RequestAttention
  <1>3. CASE ReconcilerActs
    BY <1>3, ReconcileAttention
  <1>4. ASSUME NEW n \in NodeImageSets, Starts(n) \/ Syncs(n) \/ Resyncs(n)
        PROVE  AttentionInv'
    <2>1. CASE Resyncs(n)
      BY <2>1, RequestAttention DEF Resyncs, Resync, recVars, envVars
    <2> QED
      BY <1>4, <2>1, StartAttention, SyncAttention
  <1>5. ASSUME NEW n \in NodeImageSets,
               CreateNodeImageSet(n) \/ UpdateNodeImageSet(n) \/ DeleteNodeImageSet(n)
        PROVE  AttentionInv'
    BY <1>5, EditAttention
  <1>6. CASE Restart
    BY <1>6, RestartAttention
  <1> QED
    BY <1>1, <1>s, <1>2, <1>3, <1>4, <1>5, <1>6, CollectorAttention DEF Next, Environment

(***************************************************************************)
(* The inductive invariant behind StatusIsFollowed: Reconcile either works *)
(* on what the cache holds or will be called again, and the cache never    *)
(* runs ahead of the API server.                                           *)
(***************************************************************************)
THEOREM AttentionInvariant == Spec => []AttentionInv
  BY InitAttention, NextAttention, TypeCorrect, PTL DEF Spec

(***************************************************************************)
(* A NodeImageSet whose status is not yet complete and current, or that is *)
(* being deleted, always has a reconcile in progress or to come, even when *)
(* delete events are lost: no conflict, failed call, edit or restart makes *)
(* the controller drop it.                                                 *)
(***************************************************************************)
THEOREM StatusIsFollowed == Spec => []StatusFollowed
  BY AttentionInvariant, PTL DEF AttentionInv

-----------------------------------------------------------------------------
(***************************************************************************)
(* What keeps a missing image from being forgotten.                        *)
(***************************************************************************)

\* The loss of image i has been, or will be, brought to NodeImageSet n, as far
\* as the cache tells that n wants it.
Heeded(n, i) == n \in requests \/ WillNotify(n, i) \/ n \notin Wanting(i)

\* An image the reconcile in progress counted as downloaded and that is gone
\* by now is heeded.
Counted ==
    /\ recPc # "count" => recDownloaded = {}
    /\ recNis # None => \A i \in recDownloaded \ present : Heeded(recNis, i)

\* The watcher announces one deletion at a time.
OneDeletion == watchImage # None => watchTodo = {}

WorkInv == Counted /\ OneDeletion /\ NoLostWork

LEMMA InitWork == Init => WorkInv
  BY DEF Init, PullerInit, WatcherInit, ReconcilerInit, LoopInit, WorkInv, Counted, OneDeletion,
         NoLostWork, Desired, NoNis

\* Without lost events, an image that disappears leaves an event behind.
LEMMA EvictionAnnounced ==
  ASSUME TypeOK, ~LoseEvents, [Next]_vars, ~Restart, NEW i \in present \ present'
  PROVE  events'[i] > 0
  <1>1. CASE RunnerActs
    BY <1>1
    DEF RunnerActs, RunnerStep, RunnerGet, RunnerIsImageExists, RunnerDone, PullImage, PullLoad,
        PullCheck, PullTryStart, PullRecheck, PullTransfer, ClientPullImage, PullStop, PullRecord
  <1>2. CASE SubscriberActs \/ Subscribes \/ LosesEvent \/ WatcherActs
    BY <1>2
    DEF SubscriberActs, SubscriberStep, SubscriberReceive, SubscriberVisit, SubscriberClearError,
        Subscribes, Subscribe, LosesEvent, StreamBreak, SubscriberDrop, WatcherListFails,
        WatcherActs, WatcherStep, WatcherReceive, SubscriberSend, WatcherList, WatcherSend, runnerVars
  <1>3. CASE ReconcilerActs
    BY <1>3
    DEF ReconcilerActs, ReconcileStep, RemoveFinalizer, AddFinalizer, Prepare, AskContainerd,
        ReadPulling, ReadError, EnqueueTask, StartCount, Apply, runnerVars
  <1>4. CASE \E n \in NodeImageSets : Starts(n) \/ Syncs(n) \/ Resyncs(n)
    BY <1>4 DEF Starts, StartReconcile, Syncs, CacheSync, Resyncs, Resync, runnerVars
  <1>5. CASE \E n \in NodeImageSets :
               \/ CreateNodeImageSet(n) \/ UpdateNodeImageSet(n) \/ DeleteNodeImageSet(n)
               \/ CollectorRemovesFinalizer(n)
    BY <1>5
    DEF CreateNodeImageSet, UpdateNodeImageSet, DeleteNodeImageSet, CollectorRemovesFinalizer,
        Edit, runnerVars
  <1>6. ASSUME NEW j \in Images, EvictImage(j) \/ KubeletPull(j)
        PROVE  events'[i] > 0
    BY <1>6 DEF EvictImage, KubeletPull, TypeOK, PullerTypeOK
  <1>7. CASE UNCHANGED vars \/ EditSecret \/ SecretSync
    BY <1>7 DEF EditSecret, SecretSync, vars, daemonVars, runnerVars
  <1> QED
    BY <1>1, <1>2, <1>3, <1>4, <1>5, <1>6, <1>7 DEF Next, Environment

\* The news of a deletion travels from containerd to the work queue and is
\* dropped on the way only for a NodeImageSet the cache knows not to want it.
LEMMA HeededStays ==
  ASSUME TypeOK, OneDeletion, ~LoseEvents, [Next]_vars, ~Restart,
         NEW n \in NodeImageSets, NEW i \in Images, Heeded(n, i), ~Starts(n)
  PROVE  Heeded(n, i)'
  <1> DEFINE newsVars == <<events, subImage, watchVars, requests, cache>>
  <1>0. UNCHANGED newsVars => Heeded(n, i)'
    BY DEF Heeded, WillNotify, Wanting, watchVars
  <1>1. CASE RunnerActs \/ Subscribes
    BY <1>0, <1>1
    DEF RunnerActs, RunnerStep, RunnerGet, RunnerIsImageExists, RunnerDone, PullImage, PullLoad,
        PullCheck, PullTryStart, PullRecheck, PullTransfer, PullStop, PullRecord, Subscribes,
        Subscribe, subVars, apiVars
  <1>2. CASE SubscriberActs
    <2>1. CASE SubscriberVisit \/ SubscriberClearError
      BY <1>0, <1>2, <2>1 DEF SubscriberActs, SubscriberVisit, SubscriberClearError, apiVars
    <2>2. CASE SubscriberReceive
      <3>1. PICK j \in Images : subImage' = j /\ events' = [events EXCEPT ![j] = @ - 1]
        BY <2>2 DEF SubscriberReceive
      <3>2. subImage # i
        BY <2>2, NoneAssumption DEF SubscriberReceive
      <3>3. events[i] > 0 => events'[i] > 0 \/ subImage' = i
        BY <3>1 DEF TypeOK, PullerTypeOK
      <3>4. UNCHANGED <<watchVars, requests, cache>>
        BY <1>2 DEF SubscriberActs, apiVars
      <3> QED
        BY <3>2, <3>3, <3>4 DEF Heeded, WillNotify, Wanting, watchVars
    <2> QED
      BY <1>2, <2>1, <2>2 DEF SubscriberActs, SubscriberStep
  <1>3. CASE LosesEvent
    BY <1>3 DEF LosesEvent, StreamBreak, SubscriberDrop, WatcherListFails
  <1>4. CASE WatcherActs
    <2>1. CASE WatcherReceive
      BY <2>1, NoneAssumption
      DEF WatcherReceive, SubscriberSend, Heeded, WillNotify, Wanting, apiVars
    <2>2. CASE WatcherList
      <3>1. /\ watchImage # None /\ watchTodo = {} /\ watchTodo' = Wanting(watchImage)
            /\ UNCHANGED <<events, subImage, requests, cache>>
        BY <2>2 DEF WatcherList, OneDeletion, apiVars, runnerVars, subVars
      <3>2. CASE watchImage = i
        BY <3>1, <3>2 DEF Heeded, WillNotify, Wanting
      <3>3. CASE watchImage # i
        BY <3>1, <3>3 DEF Heeded, WillNotify, Wanting
      <3> QED
        BY <3>2, <3>3
    <2>3. CASE WatcherSend
      BY <2>3 DEF WatcherSend, Heeded, WillNotify, Wanting, runnerVars, subVars
    <2> QED
      BY <1>4, <2>1, <2>2, <2>3 DEF WatcherActs, WatcherStep
  <1>5. CASE ReconcilerActs
    <2>1. UNCHANGED <<events, subImage, watchVars, cache>> /\ requests \subseteq requests'
      BY <1>5
      DEF ReconcilerActs, ReconcileStep, RemoveFinalizer, AddFinalizer, Prepare, AskContainerd,
          ReadPulling, ReadError, EnqueueTask, StartCount, Apply, Finish, GotoRec, apiVars,
          runnerVars, subVars
    <2> QED
      BY <2>1 DEF Heeded, WillNotify, Wanting, watchVars
  <1>6. ASSUME NEW m \in NodeImageSets, Starts(m) \/ Syncs(m) \/ Resyncs(m)
        PROVE  Heeded(n, i)'
    <2>1. UNCHANGED <<events, subImage, watchVars>>
      BY <1>6
      DEF Starts, StartReconcile, Syncs, CacheSync, Resyncs, Resync, runnerVars, subVars
    <2>2. n \in requests' \/ (cache'[n] = cache[n] /\ (n \in requests => n \in requests'))
      BY <1>6
      DEF Starts, StartReconcile, Syncs, CacheSync, Resyncs, Resync, TypeOK, ReconcilerTypeOK
    <2> QED
      BY <2>1, <2>2 DEF Heeded, WillNotify, Wanting, watchVars
  <1>7. CASE \E m \in NodeImageSets :
               \/ CreateNodeImageSet(m) \/ UpdateNodeImageSet(m) \/ DeleteNodeImageSet(m)
               \/ CollectorRemovesFinalizer(m)
    BY <1>0, <1>7
    DEF CreateNodeImageSet, UpdateNodeImageSet, DeleteNodeImageSet, CollectorRemovesFinalizer,
        Edit, runnerVars, subVars
  <1>8. ASSUME NEW j \in Images, EvictImage(j) \/ KubeletPull(j)
        PROVE  Heeded(n, i)'
    <2>1. UNCHANGED <<subImage, watchVars, requests, cache>> /\ (events[i] > 0 => events'[i] > 0)
      BY <1>8 DEF EvictImage, KubeletPull, TypeOK, PullerTypeOK, apiVars, subVars
    <2> QED
      BY <2>1 DEF Heeded, WillNotify, Wanting, watchVars
  <1>9. CASE UNCHANGED vars \/ EditSecret \/ SecretSync
    BY <1>0, <1>9 DEF EditSecret, SecretSync, vars, daemonVars, runnerVars, subVars, apiVars
  <1> QED
    BY <1>1, <1>2, <1>3, <1>4, <1>5, <1>6, <1>7, <1>8, <1>9 DEF Next, Environment

\* The four ways a step of Reconcile ends: it goes on; it returns and is queued
\* again; it has removed the finalizer; it has reported the object complete.
GoesOn ==
    /\ UNCHANGED <<api, recNis, requests>>
    /\ recDownloaded' \subseteq recDownloaded \cup present
    /\ recPc' # "count" => recDownloaded' = {}

Returns == /\ recPc' = "idle" /\ recNis' = None /\ recDownloaded' = {}
           /\ \A m \in NodeImageSets \ {recNis} : api'[m] = api[m]

ReturnsAgain     == Returns /\ requests' = requests \cup {recNis}
ReturnsFinalized == Returns /\ UNCHANGED requests /\ ~api'[recNis].live
ReturnsComplete  == Returns /\ UNCHANGED requests /\ AllDownloaded

LEMMA ReconcileKinds ==
  ASSUME TypeOK, Counted, ReconcilerActs
  PROVE  /\ UNCHANGED <<cache, present>>
         /\ GoesOn \/ ReturnsAgain \/ ReturnsFinalized \/ ReturnsComplete
  <1>t. api \in [NodeImageSets -> Nis]
    BY DEF TypeOK, ReconcilerTypeOK
  <1>1. UNCHANGED <<cache, present>>
    BY DEF ReconcilerActs, ReconcileStep, RemoveFinalizer, AddFinalizer, Prepare, AskContainerd,
           ReadPulling, ReadError, EnqueueTask, StartCount, Apply, apiVars, runnerVars
  <1>2. CASE RemoveFinalizer
    <2>1. recNis \in NodeImageSets
      BY <1>2 DEF RemoveFinalizer, TypeOK, ReconcilerTypeOK
    <2>2. CASE Finish(TRUE) /\ UNCHANGED api
      BY <1>1, <2>2 DEF Finish, ReturnsAgain, Returns
    <2>3. CASE Update(NoNis) /\ Finish(FALSE)
      BY <1>1, <1>t, <2>1, <2>3 DEF Update, Finish, ReturnsFinalized, Returns, NoNis
    <2> QED
      BY <1>1, <1>2, <2>2, <2>3 DEF RemoveFinalizer
  <1>3. CASE AddFinalizer
    <2>1. Finish(TRUE) /\ \A m \in NodeImageSets \ {recNis} : api'[m] = api[m]
      BY <1>3, <1>t DEF AddFinalizer, Update
    <2> QED
      BY <1>1, <2>1 DEF Finish, ReturnsAgain, Returns
  <1>4. CASE Prepare
    <2>1. CASE Finish(TRUE)
      BY <1>1, <1>4, <2>1 DEF Prepare, Finish, ReturnsAgain, Returns
    <2>2. CASE GotoRec("collect") /\ UNCHANGED recDownloaded
      BY <1>1, <1>4, <2>2 DEF Prepare, GotoRec, GoesOn, Counted
    <2> QED
      BY <1>4, <2>1, <2>2 DEF Prepare
  <1>5. CASE AskContainerd
    <2>1. UNCHANGED <<api, recNis, requests, recPc>>
      BY <1>5 DEF AskContainerd, apiVars
    <2>2. /\ recDownloaded' \subseteq recDownloaded \cup present
          /\ recPc # "count" => recDownloaded' = recDownloaded
      BY <1>5 DEF AskContainerd, Answer
    <2> QED
      BY <1>1, <2>1, <2>2 DEF GoesOn, Counted
  <1>6. CASE ReadPulling \/ ReadError
    <2>1. UNCHANGED <<api, recNis, requests, recPc, recDownloaded>>
      BY <1>6 DEF ReadPulling, ReadError, Answer, StatusOfError, apiVars
    <2> QED
      BY <1>1, <2>1 DEF GoesOn, Counted
  <1>7. CASE EnqueueTask \/ StartCount
    BY <1>1, <1>7 DEF EnqueueTask, StartCount, GotoRec, GoesOn, Counted, apiVars
  <1>8. CASE Apply
    <2>1. CASE Finish(TRUE) /\ UNCHANGED api
      BY <1>1, <2>1 DEF Finish, ReturnsAgain, Returns
    <2>2. CASE /\ api' = [api EXCEPT ![recNis] = Reported(@)]
               /\ Finish(~AllDownloaded)
      <3>1. \A m \in NodeImageSets \ {recNis} : api'[m] = api[m]
        BY <1>t, <2>2
      <3>2. CASE AllDownloaded
        BY <1>1, <2>2, <3>1, <3>2 DEF Finish, ReturnsComplete, Returns
      <3>3. CASE ~AllDownloaded
        BY <1>1, <2>2, <3>1, <3>3 DEF Finish, ReturnsAgain, Returns
      <3> QED
        BY <3>2, <3>3
    <2> QED
      BY <1>8, <2>1, <2>2 DEF Apply
  <1> QED
    BY <1>1, <1>2, <1>3, <1>4, <1>5, <1>6, <1>7, <1>8 DEF ReconcilerActs, ReconcileStep

\* Steps outside Reconcile leave its activation record alone.
LEMMA ReconcileUndisturbed ==
  ASSUME [Next]_vars, ~ReconcilerActs, ~Restart, \A n \in NodeImageSets : ~Starts(n)
  PROVE  UNCHANGED <<recPc, recNis, recObj, recDownloaded>>
  BY DEF Next, RunnerActs, SubscriberActs, Subscribes, LosesEvent, WatcherListFails, WatcherActs,
         WatcherStep, WatcherReceive, WatcherList, WatcherSend, Syncs, CacheSync, Resyncs, Resync,
         Environment, CreateNodeImageSet, UpdateNodeImageSet, DeleteNodeImageSet,
         CollectorRemovesFinalizer, Edit, EditSecret, SecretSync, EvictImage, KubeletPull,
         vars, daemonVars, recVars, loopVars

\* Outside Reconcile and edits the API server's objects stay; outside Syncs
\* and Restart the cache does.
LEMMA ObjectsUndisturbed ==
  ASSUME [Next]_vars, ~ReconcilerActs, ~Restart, NEW n \in NodeImageSets, TypeOK,
         ~(CreateNodeImageSet(n) \/ UpdateNodeImageSet(n) \/ DeleteNodeImageSet(n)),
         ~CollectorRemovesFinalizer(n)
  PROVE  /\ api'[n] = api[n]
         /\ cache'[n] = cache[n] \/ n \in requests'
  <1> USE DEF TypeOK, ReconcilerTypeOK
  <1>1. CASE \/ RunnerActs \/ SubscriberActs \/ Subscribes \/ LosesEvent \/ UNCHANGED vars
             \/ WatcherActs \/ EditSecret \/ SecretSync
             \/ \E i \in Images : EvictImage(i) \/ KubeletPull(i)
    BY <1>1
    DEF RunnerActs, SubscriberActs, Subscribes, LosesEvent, WatcherListFails, EvictImage,
        KubeletPull, EditSecret, SecretSync, vars, daemonVars, apiVars, WatcherActs, WatcherStep,
        WatcherReceive, WatcherList, WatcherSend
  <1>2. ASSUME NEW m \in NodeImageSets, Starts(m) \/ Syncs(m) \/ Resyncs(m)
        PROVE  api'[n] = api[n] /\ (cache'[n] = cache[n] \/ n \in requests')
    BY <1>2 DEF Starts, StartReconcile, Syncs, CacheSync, Resyncs, Resync
  <1>3. ASSUME NEW m \in NodeImageSets,
               \/ CreateNodeImageSet(m) \/ UpdateNodeImageSet(m) \/ DeleteNodeImageSet(m)
               \/ CollectorRemovesFinalizer(m)
        PROVE  api'[n] = api[n] /\ cache' = cache
    <2>1. PICK obj : Edit(m, obj)
      BY <1>3 DEF CreateNodeImageSet, UpdateNodeImageSet, DeleteNodeImageSet,
                  CollectorRemovesFinalizer
    <2>2. m # n
      BY <1>3
    <2> QED
      BY <2>1, <2>2 DEF Edit
  <1> QED
    BY <1>1, <1>2, <1>3 DEF Next, Environment

LEMMA CountedStep ==
  ASSUME TypeOK, RecShape, Counted, OneDeletion, ~LoseEvents, [Next]_vars
  PROVE  Counted'
  <1>1. CASE Restart
    BY <1>1 DEF Restart, Counted
  <1>2. ASSUME ~Restart, NEW n \in NodeImageSets, Starts(n)
        PROVE  Counted'
    BY <1>2 DEF Starts, StartReconcile, loopVars, RecShape, Counted
  <1>3. ASSUME ~Restart, \A n \in NodeImageSets : ~Starts(n), recNis' = recNis,
               recDownloaded' \subseteq recDownloaded \cup (present \cap present'),
               recPc' # "count" => recDownloaded' = {}
        PROVE  Counted'
    <2> SUFFICES ASSUME recNis # None, NEW i \in recDownloaded' \ present'
                 PROVE  Heeded(recNis, i)'
      BY <1>3 DEF Counted
    <2>1. recNis \in NodeImageSets /\ i \in Images /\ i \in recDownloaded
      BY <1>3 DEF TypeOK, ReconcilerTypeOK
    <2>2. CASE i \in present
      BY <1>3, <2>2, EvictionAnnounced DEF Heeded, WillNotify
    <2>3. CASE i \notin present
      BY <1>3, <2>1, <2>3, HeededStays DEF Counted
    <2> QED
      BY <2>2, <2>3
  <1>4. ASSUME ~Restart, ReconcilerActs, \A n \in NodeImageSets : ~Starts(n)
        PROVE  Counted'
    <2>1. CASE GoesOn
      <3>1. present' = present
        BY <1>4, ReconcileKinds
      <3> QED
        BY <1>3, <1>4, <2>1, <3>1 DEF GoesOn
    <2>2. CASE ~GoesOn
      BY <1>4, <2>2, ReconcileKinds
      DEF ReturnsAgain, ReturnsFinalized, ReturnsComplete, Returns, Counted
    <2> QED
      BY <2>1, <2>2
  <1>5. ASSUME ~Restart, ~ReconcilerActs, \A n \in NodeImageSets : ~Starts(n)
        PROVE  Counted'
    <2>1. UNCHANGED <<recPc, recNis, recDownloaded>>
      BY <1>5, ReconcileUndisturbed
    <2> SUFFICES ASSUME recNis # None, NEW i \in recDownloaded \ present'
                 PROVE  Heeded(recNis, i)'
      BY <2>1 DEF Counted
    <2>2. recNis \in NodeImageSets /\ i \in Images
      BY DEF TypeOK, ReconcilerTypeOK
    <2>3. CASE i \in present
      BY <1>5, <2>3, EvictionAnnounced DEF Heeded, WillNotify
    <2>4. CASE i \notin present
      BY <1>5, <2>1, <2>2, <2>4, HeededStays DEF Counted
    <2> QED
      BY <2>3, <2>4
  <1> QED
    BY <1>1, <1>2, <1>4, <1>5

LEMMA OneDeletionStep == TypeOK /\ OneDeletion /\ [Next]_vars => OneDeletion'
  <1> SUFFICES ASSUME OneDeletion, [Next]_vars PROVE OneDeletion'
    OBVIOUS
  <1>1. CASE WatcherActs
    BY <1>1 DEF WatcherActs, WatcherStep, WatcherReceive, WatcherList, WatcherSend, OneDeletion
  <1>2. CASE LosesEvent \/ Restart
    BY <1>2 DEF LosesEvent, WatcherListFails, Restart, watchVars, OneDeletion
  <1>3. CASE UNCHANGED watchVars
    BY <1>3 DEF watchVars, OneDeletion
  <1> QED
    BY <1>1, <1>2, <1>3
    DEF Next, RunnerActs, SubscriberActs, Subscribes, ReconcilerActs, Starts, Syncs, Resyncs,
        Environment, CreateNodeImageSet, UpdateNodeImageSet, DeleteNodeImageSet,
        CollectorRemovesFinalizer, Edit, EditSecret, SecretSync, EvictImage, KubeletPull,
        vars, daemonVars

\* NoLostWork, image by image.
Cared(n, i) == cache[n] # api[n] \/ (recNis = n /\ i \notin recDownloaded) \/ Heeded(n, i)

LEMMA NoLostWorkStep ==
  ASSUME TypeOK, AttentionInv, WorkInv, ~LoseEvents, [Next]_vars
  PROVE  NoLostWork'
  <1> SUFFICES ASSUME NEW n \in NodeImageSets, NEW i \in Images, Desired(n, i)', i \notin present'
               PROVE  Cared(n, i)'
    BY DEF NoLostWork, Desired, Cared, Heeded, Wanting, WillReconcile
  <1> DEFINE edit == CreateNodeImageSet(n) \/ UpdateNodeImageSet(n) \/ DeleteNodeImageSet(n)
  <1>1. CASE Restart
    BY <1>1 DEF Restart, Desired, Cared, Heeded
  <1>2. CASE edit
    BY <1>2, EditAttention DEF Desired, Cared
  <1>3. ASSUME ~Restart, i \in present PROVE Cared(n, i)'
    BY <1>3, EvictionAnnounced DEF Cared, Heeded, WillNotify
  <1>c. CASE CollectorRemovesFinalizer(n) /\ i \notin present
    <2>1. /\ UNCHANGED <<cache, requests, recNis, recDownloaded, events, subImage, watchVars>>
          /\ api[n].live /\ api[n].finalizer /\ api[n] \in Nis
      BY <1>c DEF CollectorRemovesFinalizer, Edit, recVars, loopVars, runnerVars, subVars,
                  TypeOK, ReconcilerTypeOK
    <2>2. /\ ~api[n].deleting /\ api'[n] = [api[n] EXCEPT !.finalizer = FALSE]
      BY <1>c DEF CollectorRemovesFinalizer, Edit, Desired, NoNis, TypeOK, ReconcilerTypeOK
    <2>3. ~api'[n].deleting /\ ~api'[n].finalizer /\ api'[n].live /\ i \in api[n].images
      BY <2>1, <2>2 DEF Desired, Nis
    <2> SUFFICES ASSUME cache[n] = api'[n], recNis = n => i \in recDownloaded
                 PROVE  Heeded(n, i)
      BY <2>1 DEF Cared, Heeded, WillNotify, Wanting, watchVars
    <2>4. n \in requests \/ recNis = n
      BY <2>3 DEF AttentionInv, FinalizerFollowed
    <2> QED
      BY <1>c, <2>4, NoneAssumption DEF Heeded, WorkInv, Counted
  <1>4. ASSUME ~Restart, ~edit, ~CollectorRemovesFinalizer(n), i \notin present
        PROVE  Cared(n, i)'
    <2>h. ~Starts(n) /\ Heeded(n, i) => Cared(n, i)'
      BY <1>4, HeededStays DEF Cared, WorkInv
    <2>0. Desired(n, i) => Cared(n, i)
      BY <1>4 DEF WorkInv, NoLostWork, WillReconcile, Cared, Heeded
    <2>1. CASE Starts(n)
      <3>1. UNCHANGED <<api, cache>>
        BY <2>1 DEF Starts, StartReconcile
      <3>2. CASE recNis' = None
        <4>1. ~cache[n].live \/ cache[n].deleting
          BY <2>1, <3>2, NoneAssumption DEF Starts, StartReconcile
        <4> QED
          BY <3>1, <4>1 DEF Desired, Cared
      <3>3. CASE recNis' # None
        <4>1. recNis' = n /\ recDownloaded' = {}
          BY <2>1, <3>3
          DEF Starts, StartReconcile, loopVars, AttentionInv, RecShape, WorkInv, Counted
        <4> QED
          BY <4>1 DEF Cared
      <3> QED
        BY <3>2, <3>3
    <2>2. ASSUME NEW m \in NodeImageSets, Starts(m), ~Starts(n) PROVE Cared(n, i)'
      <3>1. UNCHANGED <<api, cache>> /\ recNis = None
        BY <2>2 DEF Starts, StartReconcile, AttentionInv, RecShape
      <3>2. Desired(n, i) /\ n # None
        BY <3>1, NoneAssumption DEF Desired
      <3> QED
        BY <2>0, <2>2, <2>h, <3>1, <3>2 DEF Cared
    <2>3. ASSUME ReconcilerActs, ~Starts(n) PROVE Cared(n, i)'
      <3>0. UNCHANGED <<cache, present>>
        BY <2>3, ReconcileKinds DEF WorkInv
      <3>1. CASE GoesOn
        BY <1>4, <2>0, <2>3, <2>h, <3>0, <3>1 DEF GoesOn, Desired, Cared
      <3>2. CASE Returns /\ n # recNis
        BY <2>0, <2>3, <2>h, <3>0, <3>2 DEF Returns, Desired, Cared
      <3>3. CASE n = recNis /\ ReturnsAgain
        BY <3>3 DEF ReturnsAgain, Cared, Heeded
      <3>4. CASE n = recNis /\ ReturnsFinalized
        BY <3>4 DEF ReturnsFinalized, Desired
      <3>5. CASE n = recNis /\ ReturnsComplete
        <4>1. n # None
          BY NoneAssumption
        <4>2. n \in requests \/ recDownloaded = cache[n].images
          BY <3>5, <4>1 DEF ReturnsComplete, AllDownloaded, AttentionInv, SnapshotFresh
        <4>3. CASE i \in recDownloaded
          BY <1>4, <2>3, <2>h, <3>5, <4>1, <4>3 DEF WorkInv, Counted
        <4>4. CASE i \notin recDownloaded
          BY <2>3, <2>h, <4>2, <4>4 DEF Heeded, Wanting
        <4> QED
          BY <4>3, <4>4
      <3> QED
        BY <2>3, <3>1, <3>2, <3>3, <3>4, <3>5, ReconcileKinds
        DEF WorkInv, ReturnsAgain, ReturnsFinalized, ReturnsComplete
    <2>4. ASSUME ~ReconcilerActs, \A m \in NodeImageSets : ~Starts(m) PROVE Cared(n, i)'
      <3>1. UNCHANGED <<recNis, recDownloaded>>
        BY <1>4, <2>4, ReconcileUndisturbed
      <3>2. api'[n] = api[n] /\ (cache'[n] = cache[n] \/ n \in requests')
        BY <1>4, <2>4, ObjectsUndisturbed
      <3>3. Desired(n, i)
        BY <3>2 DEF Desired
      <3> QED
        BY <2>0, <2>4, <2>h, <3>1, <3>2, <3>3 DEF Cared, Heeded
    <2> QED
      BY <2>1, <2>2, <2>3, <2>4
  <1> QED
    BY <1>1, <1>2, <1>3, <1>c, <1>4

(***************************************************************************)
(* As long as every eviction reaches the daemon as an event, a desired     *)
(* image that is missing on the node is never overlooked: whatever the     *)
(* interleaving of reconciles, evictions, edits, failed calls and restarts,*)
(* a reconcile that will see it is in progress or to come.                 *)
(***************************************************************************)
THEOREM WorkIsNeverLost ==
  ASSUME ~LoseEvents
  PROVE  Spec => []NoLostWork
  <1>1. TypeOK /\ AttentionInv /\ WorkInv /\ [Next]_vars => WorkInv'
    BY CountedStep, OneDeletionStep, NoLostWorkStep DEF WorkInv, AttentionInv
  <1>2. Spec => []WorkInv
    BY <1>1, InitWork, TypeCorrect, AttentionInvariant, PTL DEF Spec
  <1> QED
    BY <1>2, PTL DEF WorkInv

-----------------------------------------------------------------------------
(***************************************************************************)
(* What the reconciler, the runner and the delete-event subscriber may     *)
(* rely on in the ImagePuller's table.                                     *)
(***************************************************************************)

\* Only the entries of tracked NodeImageSets carry errors.
UntrackedFresh == \A n \in NodeImageSets, i \in Images : lastError[n][i] # NoError => n \in tracked

\* The entry the runner holds belongs to a tracked NodeImageSet.
HeldTracked == pullHeld => pullPc \in PullPcs \ {"idle", "exists", "load", "returned"}
                           /\ pullTask.nis \in tracked

\* The table has no error for the task the runner is pulling for, nor for one
\* whose NodeImageSet was deleted under it.
TaskFresh == HoldsEntry \/ (pullPc \in {"check", "try"} /\ ~pullHeld) =>
                lastError[pullTask.nis][pullTask.ref] = NoError

TableInv == UntrackedFresh /\ HeldTracked /\ TaskFresh /\ PullFlag

USE DEF HoldsEntry, Runs

\* All that TableInv speaks of.
LEMMA FrameTable == TableInv /\ UNCHANGED <<tableVars, pullVars>> => TableInv'
  BY DEF TableInv, UntrackedFresh, HeldTracked, TaskFresh, PullFlag, tableVars, pullVars

LEMMA InitTable == Init => TableInv
  BY DEF Init, PullerInit, TableInv, UntrackedFresh, HeldTracked, TaskFresh, PullFlag

LEMMA TaskType == TypeOK /\ pullPc # "idle" =>
                     pullTask.nis \in NodeImageSets /\ pullTask.ref \in Images
  BY RunningTask DEF TypeOK

\* At the end of a pull, and before it, no flag is up.
LEMMA NoFlags ==
  ASSUME TypeOK, PullFlag, pullPc \notin {"recheck", "transfer", "stop"} \/ ~pullHeld
  PROVE  \A n \in NodeImageSets : pulling[n] = {}
  BY DEF PullFlag, TypeOK, PullerTypeOK

LEMMA StopTable ==
  ASSUME TypeOK, PullFlag, pullPc # "idle", StopPulling
  PROVE  \A n \in NodeImageSets : pulling'[n] = {}
  <1>1. pullTask.nis \in NodeImageSets /\ pullTask.ref \in Images
    BY TaskType
  <1>2. CASE pullHeld
    BY <1>1, <1>2 DEF StopPulling, PullFlag, TypeOK, PullerTypeOK
  <1>3. CASE ~pullHeld
    BY <1>3, NoFlags DEF StopPulling
  <1> QED
    BY <1>2, <1>3

LEMMA PullTable ==
  ASSUME TypeOK, TableInv, PullImage
  PROVE  TableInv'
  <1>0. pullPc # "idle" /\ pullTask' = pullTask /\ tracked' = tracked
    BY DEF PullImage, PullLoad, PullCheck, PullTryStart, PullRecheck, PullTransfer, PullStop,
           PullRecord, Return, Goto, tableVars
  <1>t. pullTask.nis \in NodeImageSets /\ pullTask.ref \in Images
    BY <1>0, TaskType
  <1> USE DEF UntrackedFresh, HeldTracked, TaskFresh, PullPcs
  <1>1. CASE PullLoad \/ PullCheck
    <2>1. UNCHANGED tableVars /\ \A n \in NodeImageSets : pulling[n] = {}
      BY <1>1, NoFlags DEF PullLoad, PullCheck, TableInv
    <2> QED
      BY <1>1, <1>0, <2>1 DEF PullLoad, PullCheck, Return, Goto, tableVars, TableInv, PullFlag
  <1>2. CASE PullTryStart
    <2>1. \A n \in NodeImageSets : pulling[n] = {}
      BY <1>2, NoFlags DEF PullTryStart, TableInv
    <2>2. Goto("recheck") /\ StartPulling
      BY <1>2, <1>t, <2>1 DEF PullTryStart
    <2>3. CASE pullHeld
      <3>1. /\ pulling' = [pulling EXCEPT ![pullTask.nis] = @ \cup {pullTask.ref}]
            /\ lastError' = [lastError EXCEPT ![pullTask.nis][pullTask.ref] = NoError]
        BY <2>2, <2>3 DEF StartPulling
      <3>2. \A n \in NodeImageSets, i \in Images :
               /\ lastError'[n][i] # NoError => lastError[n][i] # NoError
               /\ n = pullTask.nis /\ i = pullTask.ref => lastError'[n][i] = NoError
        BY <3>1, <1>t DEF TypeOK, PullerTypeOK
      <3>3. PullFlag'
        BY <1>0, <1>t, <2>1, <2>2, <2>3, <3>1 DEF PullFlag, Goto, TypeOK, PullerTypeOK
      <3> QED
        BY <1>0, <1>t, <1>2, <2>2, <2>3, <3>2, <3>3 DEF Goto, PullTryStart, TableInv
    <2>4. CASE ~pullHeld
      BY <1>0, <1>2, <2>1, <2>2, <2>4 DEF StartPulling, Goto, PullTryStart, TableInv, PullFlag
    <2> QED
      BY <2>3, <2>4
  <1>3. CASE PullRecheck
    <2>1. lastError' = lastError
      BY <1>3 DEF PullRecheck
    <2>2. CASE StopPulling /\ (Return(NoError) \/ Return("Other"))
      BY <1>0, <2>1, <2>2, StopTable DEF Return, TableInv, PullFlag
    <2>3. CASE Goto("transfer") /\ UNCHANGED pulling
      BY <1>0, <1>3, <2>1, <2>3 DEF Goto, PullRecheck, TableInv, PullFlag
    <2> QED
      BY <1>3, <2>2, <2>3 DEF PullRecheck
  <1>4. CASE PullTransfer
    BY <1>0, <1>4 DEF PullTransfer, tableVars, TableInv, PullFlag
  <1>5. CASE PullStop
    BY <1>0, <1>5, StopTable DEF PullStop, Goto, TableInv, PullFlag
  <1>6. CASE PullRecord
    <2>1. \A n \in NodeImageSets : pulling'[n] = {}
      BY <1>6, NoFlags DEF PullRecord, TableInv
    <2>2. \/ lastError' = lastError
          \/ pullHeld /\ lastError' = [lastError EXCEPT ![pullTask.nis][pullTask.ref] = pullResult]
      BY <1>6 DEF PullRecord, SetError
    <2>3. UntrackedFresh'
      BY <1>0, <1>t, <2>2 DEF TableInv, TypeOK, PullerTypeOK
    <2> QED
      BY <1>0, <1>6, <2>1, <2>3 DEF PullRecord, Return, TableInv, PullFlag
  <1> QED
    BY <1>1, <1>2, <1>3, <1>4, <1>5, <1>6 DEF PullImage

LEMMA RunnerTable ==
  ASSUME TypeOK, TableInv, RunnerStep
  PROVE  TableInv'
  <1>1. CASE PullImage
    BY <1>1, PullTable
  <1>2. CASE RunnerGet \/ RunnerIsImageExists \/ RunnerDone
    <2>1. UNCHANGED tableVars /\ \A n \in NodeImageSets : pulling[n] = {}
      BY <1>2, NoFlags DEF RunnerGet, RunnerIsImageExists, RunnerDone, TableInv
    <2>2. ~pullHeld' /\ pullPc' \in {"idle", "exists", "load", "returned"}
      BY <1>2 DEF RunnerGet, RunnerIsImageExists, RunnerDone, Return, Goto, TableInv, HeldTracked
    <2> QED
      BY <2>1, <2>2 DEF TableInv, UntrackedFresh, HeldTracked, TaskFresh, PullFlag, tableVars
  <1> QED
    BY <1>1, <1>2 DEF RunnerStep

\* Pruning or deleting entries, seen from the table.
LEMMA TrackTable ==
  ASSUME TypeOK, TableInv, NEW n \in NodeImageSets, NEW keep \in SUBSET Images,
         TrackNodeImageSet(n, keep)
  PROVE  TableInv'
  <1>1. UNCHANGED <<pullPc, pullTask>> /\ tracked' = tracked \cup {n}
    BY DEF TrackNodeImageSet
  <1>2. \A m \in NodeImageSets : /\ pulling'[m] \subseteq pulling[m]
                                 /\ m = n => pulling'[m] \subseteq keep
    BY DEF TrackNodeImageSet, TypeOK, PullerTypeOK
  <1>3. \A m \in NodeImageSets, i \in Images :
           /\ lastError'[m][i] # NoError => lastError[m][i] # NoError
           /\ m = n /\ i \notin keep => lastError'[m][i] = NoError
    BY DEF TrackNodeImageSet, TypeOK, PullerTypeOK
  <1>4. pullHeld' => pullHeld
    BY DEF TrackNodeImageSet
  <1>5. pullHeld /\ ~pullHeld' => HoldsEntry
    BY DEF TrackNodeImageSet
  <1>6. UntrackedFresh' /\ HeldTracked'
    BY <1>1, <1>3, <1>4 DEF TableInv, UntrackedFresh, HeldTracked
  <1>7. TaskFresh'
    BY <1>1, <1>3, <1>5, TaskType DEF TableInv, TaskFresh
  <1>h. pullHeld /\ ~(pullTask.nis = n /\ pullTask.ref \notin keep) => pullHeld'
    BY DEF TrackNodeImageSet
  <1>8. PullFlag'
    BY <1>1, <1>2, <1>h DEF TableInv, PullFlag
  <1> QED
    BY <1>6, <1>7, <1>8 DEF TableInv

LEMMA DeleteTable ==
  ASSUME TypeOK, TableInv, NEW n \in NodeImageSets, DeleteNodeImageSetStatus(n)
  PROVE  TableInv'
  <1>1. UNCHANGED <<pullPc, pullTask>> /\ tracked' = tracked \ {n}
        /\ (pullHeld' <=> pullHeld /\ pullTask.nis # n)
    BY DEF DeleteNodeImageSetStatus, TypeOK, PullerTypeOK
  <1>2. \A m \in NodeImageSets : pulling'[m] = IF m = n THEN {} ELSE pulling[m]
    BY DEF DeleteNodeImageSetStatus, TypeOK, PullerTypeOK
  <1>3. \A m \in NodeImageSets, i \in Images :
           lastError'[m][i] = IF m = n THEN NoError ELSE lastError[m][i]
    BY DEF DeleteNodeImageSetStatus, TypeOK, PullerTypeOK
  <1>4. UntrackedFresh' /\ HeldTracked'
    BY <1>1, <1>3 DEF TableInv, UntrackedFresh, HeldTracked
  <1>5. TaskFresh'
    BY <1>1, <1>3, TaskType DEF TableInv, TaskFresh
  <1>6. PullFlag'
    BY <1>1, <1>2 DEF TableInv, PullFlag
  <1> QED
    BY <1>4, <1>5, <1>6 DEF TableInv

LEMMA SubscriberTable ==
  ASSUME TypeOK, TableInv, SubscriberStep
  PROVE  TableInv'
  <1>1. CASE SubscriberReceive
    BY <1>1, FrameTable DEF SubscriberReceive
  <1>2. CASE SubscriberVisit
    <2>1. UNCHANGED <<tracked, lastError, pullVars>>
      BY <1>2 DEF SubscriberVisit
    <2>2. \A m \in NodeImageSets : pulling'[m] \subseteq pulling[m]
      BY <1>2 DEF SubscriberVisit, TypeOK, PullerTypeOK
    <2> QED
      BY <2>1, <2>2 DEF TableInv, UntrackedFresh, HeldTracked, TaskFresh, PullFlag, pullVars
  <1>3. CASE SubscriberClearError
    <2>1. UNCHANGED <<tracked, pulling, pullVars>>
      BY <1>3 DEF SubscriberClearError
    <2>2. \A m \in NodeImageSets, i \in Images :
             lastError'[m][i] # NoError => lastError[m][i] # NoError
      BY <1>3 DEF SubscriberClearError, ClearError, TypeOK, PullerTypeOK
    <2>3. TaskFresh'
      BY <2>1, <2>2, TaskType DEF TableInv, TaskFresh, pullVars
    <2> QED
      BY <2>1, <2>2, <2>3 DEF TableInv, UntrackedFresh, HeldTracked, PullFlag, pullVars
  <1> QED
    BY <1>1, <1>2, <1>3 DEF SubscriberStep

\* How the reconciler and the other goroutines touch the table.
LEMMA ReconcilerTouches ==
  ASSUME TypeOK, ReconcilerActs \/ \E n \in NodeImageSets : Starts(n)
  PROVE  \/ UNCHANGED <<tableVars, pullVars, subEntry>>
         \/ \E n \in NodeImageSets : DeleteNodeImageSetStatus(n)
         \/ \E n \in NodeImageSets, keep \in SUBSET Images : TrackNodeImageSet(n, keep)
  <1>1. CASE \E n \in NodeImageSets : Starts(n)
    BY <1>1 DEF Starts, StartReconcile
  <1>2. CASE ReconcilerActs /\ ~Prepare
    BY <1>2
    DEF ReconcilerActs, ReconcileStep, RemoveFinalizer, AddFinalizer, AskContainerd, ReadPulling,
        ReadError, EnqueueTask, StartCount, Apply, runnerVars, subVars
  <1>3. CASE Prepare
    <2>1. recNis \in NodeImageSets /\ recObj.images \in SUBSET Images
      BY <1>3, NisFields DEF Prepare, TypeOK, ReconcilerTypeOK
    <2> QED
      BY <1>3, <2>1 DEF Prepare
  <1> QED
    BY <1>1, <1>2, <1>3

LEMMA RestartTable == Restart => TableInv'
  <1> SUFFICES ASSUME Restart PROVE TableInv'
    OBVIOUS
  <1>1. /\ \A n \in NodeImageSets : pulling'[n] = {}
        /\ \A n \in NodeImageSets, i \in Images : lastError'[n][i] = NoError
        /\ pullPc' = "idle" /\ ~pullHeld'
    BY DEF Restart
  <1> QED
    BY <1>1 DEF TableInv, UntrackedFresh, HeldTracked, TaskFresh, PullFlag

\* Every other step leaves the table alone.
LEMMA OthersSpareTable ==
  ASSUME [Next]_vars, ~Restart, ~RunnerActs, ~SubscriberActs, ~ReconcilerActs,
         \A n \in NodeImageSets : ~Starts(n)
  PROVE  UNCHANGED <<tableVars, pullVars, subEntry, tasks>>
  BY DEF Next, Subscribes, Subscribe, LosesEvent, StreamBreak, SubscriberDrop, WatcherListFails,
         WatcherActs, WatcherStep, WatcherReceive, SubscriberSend, WatcherList, WatcherSend,
         Syncs, CacheSync, Resyncs, Resync, Environment, CreateNodeImageSet, UpdateNodeImageSet,
         DeleteNodeImageSet, CollectorRemovesFinalizer, Edit, EditSecret, SecretSync, EvictImage,
         KubeletPull, vars, daemonVars, runnerVars, subVars

LEMMA NextTable == TypeOK /\ TableInv /\ [Next]_vars => TableInv'
  <1> SUFFICES ASSUME TypeOK, TableInv, [Next]_vars PROVE TableInv'
    OBVIOUS
  <1>1. CASE RunnerActs
    BY <1>1, RunnerTable DEF RunnerActs
  <1>2. CASE SubscriberActs
    BY <1>2, SubscriberTable DEF SubscriberActs
  <1>3. CASE ReconcilerActs \/ \E n \in NodeImageSets : Starts(n)
    BY <1>3, ReconcilerTouches, FrameTable, DeleteTable, TrackTable
  <1>4. CASE Restart
    BY <1>4, RestartTable
  <1> QED
    BY <1>1, <1>2, <1>3, <1>4, OthersSpareTable, FrameTable

(***************************************************************************)
(* The inductive invariant about the table: which entries may carry errors *)
(* and flags while the runner, the reconciler and the subscriber use it.   *)
(***************************************************************************)
THEOREM TableInvariant == Spec => []TableInv
  BY InitTable, NextTable, TypeCorrect, PTL DEF Spec

(***************************************************************************)
(* A pulling flag is up only for the pull in progress and the entry it     *)
(* holds, however entries are pruned, deleted, created again or cleared by *)
(* delete events meanwhile, so that no flag left behind can stop an image  *)
(* from being pulled.                                                      *)
(***************************************************************************)
THEOREM FlagIsTruthful == Spec => []PullFlag
  BY TableInvariant, PTL DEF TableInv

-----------------------------------------------------------------------------
(***************************************************************************)
(* What brings a missing image with an error back.                         *)
(***************************************************************************)

\* The runner's own retry of image i, as long as i is missing.
LEMMA RunnerRetry ==
  ASSUME TypeOK, TableInv, RunnerStep, NEW n \in NodeImageSets, NEW i \in Images,
         i \notin present, lastError'[n][i] # NoError,
         lastError[n][i] = NoError \/ WillRetry(n, i)
  PROVE  WillRetry(n, i)'
  <1>t. tasks \in [Task -> Nat] /\ (pullPc # "idle" => pullTask \in Task)
    BY DEF TypeOK, RunnerTypeOK, PullerTypeOK
  <1>1. CASE RunnerGet
    <2>1. PICK t \in Task : pullTask' = t /\ tasks' = [tasks EXCEPT ![t] = @ - 1]
                            /\ pullPc' = "exists" /\ pullPc = "idle" /\ lastError' = lastError
      BY <1>1 DEF RunnerGet, tableVars
    <2>2. PICK u \in Task : u.nis = n /\ u.ref = i /\ tasks[u] > 0
      BY <2>1 DEF WillRetry
    <2>3. CASE t = u
      BY <2>1, <2>2, <2>3 DEF WillRetry
    <2>4. CASE t # u
      BY <1>t, <2>1, <2>2, <2>4 DEF WillRetry
    <2> QED
      BY <2>3, <2>4
  <1>2. CASE RunnerDone
    <2>1. /\ pullPc = "returned" /\ lastError' = lastError
          /\ tasks' = [tasks EXCEPT ![pullTask] = @ + Requeue(pullResult)]
      BY <1>2 DEF RunnerDone, tableVars
    <2>2. \A t \in Task : /\ tasks'[t] >= tasks[t]
                          /\ t = pullTask /\ pullResult # NoError => tasks'[t] > 0
      BY <1>t, <2>1 DEF Requeue
    <2>3. \A t \in Task : tasks[t] > 0 => tasks'[t] > 0
      BY <1>t, <2>1 DEF Requeue
    <2> QED
      BY <1>t, <2>1, <2>2, <2>3 DEF WillRetry
  <1>3. CASE RunnerIsImageExists \/ (PullImage /\ UNCHANGED tasks)
    <2>0. UNCHANGED <<tasks, pullTask>> /\ pullPc # "idle"
      BY <1>3 DEF RunnerIsImageExists, PullImage, PullLoad, PullCheck, PullTryStart, PullRecheck,
                  PullTransfer, PullStop, PullRecord, Return, Goto
    <2> SUFFICES ASSUME ~\E t \in Task : t.nis = n /\ t.ref = i /\ tasks[t] > 0
                 PROVE  Runs(n, i)' /\ ~(pullPc' = "returned" /\ pullResult' = NoError)
      BY <2>0 DEF WillRetry
    <2>t. pullTask.nis \in NodeImageSets /\ pullTask.ref \in Images
      BY <2>0, TaskType
    <2>1. CASE PullRecord
      <3>1. CASE lastError[n][i] = NoError
        <4>1. /\ pullResult # NoError
              /\ lastError' = [lastError EXCEPT ![pullTask.nis][pullTask.ref] = pullResult]
          BY <2>1, <3>1 DEF PullRecord, SetError
        <4>2. pullTask.nis = n /\ pullTask.ref = i
          BY <2>t, <3>1, <4>1 DEF TypeOK, PullerTypeOK
        <4> QED
          BY <2>0, <2>1, <4>1, <4>2 DEF PullRecord, Return
      <3>2. CASE lastError[n][i] # NoError
        <4>1. Runs(n, i)
          BY <3>2 DEF WillRetry
        <4>2. pullResult # NoError
          BY <2>1, <3>2, <4>1 DEF PullRecord, TableInv, TaskFresh
        <4> QED
          BY <2>0, <2>1, <4>1, <4>2 DEF PullRecord, Return
      <3> QED
        BY <3>1, <3>2
    <2>2. CASE PullTryStart
      <3>1. /\ pullPc' = "recheck"
            /\ \/ lastError' = lastError
               \/ lastError' = [lastError EXCEPT ![pullTask.nis][pullTask.ref] = NoError]
        BY <2>2, <2>t, NoFlags DEF PullTryStart, Goto, StartPulling, TableInv
      <3>2. lastError[n][i] # NoError
        BY <2>t, <3>1 DEF TypeOK, PullerTypeOK
      <3> QED
        BY <2>0, <3>1, <3>2 DEF WillRetry
    <2>3. CASE ~PullRecord /\ ~PullTryStart
      <3>1. lastError' = lastError
        BY <1>3, <2>3 DEF RunnerIsImageExists, PullImage, PullLoad, PullCheck, PullRecheck,
                          PullTransfer, PullStop, tableVars
      <3>2. Runs(n, i) /\ n \in tracked
        BY <3>1 DEF WillRetry, TableInv, UntrackedFresh
      <3>3. pullPc' # "returned" \/ pullResult' # NoError
        <4>1. NoError # "Other"
          BY DEF NoError
        <4> QED
          BY <1>3, <2>3, <3>2, <4>1
          DEF RunnerIsImageExists, PullImage, PullLoad, PullCheck, PullRecheck, PullTransfer,
              PullStop, Return, Goto
      <3>4. pullPc' # "idle"
        BY <1>3, <2>3
        DEF RunnerIsImageExists, PullImage, PullLoad, PullCheck, PullRecheck, PullTransfer,
            PullStop, Return, Goto
      <3> QED
        BY <2>0, <3>2, <3>3, <3>4
    <2> QED
      BY <2>1, <2>2, <2>3
  <1> QED
    BY <1>1, <1>2, <1>3 DEF RunnerStep

\* What the runner does not do leaves its retries alone and records no error.
LEMMA OtherRetry ==
  ASSUME TypeOK, [Next]_vars, ~Restart, ~RunnerActs, NEW n \in NodeImageSets, NEW i \in Images
  PROVE  /\ lastError'[n][i] # NoError => lastError[n][i] # NoError
         /\ WillRetry(n, i) => WillRetry(n, i)'
  <1>1. CASE SubscriberActs
    <2>1. UNCHANGED <<tasks, pullVars>>
      BY <1>1 DEF SubscriberActs, SubscriberStep, SubscriberReceive, SubscriberVisit,
                  SubscriberClearError
    <2>2. lastError' = lastError \/ (subEntry \in NodeImageSets /\ ClearError(subEntry, subImage))
      BY <1>1 DEF SubscriberActs, SubscriberStep, SubscriberReceive, SubscriberVisit,
                  SubscriberClearError, tableVars, TypeOK, PullerTypeOK
    <2>3. lastError'[n][i] # NoError => lastError[n][i] # NoError
      BY <2>2 DEF ClearError, TypeOK, PullerTypeOK
    <2> QED
      BY <2>1, <2>3 DEF WillRetry, pullVars
  <1>2. CASE ReconcilerActs \/ \E m \in NodeImageSets : Starts(m)
    <2>1. UNCHANGED <<pullPc, pullTask, pullResult>>
      BY <1>2, ReconcilerTouches DEF pullVars, DeleteNodeImageSetStatus, TrackNodeImageSet
    <2>2. lastError'[n][i] # NoError => lastError[n][i] # NoError
      BY <1>2, ReconcilerTouches
      DEF tableVars, DeleteNodeImageSetStatus, TrackNodeImageSet, TypeOK, PullerTypeOK
    <2>3. \A t \in Task : tasks[t] > 0 => tasks'[t] > 0
      <3>1. CASE EnqueueTask
        BY <3>1 DEF EnqueueTask, TypeOK, RunnerTypeOK
      <3>2. CASE ~EnqueueTask
        BY <1>2, <3>2
        DEF ReconcilerActs, ReconcileStep, RemoveFinalizer, AddFinalizer, Prepare, AskContainerd,
            ReadPulling, ReadError, StartCount, Apply, runnerVars, Starts, StartReconcile
      <3> QED
        BY <3>1, <3>2
    <2> QED
      BY <2>1, <2>2, <2>3 DEF WillRetry
  <1> QED
    BY <1>1, <1>2, OthersSpareTable DEF tableVars, pullVars, WillRetry

\* Without lost events, a delete event ends by clearing the error.
LEMMA ClearStays ==
  ASSUME TypeOK, TableInv, ~LoseEvents, [Next]_vars, ~Restart,
         NEW n \in NodeImageSets, NEW i \in Images, WillClear(n, i),
         lastError[n][i] # NoError, lastError'[n][i] # NoError
  PROVE  WillClear(n, i)'
  <1>n. n # None /\ i # None /\ n \in tracked
    BY NoneAssumption DEF TableInv, UntrackedFresh
  <1>1. CASE SubscriberActs
    <2>1. CASE SubscriberReceive
      <3>1. PICK j \in Images : subImage' = j /\ events' = [events EXCEPT ![j] = @ - 1]
        BY <2>1 DEF SubscriberReceive
      <3>2. subImage = None /\ tracked \subseteq subTodo'
        BY <2>1 DEF SubscriberReceive
      <3>3. j # i => events'[i] = events[i]
        BY <3>1 DEF TypeOK, PullerTypeOK
      <3> QED
        BY <1>n, <3>1, <3>2, <3>3 DEF WillClear
    <2>2. CASE SubscriberVisit
      BY <1>n, <2>2 DEF SubscriberVisit, WillClear
    <2>3. CASE SubscriberClearError
      <3>1. subEntry = n /\ subImage = i => lastError'[n][i] = NoError
        BY <2>3 DEF SubscriberClearError, ClearError, TypeOK, PullerTypeOK
      <3> QED
        BY <2>3, <3>1 DEF SubscriberClearError, WillClear
    <2> QED
      BY <1>1, <2>1, <2>2, <2>3 DEF SubscriberActs, SubscriberStep
  <1>2. CASE ReconcilerActs \/ \E m \in NodeImageSets : Starts(m)
    <2>1. UNCHANGED <<events, subImage, subTodo>>
      BY <1>2
      DEF ReconcilerActs, ReconcileStep, RemoveFinalizer, AddFinalizer, Prepare, AskContainerd,
          ReadPulling, ReadError, EnqueueTask, StartCount, Apply, runnerVars, subVars, Starts,
          StartReconcile
    <2>2. subEntry = n /\ subImage = i => subEntry' = n
      <3>1. ASSUME NEW m \in NodeImageSets, DeleteNodeImageSetStatus(m), subEntry = n
            PROVE  subEntry' = n
        BY <3>1 DEF DeleteNodeImageSetStatus, TypeOK, PullerTypeOK
      <3>2. ASSUME NEW m \in NodeImageSets, NEW keep \in SUBSET Images,
                   TrackNodeImageSet(m, keep), subEntry = n, subImage = i
            PROVE  subEntry' = n
        BY <3>2 DEF TrackNodeImageSet, TypeOK, PullerTypeOK
      <3> QED
        BY <1>2, <3>1, <3>2, ReconcilerTouches
    <2> QED
      BY <2>1, <2>2 DEF WillClear
  <1>3. CASE RunnerActs
    BY <1>3
    DEF RunnerActs, RunnerStep, RunnerGet, RunnerIsImageExists, RunnerDone, PullImage, PullLoad,
        PullCheck, PullTryStart, PullRecheck, PullTransfer, PullStop, PullRecord, subVars,
        WillClear
  <1>4. CASE WatcherActs \/ Subscribes \/ LosesEvent
    BY <1>n, <1>4
    DEF WatcherActs, WatcherStep, WatcherReceive, SubscriberSend, WatcherList, WatcherSend,
        Subscribes, Subscribe, LosesEvent, StreamBreak, SubscriberDrop, WatcherListFails,
        runnerVars, subVars, WillClear
  <1>5. CASE \E m \in NodeImageSets : \/ Syncs(m) \/ Resyncs(m)
                                     \/ CreateNodeImageSet(m) \/ UpdateNodeImageSet(m)
                                     \/ DeleteNodeImageSet(m) \/ CollectorRemovesFinalizer(m)
    BY <1>5
    DEF Syncs, CacheSync, Resyncs, Resync, CreateNodeImageSet, UpdateNodeImageSet,
        DeleteNodeImageSet, CollectorRemovesFinalizer, Edit, runnerVars, subVars, WillClear
  <1>6. ASSUME NEW j \in Images, EvictImage(j) \/ KubeletPull(j)
        PROVE  WillClear(n, i)'
    <2>1. UNCHANGED <<subImage, subTodo, subEntry>> /\ (events[i] > 0 => events'[i] > 0)
      BY <1>6 DEF EvictImage, KubeletPull, TypeOK, PullerTypeOK, subVars
    <2> QED
      BY <2>1 DEF WillClear
  <1>7. CASE EditSecret \/ SecretSync \/ UNCHANGED vars
    BY <1>7 DEF EditSecret, SecretSync, vars, daemonVars, runnerVars, subVars, WillClear
  <1> QED
    BY <1>1, <1>2, <1>3, <1>4, <1>5, <1>6, <1>7 DEF Next, Environment

LEMMA NextRetry ==
  ASSUME TypeOK, TableInv, ErrorHasRetry, ~LoseEvents, [Next]_vars
  PROVE  ErrorHasRetry'
  <1> SUFFICES ASSUME NEW n \in NodeImageSets, NEW i \in Images,
                      lastError'[n][i] # NoError, i \notin present'
               PROVE  WillRetry(n, i)' \/ WillClear(n, i)'
    BY DEF ErrorHasRetry
  <1>0. ~Restart
    BY DEF Restart
  <1>1. CASE i \in present
    BY <1>0, <1>1, EvictionAnnounced DEF WillClear
  <1>2. CASE i \notin present /\ lastError[n][i] # NoError /\ WillClear(n, i)
    BY <1>0, <1>2, ClearStays
  <1>3. CASE i \notin present /\ (lastError[n][i] # NoError => WillRetry(n, i))
    <2>1. CASE RunnerActs
      BY <1>3, <2>1, RunnerRetry DEF RunnerActs
    <2>2. CASE ~RunnerActs
      BY <1>0, <1>3, <2>2, OtherRetry
    <2> QED
      BY <2>1, <2>2
  <1> QED
    BY <1>1, <1>2, <1>3 DEF ErrorHasRetry

(***************************************************************************)
(* As long as every eviction reaches the daemon as an event, an image that *)
(* is missing and has an error, which the reconciler therefore leaves      *)
(* alone, is still in the runner's hands or about to have its error        *)
(* cleared: it is never parked for good.                                   *)
(***************************************************************************)
THEOREM ErrorsAreRetried ==
  ASSUME ~LoseEvents
  PROVE  Spec => []ErrorHasRetry
  <1>1. Init => ErrorHasRetry
    BY DEF Init, PullerInit, ErrorHasRetry
  <1> QED
    BY <1>1, NextRetry, TypeCorrect, TableInvariant, PTL DEF Spec

=============================================================================
