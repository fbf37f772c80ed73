----------------------- MODULE ContainerdEventWatcher -----------------------
(***************************************************************************)
(* internal/controller/containerd_event_watcher.go: the goroutine that     *)
(* turns image deletions into reconcile requests for the NodeImageSets     *)
(* that want the image.                                                    *)
(***************************************************************************)
EXTENDS NodeImageSetReconciler

VARIABLES
    watchImage,  \* the deleted image notifyController is called for
    watchTodo    \* the listed NodeImageSets it has still to announce

watchVars == <<watchImage, watchTodo>>

WatcherTypeOK ==
    /\ watchImage \in Images \cup {None}
    /\ watchTodo \in SUBSET NodeImageSets

WatcherInit == watchImage = None /\ watchTodo = {}

\* The rendezvous on imageDeletionCh: Start waits in its select.
WatcherReceive ==
    /\ watchImage = None /\ watchTodo = {}
    /\ watchImage' = subImage
    /\ SubscriberSend
    /\ UNCHANGED <<watchTodo, apiVars, recVars, tasks>>

\* The NodeImageSets in the cache that want image i.
Wanting(i) == {n \in NodeImageSets : cache[n].live /\ i \in cache[n].images}

\* notifyController lists the NodeImageSets of the node in the cache.
WatcherList ==
    /\ watchImage # None
    /\ watchTodo' = Wanting(watchImage)
    /\ watchImage' = None
    /\ UNCHANGED <<apiVars, recVars, runnerVars, faults>>

\* The List fails: the deletion is logged and forgotten.
WatcherListFails ==
    /\ LoseEvents /\ watchImage # None
    /\ watchImage' = None
    /\ UNCHANGED <<watchTodo, apiVars, recVars, runnerVars, faults>>

\* eventNotifyCh, which the controller's channel source drains into its queue.
WatcherSend ==
    /\ \E n \in watchTodo : /\ watchTodo' = watchTodo \ {n}
                            /\ requests' = requests \cup {n}
    /\ UNCHANGED <<watchImage, api, cache, recVars, runnerVars, faults>>

WatcherStep == WatcherReceive \/ WatcherList \/ WatcherSend

=============================================================================
