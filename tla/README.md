# Verification of ofen

ofen is a Kubernetes operator that downloads container images to nodes before
Pods need them. This directory holds TLA+ models of its programs, the TLC
configurations that check them, and TLAPS proofs about them.

## 1. The system

| Component | Code | State it keeps | Operations |
| --- | --- | --- | --- |
| ImagePrefetch controller (one per cluster, leader-elected) | `internal/controller/imageprefetch_controller.go` | none of its own; `status` of ImagePrefetch, the NodeImageSets it owns | Reconcile: finalize, select nodes, apply NodeImageSets under a rollout limit, delete surplus ones, report status |
| Node selection | same file, `selectNodesByReplicas` and helpers | none | keep healthy nodes, add nodes of the least used zone |
| NodeImageSet garbage collector | `internal/controller/garbage_collector.go` | none | on a timer, strip the finalizer from and delete NodeImageSets of nodes that no longer exist |
| NodeImageSet controller (one per node) | `internal/controller/nodeimageset_controller.go` | finalizer and `status` of the NodeImageSets of its node | Reconcile: finalize, add the finalizer, follow the spec, queue pending images, count, report status |
| ImagePuller | `internal/imgmanager/image_puller.go` | in memory: a map of maps of `*ImagePullStatus` (pulling flag, last error) | PullImage, GetImageStatus, track / prune / delete, SubscribeDeleteEvent |
| Runner | `internal/controller/runner.go` | a rate-limited work queue of `Task`s | take a task, pull, retry on error |
| Containerd event watcher | `internal/controller/containerd_event_watcher.go` | none | turn an image deletion into reconcile requests |
| Containerd client | `internal/imgmanager/containerd.go`, `secret.go` | containerd's image store (external) | existence, pull with registry hosts and credentials, subscribe |

How they interact:

    user --edits--> ImagePrefetch --watch--> ImagePrefetch controller
       --Apply/Delete--> NodeImageSet --watch--> NodeImageSet controller (node)
       --Queue.Add(Task)--> Runner --PullImage--> ImagePuller --> containerd
    containerd --delete events--> ImagePuller's subscriber --imageDeletionCh-->
       event watcher --eventNotifyCh--> NodeImageSet controller
    NodeImageSet status --watch--> ImagePrefetch controller --> ImagePrefetch status

What is hard about it:

* On a node four goroutines (reconciler, runner, subscriber, watcher) share the
  ImagePuller's table. Each access to a map or to a field is atomic; sequences
  of accesses are not.
* Both controllers read informer caches that trail the API server. `Update`
  carries a resource version and may conflict; the server-side `Apply` of a
  status carries none and may overwrite.
* A NodeImageSet that was reported complete is not requeued. From then on only
  a watch event or a containerd deletion event brings it back.
* A recorded error takes an image out of `collectPendingImages`; only the
  runner's retry or a deletion event makes it pending again.
* A queued task carries the policy and the pull secrets it was queued with, and
  each reconcile that finds an image still waiting queues another copy of it.
* The garbage collector takes a node that is not registered for gone and strips
  its NodeImageSet of the finalizer, while the daemon there may still run.
* Everything the daemon holds is in memory; a restart loses it while containerd
  and the API server go on.
* The rollout limit and the Ready condition are computed from counts over
  cached NodeImageSets, terminating and superseded ones included.

What makes each component correct:

* ImagePuller: the pulling flag of a table entry is up only while the image is
  being pulled for it (not the other way round: a deletion event may take the flag
  down in mid-transfer); an error never parks a missing image.
* NodeImageSet controller: unfinished or deleted objects are always attended
  to, missing images always noticed, no table entry outlives its object, each
  status is about one version that was read and never goes back, and in the end
  it settles on the truth; what is deleted goes away.
* Runner and watcher: a failed task comes back, copies of a task do not pile up
  for ever, a deletion reaches every NodeImageSet that wants the image.
* ImagePrefetch controller: Ready only when the nodes have the images, the
  rollout limit holds, each selected node ends up with the NodeImageSet and the
  policy of its position, nothing is orphaned, rollout ends.
* Node selection: as many nodes as asked, healthy ones kept, zones balanced.

## 2. Modules

| Module | Models | Extends |
| --- | --- | --- |
| `ContainerdClient` | a pull as containerd is asked for it: which hosts may supply the image, with which credentials, how the call may end | |
| `ImagePuller` | the table, `PullImage` one access per step, the delete-event subscriber | `ContainerdClient` |
| `Runner` | the task queue and its worker | `ImagePuller` |
| `NodeImageSetReconciler` | `Reconcile` one read or write per step, over API server, informer cache and work queue | `Runner` |
| `ContainerdEventWatcher` | the deletion-to-request goroutine | `NodeImageSetReconciler` |
| `NodeDaemon` | the process of one node in its environment, its properties | `ContainerdEventWatcher` |
| `NodeImageSetContract` | what the daemon promises to readers of the statuses, abstractly | |
| `MCNodeDaemon` | constants and initial states for TLC | `NodeDaemon` |
| `NodeDaemonSafety` | type correctness, `StatusFollowed`, `NoLostWork`, `PullFlag` and `ErrorHasRetry`, proved | `NodeDaemon` |
| `NodeImageSetContractProofs` | the properties of the contract, proved | `NodeImageSetContract` |
| `NodeDaemonRefinement` | `NoLeakedStatus`, and that the daemon implements the contract, proved | `NodeDaemonSafety` |
| `NodeSelection` | `selectTargetNodes`, `selectNodesByReplicas` as operators | |
| `SelectionHistory` | the selection of one ImagePrefetch while nodes and replicas change | `NodeSelection` |
| `MCNodeSelection` | nodes and zones for TLC | `SelectionHistory` |
| `NodeSelectionProofs` | what the operators of `NodeSelection` return, proved | `NodeSelection` |
| `SelectionHistoryProofs` | `SelectionSticky` and `ZonesBalanced`, proved | `SelectionHistory`, `NodeSelectionProofs` |
| `ImagePrefetchReconciler` | `Reconcile` of one ImagePrefetch, one call per step, and its watches | `NodeSelection` |
| `NodeImageSetGarbageCollector` | the collector's run, one call per step | `ImagePrefetchReconciler` |
| `PrefetchCluster` | the controller's process with API server, users, nodes and an abstract daemon per node, its properties | `NodeImageSetGarbageCollector` |
| `MCPrefetchCluster` | constants and initial states for TLC | `PrefetchCluster` |
| `PrefetchClusterSafety` | type correctness, `NoOrphans` and `Attended`, proved | `PrefetchCluster`, `NodeSelectionProofs` |
| `PrefetchClusterStatus` | `SelectedServed`, `ReadyAtRest` and `ReadyEarned`, proved | `PrefetchClusterSafety` |
| `PrefetchClusterRollout` | `ReadyMeansAllNodes` and `RolloutLimit` while the nodes are quiet, proved | `PrefetchClusterStatus` |

### State and code

* `tracked`, `pulling`, `lastError` are `ImagePuller.status`: the outer map's
  keys and, per image, `ImagePulling` and `Error`. A missing `*ImagePullStatus`
  answers every query as a fresh one does and is represented by one.
* `pullPc`, `pullTask`, `pullHeld`, `pullResult` are the local state of
  `processTask` and `PullImage`. `pullHeld` says whether the `*ImagePullStatus`
  the call holds is still the one in the table: after a prune or a delete it
  works on an orphan.
* `subImage`, `subTodo`, `subEntry` are the subscriber's `Range`, which visits
  one entry at a time and clears flag and error in two steps.
* `tasks` is a bag, because tasks hold pointers and are never merged.
* `api`, `cache`, `requests` are the API server, the informer cache and
  controller-runtime's queue. `recPc` to `recFailed` are the locals of
  `Reconcile`; `recStage` is the position inside `GetImageStatus`, which asks
  containerd, then reads the flag, then the error.
* `secret` stands for the Secrets the NodeImageSets refer to, told apart by what
  becomes of a pull with them: `convertCredentials` cannot read them, the
  upstream registry accepts or refuses them, or they do not exist, which
  `Reconcile` skips and the registry refuses. The client reads Secrets through an
  informer's cache, `secretCache`, which `SecretSync` brings up to date;
  `recSecret` is what `Reconcile` has read there (`ReadsSecrets`), and a `Task`
  keeps it. A mirror asks for no credentials and may or may not have an image; the
  upstream registry, unless `registryMirrorHosts` takes it out, has every image.
* `watchImage`, `watchTodo` are the locals of `notifyController`.
* `CollectorRemovesFinalizer` is what the garbage collector of the other process
  does to a NodeImageSet when the node is no longer registered. The reconciler of
  a daemon that runs on puts the finalizer back.
* `present` is containerd's image store, `events` and `stream` its event stream.

`NodeImageSetContract` has per name the object in the API server, the version of
it the daemon was told, the version it works on and the images it has found of
that one; and the images on the node. `NodeDaemon` defines `Contract` as its
instance: `object` and `delivered` are the contract's part (`Seen`) of `api` and
`cache`, `read` and `found` are `recObj` and `recDownloaded` from the moment
`AddFinalizer` has found nothing to add (`WorksOn`). Queues, pulls, errors, the
table and the subscriber are invisible in it: their steps are stutters. `Report`
is the heart of it. It writes on the object that exists now, which must be the
one that was read; it names the generation that was read; and it says available
exactly when all images of that version were found.

In the cluster-level modules:

* `prefetch` and `sets` are the objects in the API server, `prefetchCache` and
  `setsCache` the informer caches; each cached NodeImageSet trails on its own.
  `nodes` is the cached view of the nodes, the only one the process has.
* `recObj` to `recReady` are the locals of `Reconcile`. The index of the loop
  of `createOrUpdateNodeImageSet` is the number of elements of `recApplied`.
* `gcPc` to `gcObj` are the locals of the collector.
* `sort.Slice` leaves the order of equal scores open and the cache lists nodes
  in any order, so a selection is one of a set of possible ones: `Orders` are the
  orders in which the second loop of `selectNodesByReplicas` may take nodes, and
  `After` what is selected after so many rounds.
* `SelectionHistory` has the selection alone: each change of a node or of `replicas`
  is followed by a reconcile that sees it and completes, or ends with the error of
  `selectTargetNodes` and leaves the status as it is. `observed` says whether the
  status was written since `replicas` was edited.
* One ImagePrefetch is modelled: the NodeImageSets of different ImagePrefetches
  have different names and labels, and each reconcile lists its own only.
* The daemon of a node (`DaemonAdopts` to `DaemonFinalizes`) reads the
  NodeImageSet and in the end reports on what it has read: the finalizer, the
  observed generation and the counts are those of `NodeImageSetReconciler`, and
  when it reports images as available is left to it: the images may come from a
  registry or from another node, be pulled by the kubelet or be left from before,
  so nodes complete in any order. `DaemonReads` is delivery and reading of the
  contract in one step, `DaemonReports` is `Report`. `has` remembers what each
  node has reported, and stands for the truth the properties compare with.
* `Concerns` is the map function of the watch on nodes: the ImagePrefetches whose
  reported selection contains the node, and those for all nodes.

Waiting times (back-off, `RequeueAfter`, the ticker) are left open: what waits
counts as queued. Metrics, log texts, Kubernetes events and condition messages
are left out. Of the NodeImageSet status the model keeps the observed
generation, whether all images are available, and whether some download failed;
the cluster level keeps the number of image statuses instead of the last. Of the
ImagePrefetch status it keeps observed generation, selected nodes and Ready.

## 3. Runs

Node level, all of `MCNodeDaemon`. Deadlock is not checked: once the bounds on edits,
foreign images, faults and restarts are used up and all work is done, the
system rests.

| Run | Bounds | Checks |
| --- | --- | --- |
| `daemon_respec` | 1 NodeImageSet, 2 images, one edit of an adopted NodeImageSet, one foreign step, resyncs | `PullFlag`, `NoLostWork`, `StatusNeverGoesBack` |
| `daemon_lossy` | 1 x 1; two edits of an adopted NodeImageSet and a restart, or one edit and a foreign step; events may be lost, a fault | `PullFlag`, `StatusFollowed`, `NoLeakedStatus`, `ImplementsContract` |
| `daemon_retry` | 1 x 1, both policies; secrets refused at first and an edit of the NodeImageSet or its secret, or a foreign step; with either a fault | `TypeOK`, `ErrorHasRetry` |
| `daemon_live` | 1 x 1; creation with a fault and a foreign step or a restart, or two edits of an adopted NodeImageSet, those of the collector included; up to two copies of a task; fairness | `Prefetched`, `StatusSettles`, `Finalized`, `QueueDrains` |
| `daemon_lost_events` (violation) | events may be lost, resyncs fair | `Prefetched` |
| `daemon_stale_secrets` (violation) | two edits, of NodeImageSet or secret; no fault, no eviction; resyncs fair | `SecretTakesEffect` |

A foreign step is an eviction of an image or a pull by the kubelet. The bounds
are the smallest at which each hazard happens: two images for an entry to be
pruned, and for counts to be taken while images come and go; two edits of an
adopted NodeImageSet for delete and create again, or for the collector to take
the finalizer and a user to delete what the daemon has just adopted anew; one
eviction for an image to be lost after it was counted, one failing call for an
error to be recorded for an image that is there. Faults, edits, foreign steps
and restarts are budgets, so that liveness is asked of an environment that
eventually becomes quiet. Where two budgets would multiply beyond what a run can
enumerate, `EitherInit`, `RefusedInit` and `BudgetInit` start with one or the other
spent: the counters are the only thing that differs from states of `AdoptInit` and
`Init`.

`AdoptInit` is the state just after a start on a node whose NodeImageSets exist
already, with any images present: it is reached from `Init` by edits and a
restart, and saves their states.

With several NodeImageSets the subscriber's `Range` can be caught between two
entries and a pull for one can answer another. That is where the proofs take
over: each invariant of these runs is proved for every number of them (section
4), so no run enumerates two.

Cluster level, `MCNodeSelection` and `MCPrefetchCluster`; deadlock is not checked
for the same reason.

| Run | Bounds | Checks |
| --- | --- | --- |
| `selection` | 6 nodes, 3 zones, up to 5 replicas, any history | `SelectionSticky`, `ZonesBalanced` |
| `cluster_rollout` | 3 quiet nodes in the middle of a rollout, pull limit 1, rollout limit 2, an edit that adds an image | `RolloutLimit`, `ReadyMeansAllNodes` |
| `cluster_nodes` | 2 nodes, 2 image lists; all nodes with one absent at first and coming, or one replica that is ready and loses its node, or is edited or deleted; with each a fault and a restart | `TypeOK`, `ReadyEarned`, `ReadyAtRest`, `Attended` |
| `cluster_cleanup` | 2 nodes, pull and rollout limit 1; the six histories below; fairness | `NoOrphans`, `SelectedServed`, `RolloutSettles`, `CleanedUp` |
| `cluster_same_count` (violation) | 2 nodes, an edit that replaces the image | `RolloutLimit` |
| `cluster_ready_all` (violation) | 2 nodes, one replica moves | `ReadyMeansAllNodes` |

Six nodes in zones of three, two and one make every order of full and empty
zones happen. Two nodes are enough for a surplus NodeImageSet beside a selected
one, for one node to replace another, and for a rollout limit of one to hold a
node back; three for more nodes than a limit of two admits. `cluster_rollout`
starts (`MidRolloutInit`) where node 1 is done and two daemons are about to report on
what they have read, so that their reports may come before or after the edit.

The edit of `cluster_nodes` can replace the image of a node that is done by
another one, so that its status of the old list meets the new spec. A failing
call, a restart and one change of a node while the caches trail by any amount
give the races of selection, counting and deletion.

`cluster_cleanup` starts (`SettlingInit`) from states that differ in what has been
done and in what may still happen:

1. an ImagePrefetch for all nodes, on one node, is deleted and created again, or
   edited twice;
2. one is rolled out over both nodes, one at a time, and a call fails;
3. one with a replica on node 1 loses that node, so that the replica moves to
   node 2, or node 2 changes;
4. it is edited to all nodes or deleted, and a call fails;
5. its node, the only one, has been removed, and may be back between the
   collector's listing it as gone and its deleting the NodeImageSet, or the other
   node comes;
6. one for all nodes whose only node has been removed is edited or deleted.

The bound matters to `RolloutSettles`. In each of the six a reconcile that reads the
ImagePrefetch without its last status selects what the last one has selected, or
a selection has been reported and seen before the only change comes. If an ImagePrefetch is created for fewer replicas than
there are ready nodes, and the cache is one status behind at each reconcile, for
ever, then two selections undo each other for ever; so it is when two nodes
change. Weak fairness of the informers allows this, and the code has nothing
against it; an informer that ever catches up between two reconciles ends it.

`RolloutLimit` and `ReadyMeansAllNodes` occur in passing runs and in violations:
the passing runs show circumstances in which the code keeps them, and the
theorems of `PrefetchClusterRollout` (section 4) say which these are.

### Fairness

Weak fairness of each goroutine and of the watch events (`Syncs`, `SecretSync`): the Go
scheduler runs each runnable goroutine, and the informer delivers. Strong
fairness of `Starts(n)`, which other requests may disable: the work queue is
first in, first out. No fairness of edits, evictions, faults or restarts. That
the runner goes on assumes that containerd answers each call in the end; the
code sets no timeout. At the cluster level weak fairness of the worker, the
collector's ticker, the informers and the daemons of nodes that exist, and
strong fairness of `DaemonCompletes` on a node that is `Supplied`: a pull succeeds
in the end (`Prefetched` and `StatusSettles` of the node level) if its policy
admits the upstream registry or some node has had the images. A node that has
neither may complete, and need not.

### Findings

* `daemon_lost_events`: after an error of the containerd event stream nothing
  subscribes again (`image_puller.go:320`), so an image that is deleted later
  is not downloaded again, against `docs/design.md:69`.
* `daemon_stale_secrets`: a task is retried with the pull secrets it was queued
  with, and the error recorded for its image keeps `collectPendingImages` from
  queueing another (`nodeimageset_controller.go:128`). After a wrong Secret has
  been corrected the image is pulled with the old one for ever, until the spec
  changes or the daemon restarts; `docs/design.md:162` calls `imagePullSecrets`
  the "Secret used for authentication with the container registry".
* `cluster_same_count`: after an update that keeps the number of images,
  `getMaxNodeImageSetsToCreate` takes the status of the old images for the new
  ones and updates node after node without waiting, against the flag's text in
  `cmd/imageprefetch-controller/main.go:66`. The test of a sequential update
  adds an image and so does not meet this.
* `cluster_ready_all`: `calculateStatus` counts NodeImageSets of nodes that are
  no longer selected, so Ready with the message "All nodes have the desired
  image" is reported while the new node has none, until a later event.

Four more surprises are not runs:

* The policy of a NodeImageSet goes by the node's position in the selection
  (`imageprefetch_controller.go:297`), so a node that leaves and comes back can let
  a second one pull from upstream until the next reconcile has lowered its policy;
  and a queued task keeps its registry policy (`nodeimageset_controller.go:128`), so
  a pull under Default may start after the daemon has reported the generation that
  asks for MirrorOnly. Both run against the flag's text in
  `cmd/imageprefetch-controller/main.go:64`, "The maximum number of nodes that can
  pull images concurrently.", and the aim of `docs/design.md` to avoid "downloading
  the same image multiple times within the cluster". The text may well be meant of
  the NodeImageSets that exist at a time and not of every moment of a change, so no
  run refutes it; that the policies are right at rest is part of `SelectedServed`.
* The selections that undo each other, described with the bounds of
  `cluster_cleanup`; no statement of the repository speaks of it.
* A node that returns while the collector removes its NodeImageSet can be counted
  as done with images it has not (`CleanReturn` in section 4).
* A NodeImageSet created anew after a daemon has lost its finalizer to the collector
  can be given a status of its predecessor (`~Unregisters` in section 4).

## 4. Proofs

Node level, for every set of NodeImageSets and images and every bound:

* `TypeCorrect`: `Spec => []TypeOK`, one lemma per goroutine.
* `StatusIsFollowed`: `Spec => []StatusFollowed`. The property is not inductive:
  that a reconcile returns without asking to be called again is right only if
  what it read is still in the cache, or a new request is queued
  (`SnapshotFresh`), and an edit makes the cache differ from the API server only
  because the cache never holds a later version than the API server
  (`Versions`). `AttentionInv` is their conjunction.
* `WorkIsNeverLost`: `~LoseEvents => (Spec => []NoLostWork)`. `Counted` says
  that an image counted as downloaded and gone since has a deletion event on
  its way; `OneDeletion` that the watcher works on one deletion at a time, so
  that none is overwritten.
* `FlagIsTruthful`: `Spec => []PullFlag`. `TableInv` adds what the runner may
  rely on while others change the table under it: the entry it holds is of a
  tracked NodeImageSet (`HeldTracked`), entries of others carry no error
  (`UntrackedFresh`), and neither does the entry it is pulling for (`TaskFresh`).
* `ErrorsAreRetried`: `~LoseEvents => (Spec => []ErrorHasRetry)`. Relative to
  `TableInv` the property is inductive: an error is recorded only for the task in
  the runner's hands, which then goes back to the queue; `TaskFresh` lets a pull
  that succeeds drop its task; and an eviction puts an event into the stream.
* `NothingIsLeaked`: `~Unregisters => (Spec => []NoLeakedStatus)`. `IdentityInv`
  says of the copies of an object which one they are of: each has a uid that was
  given before (`AllNamed`); a copy in the cache that has the finalizer and is not
  being deleted is of an object that still exists with it, and a deletion the
  cache knows of is known to the API server (`CacheHolds`); and when the
  reconciler is about to remove the finalizer the table entry is gone and neither
  cache nor API server has the object as anything but deleted (`RemovesDoomed`),
  so that no later read can bring the entry back.
* `DaemonKeepsContract`: `~Unregisters => (Spec => ImplementsContract)`, the
  refinement. Each action is shown to be one of the contract or to leave the
  mapped variables alone, from `TypeOK`, `IdentityInv` and the shape of the loops
  (`LoopShape`: nothing is counted before `count`, and only images of the object
  that was read are asked about).
* `StatusNeverAhead`, `StatusNeverBack`: of the contract itself, from
  `ContractInv`; and `StatusGoesForward`: `~Unregisters => (Spec =>
  StatusNeverGoesBack)`, which carries them over to the daemon through the
  refinement.

`~Unregisters` is needed: when the collector takes the finalizer away from a
daemon that still runs, an object can go while the table keeps its entry and a
reconcile works on it, and the daemon may report on a namesake. `Finalized` and
`StatusSettles` are checked with it in `daemon_live`; what the leak does is
bounded by the next generation, which prunes the table.

Node selection, for any nodes, zones and numbers of replicas:

* `SelectionSticks`: `Spec => SelectionSticky`. By `AfterCount` and `OrderExists` each
  round of the second loop adds one ready node and none ever lacks a candidate if
  there are ready nodes enough: the error "no more nodes available for selection"
  is never returned. `FirstCount` says that the first loop stops only when it has
  enough. `ReconcileSelects`, from the invariant `Complete`, says that
  `isNeedNodeSelection` leaves out only selections that would change nothing.
* `ZonesAreBalanced`: `Spec => ZonesBalanced`, that the greedy choice is optimal.
  `SelectionEven`: no zone of an added node is used more than one over the zone of
  a node left out; the last round that took a node of that zone saw to it.
  `EvenIsBest`: in any other selection a node can be exchanged for one of ours
  (`Exchangeable`) without making it less even (`Exchange`), which brings it closer.
  A least counterexample (`Least`) takes the place of induction in these proofs.

Cluster level, for any nodes, zones, image lists, limits and bounds:

* `ClusterTypeCorrect`: `Spec => []TypeOK`. That the applied nodes are selected
  ones needs `StartsClean`: a reconcile starts with none applied.
* `NothingIsOrphaned`: `Spec => []NoOrphans`. The inductive invariant
  `OrphanInv` has five parts. `Applying`: a reconcile past its selection works
  for an ImagePrefetch that has its finalizer still, so that it cannot go away
  under it. `Finalizing`: a reconcile that deletes all works on an object that is
  deleted in the API server and known as such to the cache; otherwise a later
  reconcile could read it as live and apply for it after the finalizer has gone.
  `CacheFollows` carries both over from the cached object a reconcile starts
  with, `Uids` tells a re-created ImagePrefetch from its predecessor, and
  `AllDoomed` says that once all NodeImageSets have been deleted they stay so
  until an ImagePrefetch has a finalizer again.
* `NothingIsForgotten`: `Spec => []Attended`. `Remembered` is the property without
  the help of events about NodeImageSets; it is inductive only with what a reconcile
  at work owes the queue. `Snapshot`: what it has read is still in the cache, or
  another one is queued. `SelectionFresh`: so is its selection as far as nodes are
  watched for it, that is all of it for an ImagePrefetch for all nodes, and else the
  nodes it had selected before. `Trailing` says that the cache never has a later
  generation than the API server, so that every edit makes the two differ. The
  gap is real: a node the reconcile has newly selected is watched only once the
  status names it, which is why the reconcile that follows the cache's own event
  is needed.

The other properties of the cluster do not hold of every behaviour, and the
theorems say of which they do. Each hypothesis forbids a kind of step, `[][...]_vars`,
or restricts a constant; TLC has a counterexample for each one that is left out,
except where noted:

* `CleanReturn`: a node does not come back while the collector, which found it
  gone, is about to delete its NodeImageSet. Otherwise that NodeImageSet is
  deleted under the running daemon and created again with the same generation
  numbers; the daemon's report on the old one carries neither uid nor resource
  version, so that the new one counts as done on a node that has not been asked.
* `CleanCreation`: an ImagePrefetch is created when no NodeImageSet of a
  predecessor of that name is in the cache. Generations start again at 1, and what
  the predecessor's NodeImageSets say is taken for an answer to the new one.
* `Quiet`: nodes neither come nor go nor change their readiness, and whoever edits
  the ImagePrefetch wants all nodes. Otherwise positions change under a rollout:
  `ReadyMeansAllNodes` fails as in `cluster_ready_all`, and about ten steps break the
  rollout limit.
* `DistinctSizes`: no two image lists have the same length. Without it
  `RolloutLimit` fails as in `cluster_same_count`.

Whatever else nodes and users do, with failing calls, restarts and stale caches:

* `SelectedIsServed`: `Spec /\ [][CleanReturn]_vars => []SelectedServed`, and
  `RestIsReady`: `Spec /\ [][CleanReturn]_vars => []ReadyAtRest`. What holds at rest
  must have been true when the last reconcile reported, and nothing may have
  changed since without queueing another. `DaemonInv`: a NodeImageSet whose status
  is up to date tells the truth about its node, in the API server and in the cache
  (`Honest`), because what a daemon has read is of the NodeImageSet that exists
  (`Tracks`), for which nothing but `CleanReturn` keeps the collector away.
  `RestInv`: what the reconcile has applied is there with its images or gone
  (`Provided`); it reports Ready only after it has applied everywhere (`Through`);
  what counts as available without being selected is on its way out
  (`SurplusLeaves`), and its end queues the reconcile again. `SelectedServed` says of
  the policies too that they are those of the reported selection: a reconcile that
  changes the selection applies to every node whose NodeImageSet does not fit its
  position (`Fits`) before it reports. For `SelectedServed` the hypothesis is what the
  argument needs: TLC has no counterexample with two nodes.
* `ReadyIsEarned`: `Spec /\ [][CleanReturn]_vars /\ [][CleanCreation]_vars =>
  []ReadyEarned`. `SpecInv`: there is one image list for each generation, and
  whoever names a generation, in the API server, in the cache or in the
  reconcile's own copy, means that list.

While nodes are quiet:

* `QuietReadyMeansAll`: `Spec /\ [][Quiet]_vars /\ [][CleanCreation]_vars =>
  []ReadyMeansAllNodes`, from `CalmInv`, `DaemonInv` and `SpecInv`. `CalmInv`: the
  selection is the ready nodes, for ever the same, and NodeImageSets exist on no
  others; so as many NodeImageSets count as nodes are selected, and there are none
  elsewhere.
* `QuietNodesKeepPace`: `DistinctSizes => (Spec /\ [][Quiet]_vars /\
  [][CleanCreation]_vars => []RolloutLimit)`. `ListInv`: the number of statuses is that
  of a list the node has had, so with `DistinctSizes` whoever
  `getMaxNodeImageSetsToCreate` counts as through has the images. `RollInv`: there is
  a limit such that the present generation is only on the first `limit` nodes of the
  selection, the reconcile's own limit is no higher, and all but
  `MaxConcurrentNodeImageSetCreations` of these nodes have the images (`Paced`). The
  list raises the limit by what it counts; nothing lowers it.

The assumptions on constants are those the modules state as ASSUME; they say
that bounds and limits are numbers, that nodes and images are finitely many,
that nobody asks for an empty list of images, and that `None` is not a name.

Only model-checked: everything under fairness (`Prefetched`, `StatusSettles`,
`Finalized`, `QueueDrains`, `RolloutSettles`, `CleanedUp`), which is out of the proof
system's reach. `selectNodesByReplicas` is defined by the orders its loop may take and not by
recursion, so that it can be reasoned about.

## 5. What is left

1. Instantiate `NodeImageSetContract` from the daemons of `PrefetchCluster`, so
   that the two levels meet in one formula and not only in their definitions.
2. Two leaders overlapping; changing node labels.

## 6. Not modelled

The JSON and base64 handling of `secret.go` and the host configuration files
(what becomes of both is in `ContainerdClient`), the webhook (scaffolding that
admits everything), metrics, flags and set-up in `cmd/`, the validating
admission policy beyond the shape of an ImagePrefetch it enforces, generated
code, and the fake containerd of the tests. Of the ImagePrefetch controller:
label selectors (the model's nodes are those that match), image pull secrets,
the hash in a NodeImageSet's name, and two leaders at once.
