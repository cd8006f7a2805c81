# A TLA+ model of the homelab autoscaler

The homelab autoscaler makes physical machines at home look like a cloud to the Kubernetes cluster
autoscaler. Each machine is a `Node` custom resource. A gRPC server turns "one node more" and "these
nodes less" into a desired power state, a controller runs a small state machine that starts a Job
(wake-on-LAN, ssh shutdown) for every change, a goroutine watches that Job, and a second controller
mirrors the readiness of the Kubernetes node back into the resource. None of these hold anything in
common except the `Node` object: they meet there, through reads that may be old and updates that may
conflict, with an expiring lock in its annotations between them.

This directory holds the specification of that machinery, the instances TLC checks, and proofs of the
most important properties.

## Inventory

| component | source | state it keeps | operations |
|---|---|---|---|
| FSM transition table | `internal/fsm/events.go`, `types.go` | none (data) | look up a transition, its operation and its kind |
| Coordination manager | `internal/fsm/coordination.go` | operation-lock, lock-owner, lock-timestamp annotations of a Node | `AcquireLock`, `ReleaseLock`, `CheckLock`, `ForceReleaseLock` |
| Node state machine | `internal/fsm/node_state_machine.go`, `hooks.go` | `Status.Progress` and its timestamps; Jobs; one goroutine per Job | `StartNode`, `ShutdownNode`, the hooks before, on entering and after each event, `monitorJobCompletion`, cordon and uncordon |
| Node reconciler | `internal/controller/infra/node_controller.go` | none (one worker); owner reference of a Node, labels and provider ID of its Kubernetes node | remove expired locks, tie the Node to Group and Kubernetes node, validate a Node in transition, choose an operation |
| Kubernetes node reconciler | `internal/controller/core/node_controller.go` | `Status.PowerState`, `Status.Progress` | mirror the Ready condition |
| gRPC cloud provider | `internal/grpcserver/server.go` | none | `NodeGroupIncreaseSize`, `NodeGroupDeleteNodes`, `NodeGroupDecreaseTargetSize`; the queries |
| Node webhook | `internal/webhook/infra/v1alpha1/node_webhook.go` | none | admit creations and updates of Nodes |
| Group reconciler | `internal/controller/infra/group_controller.go` | condition `Loaded` of a Group | mark a Group loaded |
| API types | `api/infra/v1alpha1/*.go` | the fields above | none |
| gRPC server manager | `internal/grpcserver/manager.go` | a listener | start, stop |
| configuration, main, generated stubs | `internal/config`, `cmd/main.go`, `proto` | none | wiring |

How they interact. An administrator applies Groups and Nodes; the webhook admits a Node only when the Group
of its label and the Kubernetes node it names are there. The node controller's `Reconcile` writes the
group's and the Node's name into labels of the Kubernetes node, makes the Group the owner of the Node and
gives the Kubernetes node a provider ID. The autoscaler's queries are answered from these: from the label
which group a Kubernetes node is in, from the Node objects and the provider IDs which nodes a group has.

The gRPC calls write `Spec.DesiredPowerState` (and, in `DecreaseTargetSize`, the progress). The reconciler
compares it with `Status.PowerState` and `Status.Progress`, and fires `StartNode` or `ShutdownNode`:
pending Jobs are deleted, for a shutdown the Kubernetes node is cordoned, the `before` hook takes the
lock, the `enter` hook writes the transitional progress, and a Job is created. From there a goroutine takes
over. It polls the Job, raises `JobCompleted`, `JobFailed` or `JobTimeout`, and the hooks of that event
write the stable progress, uncordon the node after a startup, release the lock and write the progress once
more. Meanwhile the machine boots or stops, the kubelet reports it, and the mirror controller writes power
and progress.

What is hard. Several writers of one object without transactions; a lock that expires while its holder
works on; a clean-up that runs concurrently with acquisition; work in progress that lives in goroutines
only and is gone after a restart; Jobs deleted under the goroutine that watches them; a second write of the
progress after the lock is given back; calls that list Nodes from a lagging cache and update them one by
one; a Node that is moved, a Group or Kubernetes node that goes and comes back, while it is being
reconciled. The hazards are listed one by one, with their lines, in `PROJECT.json`.

What makes the parts correct:

- *Coordination manager*: two leases of the lock never overlap unless somebody removed one of them; the
  annotations only ever change as those of one atomic lock.
- *Node state machine and reconciler*: never two Jobs of a Node that are pending by the code's own test; a Node in
  transition has somebody who will end the transition; every transition ends, every lock goes; the Node converges to the
  desired state; a shutdown happens on a cordoned node; "stuck" means old.
- *gRPC provider*: a decrease spares running Nodes; calls stay in their group; no Node is granted to two
  increases; the target size is right once everything stabilizes.
- *Registration*: the owner of a Node is the Group of its label; in the end labels, provider IDs, templates
  and Node objects tell the autoscaler the same thing; a registered Node is operated.

## Modules

| module | what it is |
|---|---|
| `NodeFsm` | states, events, the transition table and its helpers; no variables |
| `LeaseLock` | what the lock promises: a lock taken and given back in one step each |
| `CoordinationLock` | how it is implemented: Get from a cache, conditional Update, retry on conflict, lost answers, two controllers and a cleanup loop on one Node |
| `NodeObject` | a Node as its readers see it: which updates desired power, recorded power and progress can go through |
| `NodeLifecycle` | everything that acts on one Node, on top of the single-step lock; implements `NodeObject` |
| `GrpcScaling` | the resizing calls on groups of Nodes; implements `NodeObject` for each Node |
| `NodeRegistration` | webhook, labels, owners, provider IDs, Group controller, and the queries that read them |
| `NodeFsmProofs`, `CoordinationLockProofs`, `NodeLifecycleProofs`, `GrpcScalingProofs`, `NodeRegistrationProofs` | theorems about the modules of those names |
| `NodeLifecycleLockProofs` | theorems about the lock in `NodeLifecycle`, on top of `NodeFsmProofs` and `NodeLifecycleProofs` |
| `MCCoordinationLock`, `MCNodeLifecycle`, `MCGrpcScaling`, `MCNodeRegistration` | constants, symmetry and start states for TLC |

How they compose. `LeaseLock` stands between `CoordinationLock`, which implements it with reads, caches and
conflicting updates, and `NodeLifecycle`, whose worker, hooks and restarts treat the lock as it says; each has
its own refinement (`LeaseSpec`, twice). `GrpcScaling` takes the controllers to do to a Node what `NodeObject` allows, and
`NodeLifecycle` is shown to do no more than that (`NodeLifecycle!ObjectSpec`); conversely
`GrpcScaling!ObjectSpec` shows the calls, with their caches and conditional updates, to do to each Node only
what `NodeObject` allows. `NodeRegistration!Operate` is where `NodeLifecycle` begins.

Definitions that a comment calls a *faulty variant* are not part of the specifications: each is an action or
operator with a plausible mistake in it, and `PROJECT.json` says which property finds it out.

### NodeFsm

`GetFSMTransitions` is the slice of `fsm.EventDesc` as a set of records. `ValidateEventTransition` is both
the package function and looplab's `Can`. `getCurrentState` maps the empty progress of a new Node to
`shutdown`. The table has a row the comment above it (`events.go:40`, "stay in same state for shutting
down") does not describe: `JobTimeout` takes `shuttingdown` to `ready`. The row is what runs and what is
modelled.

### LeaseLock and CoordinationLock

`versions` is the history of the lock annotations, one entry per resource version; an `Update` goes through
only if the copy it is based on is the latest version (`Write`, `Conflict`). `cache[o]` is the version the
informer cache of process `o` shows, moved forward by `Watch`; every `client.Get` reads it, so a "fresh"
copy may be an old one. `AcquireLock` is `AcquireStart` (the check on the object passed in), `AcquireGet`
(the second check) and `AcquireUpdate`; its variants are the conflict, with `RetrySteps` attempts, the
answer that is lost after the update was applied, and any other error. `ReleaseLock` compares owner strings
only. `CleanupStart` looks at the expiry of the listed copy; `ForceGet` and `ForceUpdate` remove whatever is
there then. Time is a clock with `Second` ticks to the second, because the annotation is cut to the second
(`FormatTimestamp`).

Two history variables, which no guard reads, serve the properties: `inForce` is the client whose lock the
annotations are, and `lost` the holders whose unexpired lock somebody else removed.

`LeaseSpec` is the refinement `current` ↦ `lock`, `now - timestamp` ↦ `age`: every step of the implementation is
a step of the atomic lock or does not change the annotations. `LeaseLock` keeps ages and no clock, so that the
same module can be implemented by `NodeLifecycle`, which has no clock either. A lock may be up to
`Second - 1` ticks old when it is written, because the timestamp is cut; `NodeLifecycle` counts in seconds or
more (`Second <- 1`).

### NodeLifecycle

One Node. `desired`, `power`, `progress`, `lock` and the ages of the three timestamps are fields of the
object; `job`, `machine`, `kubeReady` and `unschedulable` are the world around it; `proc` says where the
reconcile worker and each monitor goroutine are; `grpc` is a `DecreaseTargetSize` between its two updates.
The correspondence with the code:

| code | actions |
|---|---|
| `Reconcile` up to the validation | `CleanupExpiredLocks`, `ValidateTransitional` |
| `handleStateTransitionsWithFSM` | `HandleStateTransitions` (the branch, on the copy read here) |
| `StartNode`, `ShutdownNode` | `CleanupPendingJobs`, `SetNodeUnschedulable`, `AcquireLock` or `AcquireRefused`, `EnterTransitional`, `CreateJob`, one per API call |
| `monitorJobCompletion` | `MonitorJobCompletion` |
| the hooks of the Job events | `EnterStable`, `SetNodeSchedulable`, `ReleaseLock`, `UpdateProgressAgain` |
| mirror controller | `ReconcileKubernetesNode` |
| gRPC calls | `NodeGroupIncreaseSize`, `NodeGroupDeleteNodes`, `NodeGroupDecreaseTargetSize`, `DecreaseUpdatesStatus` |
| outside | `JobActs`, `JobEnds`, `KubeletReports`, `Tick`, `Crash` |

Every API call is a step of its own, so everybody else may act between any two calls, and every call of ours
may fail (`Fails`): the code logs most of these failures and goes on, and so does the model. A call that fails
may have taken effect: the lock may be written (`AcquireLock`) and the Job created (`CreateJob`) although the
answer is lost. Two reads that decide on a cached copy which is too old count as failed calls as well, because
they go unnoticed in the same way: the list of Jobs in `cleanupPendingJobs`, which may miss a Job or show one as
pending that is not (`CleanupPendingJobs` deletes any set of Jobs, and any but the right one is a failure), and the
shortcut of `setNodeUnschedulable` for a node that was cordoned already (`node_state_machine.go:610`). `errors` records how many calls failed and of which kinds, so that a property can say which
failures it excepts. `Crash` loses the goroutines and keeps the cluster's objects.

A Job is more than a thing that ends once. It is *active* until one of its Pods has ended; *retrying* when a Pod has
failed and the Job controller runs another, which the code takes for failed (`Status.Failed > 0`) and its
clean-up for finished; and *orphaned* when it was deleted, because the code deletes without a propagation policy and
a `batch/v1` Job then leaves its Pod behind. The Pod of each of these goes on switching the machine (`JobActs`),
may hang, and may end (`JobEnds`), whatever operation runs by then.

Three abstractions to know of:

- *Timestamps are ages*, and stop growing where no comparison of the code can tell the difference
  (`Older`, `TimerLimit`). This makes the state space finite without cutting off behaviours.
- *The worker remembers how old the lock was when it read the Node* (`ageRead`), because `AcquireLock`
  looks at that copy as well as at a fresh one.
- *`Prompt`*. With `Prompt = FALSE` any step may take any time. With `Prompt = TRUE` time passes only while
  everybody waits for it (an idle controller, a poll, the uncordon loop) and Jobs end before the monitor's
  timeout, which is how the system runs when nothing is slow. A violation found with `Prompt = TRUE` needs
  no slow call; a property checked with it says nothing about slow calls.

`NodeLifecycle` assumes what `cmd/main.go` sets up: one worker per controller, one process with the lock
owner `node-controller`.

### NodeObject

Three variables and five steps. A Node is asked on only when it is off in every respect; it may be asked off
at any time; a hook writes a state as progress; the mirror writes the power, and the progress too unless an
operation is under way. No step changes what is desired except the two that ask. A hook writes no transitional
progress over another one; only `TurnBack`, the second update of `NodeGroupDecreaseTargetSize`, does, from
`startingup` to `shuttingdown` on a Node that has been told off.

### GrpcScaling

`node` holds the objects of the API server, `cache` the copies in the informer cache, `synced` the Nodes whose
copy is of the latest version. A handler's record `call[c]` has the Nodes still to be dealt with, the one
being dealt with, and `current`: for which of the copies it holds the resource version is still the latest.
`Put` takes a Node out of everybody's `current` and `synced` when it changes, so that `IsCurrent` is the
conflict test of an Update.

| code | actions |
|---|---|
| `NodeGroupIncreaseSize` | the List and the choice; `IncreaseUpdates` |
| `NodeGroupDeleteNodes` | `DeleteGets`, `DeleteUpdates` for each Node named |
| `NodeGroupDecreaseTargetSize` | the List and the sizes (`nodesToShutdown`); `DecreaseUpdatesSpec`, `DecreaseUpdatesStatus` for each |
| an error return between two updates | `ReturnsError`; what was done stays |
| controllers | `WriteProgress`, `Mirror` (the steps of `NodeObject`) |
| outside | `Watch`, `Relabel` |

Handlers run at the same time as each other: gRPC serves every call in its own goroutine, and a client that
has timed out and calls again leaves the first one running. A call that is refused, or finds nothing to do, changes
nothing and is not a step. The Node named `cur` by `DeleteNodes` need not be in the group named: the code does
not look. The order of the starting Nodes (oldest first) is left open.

### NodeRegistration

`group`, `cr` and `kube` are the three kinds of objects, `seenGroup`, `seenCr` and `seenKube` their cached
copies, `work` the worker of the node controller with the copy it read.

| code | definitions |
|---|---|
| webhook | `Validate`, in front of every creation and update of a Node, the worker's own included; it reads the cache |
| `Reconcile`, first half | `ReconcileBegins`, `LabelGroup`, `LabelNode`, `GetGroup`, `SetControllerReference` or `OwnerIsSet` or `OwnerFails`, `SetProviderID`, `Operate` |
| `addLabelToKubernetesNodeWithPatch` | `PatchKube`: a merge patch is the difference to the cached copy, so nothing is sent when that has the value already |
| Group controller | `ReconcileGroup`, in every pass; the time stamp each pass renews is left out |
| queries | `NodeGroups`, `NodeGroupForNode`, `NodeGroupNodes`, `NodeGroupTemplateNodeInfo`; `NodeOf` is the lookup of the mirror controller |
| outside | `CreateNode`, `UpdateNode`, `DeleteNode`, `CreateGroup`, `DeleteGroup`, `RegisterKube` (edits), `GarbageCollect`, the watches |

A Group that is created again has a new UID; an owner reference holds name and UID, as `SetControllerReference`
of controller-runtime and the garbage collector look at one each. `Namesake` says which Kubernetes node has the
name of a Node object: the code mixes the two names up in one query (see below), and a model that identified
them would hide it.

## Runs

The constants are small, but every relation of the code's timeouts that matters is kept: the lock's timeout
equals the Job's (both 5 minutes), the uncordon loop is no longer than that (and shorter in all runs but
those with timeouts of one tick, where every step may take any time anyway), and a transition is stuck after three
times the Job's timeout (twice, in `lifecycle_safety`, where the longer ages add states and no case: what
matters is that it comes after the lock's timeout). Two monitor slots suffice, because a third operation begins only when a slot is
free of a running Pod and its monitor, and the effects looked for are between an old operation and a new
one.

Passing runs:

| run | properties | bounds and what it shows |
|---|---|---|
| `lock_protocol` | `TypeOK`, `Exclusive`, `LeaseSpec`, `OthersLockKept` | Two controllers with a client each and a cleaner; 4 resource versions (taken, changed by others, removed, taken again), 5 instants, 2 attempts, 2 ticks to the second. `Exclusive` accounts for the cut timestamp: a lease is up to a second shorter than its holder thinks. `OthersLockKept`: nobody but a forced removal or a client of the same owner string ends a lock in force, whatever old copy the decision was made on. |
| `lifecycle_safety` | `TypeOK`, `OnePendingJob`, `NoOrphanedTransition`, `ObjectSpec`, `LeaseSpec`, `StuckMeansOld` | All interleavings (`Prompt = FALSE`), timeouts of one tick, Jobs that succeed, fail or hang, whose Pods live on when they are deleted, one gRPC call and one restart anywhere. No two Jobs are pending, the Node changes only as `NodeObject`, its lock only as `LeaseLock` allows, and a lock in force is not removed as that of a stuck transition. |
| `lifecycle_faults` | `OnePendingJob`, `NoOrphanedTransition`, `LockHasHolder`, `LockNeverLeaks` | `Prompt = TRUE`, Jobs that succeed or are retried after a failed Pod, one restart and one failing or half-failing API call anywhere. Every lock is removed or replaced in the end, and a young one has a goroutine that will release it unless there was a restart or a failed update of it; two pending Jobs need a failed deletion of one, or a list that does not show it; a stranded transition needs a restart or a failed update of the progress, not a failed creation of the Job. |
| `transitions_end` | `TransitionEnds` | All interleavings, Jobs that succeed, fail, are retried or hang for ever, no failing call, no restart, no gRPC call: every transition ends. |
| `converges` | `Converges` | Jobs that work and nothing slow: a new Node, desired on or off, on a machine that runs or not, settles as desired with the lock free. |
| `scaling` | `TypeOK`, `RunningNotDecreased`, `OwnGroupOnly`, `ObjectSpec` | Two Nodes in any two states of rest, two groups, two calls of any kind that may overlap, deltas of 1 and 2, two writes by controllers or administrators anywhere. One write takes a Node out of the state (or the group) it was listed in, the second one may hit the other Node or put it back. |
| `target_size` | `TargetSizeStabilizes` | One group of two Nodes, two calls one after the other or abandoned, three writes (enough for power and progress of a Node to come to rest after a call). |
| `registration` | `TypeOK`, `OwnerFollowsLabel`, `ViewsAgree`, `TemplatesFit`, `SizesAgree`, `Operable` | Two Nodes, two Groups, two Kubernetes nodes, and two edits at any moment: one to disturb and one to repair, or two that disturb each other (a Node moved and moved back, a Group deleted and created again, a second Node for the same Kubernetes node). The owner written is that of the label; once the edits are over, the answers made from labels, from provider IDs and from Node objects agree, the size of a group is the number of its distinct instances, and registered Nodes are operated. |

The symmetries used (`SlotSymmetry`, `ScalingSymmetry`) are those of runs without liveness: monitor slots,
Nodes, groups and handlers are interchangeable, and no definition names one. `registration` has liveness and uses none; it
starts from a smaller set than `Init` instead (`MCInit`: Groups loaded, one Node for the Kubernetes node of its
own name). The other start states are what further edits make of this one, or renamings of it.

`CHECK_DEADLOCK FALSE` is used where the bounds stop everybody: in the lock run with the last version
written and the clock at its end, in the scaling and registration runs when the calls, writes or edits are
used up. Nobody has to call or to edit, so the system really may rest there.

Runs that TLC refutes, each a disagreement between the code and what the repository says of it (the quotes
are in `PROJECT.json`):

| run | refuted | what happens |
|---|---|---|
| `crash_strands_transition` | `TransitionEnds` | after a restart nobody watches the Job; the stuck-state check cannot fire, because a fresh state machine has no backoff |
| `progress_after_release` | `Converges` | the hooks' last write overwrites the progress of an operation that began after the release |
| `uncordoned_shutdown` | `CordonedDuringShutdown` | Job and uncordon loop outlast the lock; the late uncordon meets a newer shutdown |
| `decrease` | `NoMoreThanAsked` | with no Node running, a decrease by one tells every starting Node off |

The first three have `Prompt = TRUE`: they happen at normal speed, except `uncordoned_shutdown`, whose
Job ends just in time and whose kubelet is late.

### Further disagreements seen while modelling

These have no run of their own; the models contain the behaviour, and properties are stated so as to except it.

- `cleanupExpiredLocks` judges a listed copy and `forceReleaseLock` does not look again: a lock taken in
  between is removed while it is in force (`node_controller.go:503`). `Exclusive` excepts such holders (`lost`).
- All operations of the node controller share one owner string, so that a late `ReleaseLock` removes the lock of
  a newer operation in spite of "Check if we own the lock before releasing" (`coordination.go:137`). Also in `lost`.
- After a startup that failed although the machine came up, power is `on` and progress `shutdown`. Neither
  branch of `handleStateTransitionsWithFSM` applies when the Node is then desired off, in spite of "Failed startup
  jobs → Shutdown state (ready for retry)" (`docs/architecture/state.md:98`). Hence `Converges` is checked for
  Jobs that work.
- `NodeGroupDecreaseTargetSize` makes a starting Node `shuttingdown` and leaves `LastShutdownTime`
  (`server.go:482`). If an older shutdown left one, the transition looks stuck at once and the lock of the
  startup, whose Job still runs, is removed before it has expired. `StuckMeansOld` excepts this case and says
  that there is no other; with two gRPC calls TLC reaches it.
- `cleanupPendingJobs` runs "before starting new operation" (`node_state_machine.go:99`), "to ensure clean
  state" (`:872`). The Pod of a Job deleted there goes on (no propagation policy at `:873`), and a Job that is retried
  after a failed Pod is skipped, and taken for failed by its monitor (`:871`, `:323`). So a startup and a shutdown
  can switch the machine at the same time. `OnePendingJob` claims no more than the code's own test does: it is
  about pending Jobs, and says nothing of Pods.
- `NodeGroups` counts the Nodes that bear the label of a group and calls that `MaxSize`. The comment above it says
  "maxSize=GroupSpec.MaxSize" (`server.go:109`), and the documentation has administrators set it ("maxSize: 5",
  `docs/api-reference/crds/group.md:35`, `README.md:48`), but `GroupSpec` has no such field. `SizesAgree` is therefore no
  claim about a configured limit; it relates the number to the instances of `NodeGroupNodes`.
- The Group controller writes its condition with a new time stamp in every pass (`group_controller.go:60-74`), which
  changes the Group and triggers the next pass, until two passes fall into the same second (the stamp is written in
  seconds). Nothing modelled reads the time stamp.
- After a Group is deleted and created again, a Node that is reconciled while the cache still shows the old Group
  gets an owner reference with the old UID, and the garbage collector deletes it.
- `NodeGroupIncreaseSize` looks at the sign of `delta` only and starts one Node, and returns before it runs
  (`proto/externalgrpc.proto:69-72`); `NodeGroupDeleteNodes` does not look at the group it is given (`:74-77`).
  `OwnGroupOnly` is stated for the other two calls.
- A Node whose group label is changed after it has an owner is refused by `ctrl.SetControllerReference` on every
  reconciliation from then on: it is not operated, gets no provider ID, and is deleted with the *old* Group.
  `Accepted` excepts such Nodes.
- A Node whose `kubernetesNodeName` is changed leaves its labels and its provider ID on the old Kubernetes node; two
  Nodes that name the same one rewrite its labels in turns. `Sole` excepts the latter. A Kubernetes node keeps the
  provider ID of the Node that named it first (`node_controller.go:266-269`), for a Node that names it later too; when the
  first one has given its own ID to another Kubernetes node since, the two Nodes share one instance. `OwnProvider` excepts
  the Nodes with somebody else's ID.
- `NodeGroupTemplateNodeInfo`, `NodeGroupDeleteNodes` and the pricing query look up by the name of the one kind of
  object what the caller or the Node names by the other. In `docs/api-reference/examples/production-examples.yaml:41-48` the two names differ;
  the template is then a placeholder without capacity. `TemplatesFit` is stated for groups whose Nodes name their namesakes.

### Fairness

Fairness is used for liveness only.

`NodeLifecycle`: `FairSpec` has weak fairness for the worker (controller-runtime requeues the Node), the hooks
and monitors (goroutines run), the mirror controller (triggered by node changes and retried on error), the
second update of a gRPC call that has made the first, and the kubelet. `Tick` has strong fairness: time does
not stand still because others are busy; with `Prompt = TRUE` it is disabled for moments again and again, and
weak fairness would let it stop. No fairness for gRPC calls, failures and restarts: nobody has to call, fail or
crash. And none for Jobs: their containers restart on failure and have no deadline, so a Job, or the Pod a deleted one leaves behind, may hang for ever, and
`transitions_end` holds nevertheless, because the monitor's timeout ends the transition. `PromptSpec` adds
fairness of Jobs. It belongs to `Prompt = TRUE`, which lets time pass only as long as no Job is late; the
refuted liveness runs use it too, so that none of them blames a hanging Job.

`GrpcScaling`: informers catch up and handlers return, be it with an error. Nobody has to call, and the
controllers do not have to write: `TargetSizeStabilizes` speaks of Nodes that have come to rest for good.

`NodeRegistration`: weak fairness for the watches, the garbage collector, the Group controller (triggered by
the Group, retried on conflict) and the steps of the worker; strong fairness for `ReconcileBegins(n)`, which is
disabled whenever the one worker is busy with another Node: the work queue is fair, and a reconciliation ends with
an error, a `RequeueAfter`, or an operation whose writes to the Node trigger the next. No fairness for edits.

## Proofs

All for every value of the constants: any number of clients, cleaners, owners, monitors, Nodes, groups and
handlers, any timeouts, any bounds. The assumptions are the named `ASSUME`s: sets of the right kind, positive
timeouts, owner strings that are not empty, no process that is both client and cleaner or both worker and
monitor, `None` outside the names, finitely many Nodes where they are counted, and `StuckAssumption`: a
transition is stuck no earlier than a lock expires (15 minutes and 5 in the code). Every safety and every
action property of the passing runs is proved. The theorems that state no property of a run are marked (*).

*NodeFsm.* Facts about the table, which the comments of `events.go` take for granted: it is deterministic
(`TableIsDeterministic` *, so that the order of the slice does not matter), its rows alternate between stable and
transitional states (`TableAlternates` *), each event fits the states the code raises it in
(`EventsFitStates` *), and an operation that fails or times out leads back to where it began
(`FailureUndoes` *). The proofs about the lifecycle rest on these rather than on the rows.

*CoordinationLock.* `TypeCorrect`; `LockInvariant` *, the inductive strengthening `LockInv` of `Exclusive`;
`MutualExclusion`; `OwnersOnlyRelease`; `LeaseRefinement`. `Exclusive` alone is not inductive, since it does not
say what the annotations have to do with the holder. `LockInv` adds (1) `WriterSawAvailable`: a client about to
write saw an available lock in the very version its Update is conditional on, so that if the Update goes
through, that lock is still the current one, and time can only have made it more available; and (2)
`HolderInForce`: a holder within its lease whose lock was not removed by others is the one client the
annotations stand for. Two such holders would both be that client. `OwnersOnlyRelease` needs the same fact for
the other direction (`ReleaserSawOwner`): a client about to remove the annotations saw its own owner string
in the version its Update is conditional on.

*NodeLifecycle, operations.* `TypeCorrect`, `AtMostOnePendingJob`, `TransitionsAreWatched`, `ImplementsObject`,
`OperationsFollowTable` * and `RestStays` *.

- Types need `EventKnown`: in the hooks the event is one of the three Job events, without which the
  destination they write would not be in the table.
- `OnePendingJob` is strengthened by `WorkerCleaned`: from the clean-up until the worker creates its own Job
  no Job is pending, because only the worker creates Jobs and a Job that is being retried does not become pending
  again. Failures are excepted one kind at a time: of all calls only the deletions have to succeed, on a list that
  shows what is there.
- `NoOrphanedTransition` is strengthened by `FreshAskedOff`: as long as the second update of
  `DecreaseTargetSize` can succeed, the Node is starting up, off, and told to be off (anybody who changes that
  writes the Node and makes the held copy stale), so that it never makes a settled Node transitional. Of
  the hooks it uses that the last write before a goroutine ends is a stable progress (`HookSettles`).
- `ImplementsObject` needs `FreshAskedOff` for `TurnBack`, and `WorkerSettled` for `WriteProgress`: between the
  worker's look at a stable Node and its own first write nobody else makes the Node transitional. That
  is not obvious, since the worker does not look again and holds the lock for part of that time only.
- `RestStays` is the safety half of `Converges`: a Node that is as desired, with nobody under way and no Pod
  running, those of deleted and retried Jobs included, stays so until gRPC is called. It uses `FreshAskedOff` again: the second update of a decrease
  may still be to come, but cannot succeed any more.

*NodeLifecycle, lock.* `StuckLocksAreOld`, `ImplementsLease`, `LocksAreHeld`.

- `StuckMeansOld` is about a single step and needs a relation between the ages of three timestamps,
  `TransitionIsNewer`: a transition is no older than the lock in force, unless the lock is that of a startup and the
  Node is shutting down (`TurnedBack`). It is kept because the timestamp is written after the lock is taken
  (`EnterLock`: the worker writes it under its own lock, or under none) and because a Node that is starting up never
  carries the lock of a shutdown (`StartupLock`). The exception is the one case in which it fails; with
  `StuckAssumption`, "stuck" then implies "expired".
- `ImplementsLease` uses that without a lock there is no age (`FreeIsNew`).
- `LockHasHolder` is strengthened to `HolderInv`: the goroutine that holds the lock has watched its Job no longer than
  the lock is old (`Keeps`), so that it cannot time out before the lock is as old as `JobTimeout`. The hooks of an older
  operation may release the lock of a newer one, but then there is no lock, which is why the property is
  about locks that are there.

*GrpcScaling.* `TypeCorrect`, `RunningIsSpared`, `StaysInGroup`, `ImplementsObject`, `TargetSizeIsTrue` *, all from
one invariant `Inv == TypeOK /\ CacheIsTrue /\ CallOk`. The properties are about the object a call writes, the
code's guards about a copy it has read some time ago from a cache that may have been old then. `CacheIsTrue`
says that a copy taken for the latest is what the API server holds; `CallOk`, that for the copies a handler
holds of the latest version the Node *is* what made the handler choose it (off in every respect, or starting,
and of the group). Every writer takes the Node out of `current`, so a write that passes the version test
finds the Node as it was chosen. `TargetSizeIsTrue` is the safety half of `TargetSizeStabilizes`: a wrong target
size is never more than a cache that lags or a Node that is not at rest. `DecreaseAsAsked` * is about the
arithmetic alone: with r running and s starting Nodes a decrease by d tells off at most d of them exactly if
s <= r or s <= d, and none exactly if s = 0 or s + d <= r. It is the condition under which the refuted
`NoMoreThanAsked` does hold.

*NodeRegistration.* `TypeCorrect`, `OwnerIsOfLabel` and `ReconcileSettles` *, from
`Inv == TypeOK /\ LatestIsTrue /\ WorkOk`. The first two by the same argument for the worker's copy: as long as it
is current, it is the Node. `ReconcileSettles` says that at a fixpoint, where every tie is as the Nodes ask for, no step but an
edit changes a Node or a Kubernetes node. It goes through every action, with the worker anywhere in a
reconciliation: its patches are empty, the owner reference is found, the provider ID is set
(`CopyIsTied`), and nobody else has anything to do. It does not speak of the Groups, which their controller goes on
writing.

Only model-checked: the liveness properties (`LockNeverLeaks`, `TransitionEnds`, `Converges`,
`TargetSizeStabilizes`, `ViewsAgree`, `TemplatesFit`, `SizesAgree`, `Operable`), since fairness and
`ENABLED` are beyond the proof system's reach (of `Converges` and `TargetSizeStabilizes` the safety halves are
proved, as said); and what the refuted runs show, each of which is one behaviour.

## Not modelled, and why

- Stale reads and other lock owners inside `NodeLifecycle`: `CoordinationLock` is about them.
- `ForceCleanup`: the check that would raise it needs a backoff, and every reconciliation builds a state
  machine without one.
- Conditions of Nodes and the autoscaler taint: nothing modelled reads them. An Update that changes the conditions only
  would make copies old that the models take for current. Its effect is an update that fails: `DecreaseUpdatesStatus` may fail on
  a current copy, and `ReturnsError` in `GrpcScaling` on any.
  The Group's condition is modelled; the new time stamp every pass gives it is not.
- The deletion of finished Jobs after their time to live (10 minutes unless configured): the monitor, which polls every 30
  seconds for 5 minutes, has ended by then. With a time to live shorter than a poll it would time out instead.
- Nodes with a deletion time stamp: the branch for them only logs. A deletion is one step.
- Pricing, options, GPU queries, `Refresh`, `Cleanup`, and of the template everything but the group label: they
  read one object and format it, or do nothing.
- Pod specs and the contents of Jobs: data that is passed on. What a Job does is `JobActs` and `JobEnds`.
- Server manager, configuration, main: wiring at start and stop. Stubs and deep copies are generated.

## Plan

Done: the lock, its refinement and proofs; the life of one Node under faults, with proofs of its operations and
its lock; the calls on groups of Nodes; registration, webhook and queries; `NodeObject` and `LeaseLock`
between them, each refinement checked and proved.

Worth doing next:

1. The exact condition under which `CordonedDuringShutdown` does hold: as long as no uncordon loop of an earlier
   operation is left when the shutdown takes its lock. A theorem of that form would tell which timeouts are enough.
2. An abstract Node life cycle (off, starting, on, stopping) below `NodeObject` that holds without faults.
3. `NodeLifecycle` reads the latest version of the Node; a lagging cache in its worker would show more
   interleavings of `HandleStateTransitions`, at the price of a larger state space.
4. The taints, which the autoscaler writes and two parts of this code remove.
5. What a Pod of a deleted or retried Job does to the operation after it: a refuted run of its own, and the bound on
   the life of Pods under which startups and shutdowns do not act together.
