# Silent Assassin: a TLA+ model

Silent Assassin (SA) makes the preemption of GKE's preemptible VMs harmless: it
gives every preemptible node an expiry time in quiet hours, drains and deletes
the nodes that have expired, drains those that Compute Engine is about to take,
and moves workloads from on-demand fallback pools back to preemptible ones.
This directory holds TLA+ modules that model the program, TLC configurations
that check them on small instances, and TLAPS proofs for all instances.
Paths below are relative to the repository.

## 1. Inventory

One binary has two sub-commands. `server` runs four goroutines (spotter,
killer, shifter, HTTP server) next to a notifier that posts to Slack. `client`
runs in a DaemonSet on every preemptible node. There is no database: all lasting
state is the Kubernetes API server's (nodes, pods, annotations) and the cloud's
(instances, node pools). The goroutines share nothing in memory but the
notifier's channel; they interact through the objects of the cluster, which the
kubelets, the scheduler, the autoscaler and Compute Engine write too.

| Component | State | Operations | Interacts with |
|---|---|---|---|
| Spotter, `pkg/spotter/spotter.go` | the nodes it listed in this pass | list nodes, choose an expiry time, write the node back with the annotation | API server |
| Expiry time, `pkg/spotter/expiry.go` | the white list | `initWhitelist`, `getExpiryTimestamp` | called by the spotter |
| Killer, `pkg/killer/killer.go`, `node.go` | the expired nodes not come to yet | list, evacuate, delete node object, delete VM | API server, Compute Engine |
| Evacuation, `pkg/killer/node.go`, `pod.go` | the node it fetched, the pods to delete | fetch, cordon, list pods, delete them one by one, wait | run by the killer, each HTTP request, and the shifter |
| HTTP handler, `pkg/httpserver` | one goroutine per request, the listener | decode, evacuate, answer; listen, shut down | called by the client |
| Shifter, `pkg/shifter` | the intervals due, the pools and nodes not come to, deletions so far | list pools, cordon a pool, resize another, evacuate and delete node by node | API server, container API |
| Google Cloud client, `pkg/gcloud/client.go` | none | `DeleteInstance`, `SetNodePoolSize` and its wait, lists | used by killer and shifter |
| Kubernetes client, `pkg/k8s` | none | get, list, update, delete | used by all |
| Informer, `pkg/informer/preemption.go` | the notice, the tries made, the request's body | watch `preempted`, send the request, try again, stop | metadata server, HTTP handler |
| Process life cycle and notifier, `cmd/...`, `pkg/notifier` | WaitGroup, context, unbuffered channel | start, signal, shut down | all goroutines |
| Slack, configuration, logging, mocks, charts | none that changes | formatting, reading once | - |

What is hard here, and what makes each part correct:

- **Spotter.** It writes back whole objects that it listed some calls before. A
  cordon or an annotation written meanwhile must survive (`NoLostUpdate`), and
  a node must get its expiry time although an update of it loses against the
  kubelet's or another server's (`EveryNodeIsMarked`). What it gets is its own:
  the name may have passed to a younger VM since the list (`MarkedForItself`).
- **Expiry time.** Two projected days, intervals round midnight, intervals that
  touch, random minutes with the end included: the time must lie in the white
  list and within the VM's day (`ExpiresInWhitelist`, `ExpiresWithinADay`), not
  before its second half, if the docs are right (`ExpiresAfterHalfADay`), and
  the two errors come only when they should (`GivesUpOnlyInside`, `NeverTooLate`).
- **Killer.** It acts by name on a list that is minutes old, while preemption,
  a second server of a rolling update and HTTP requests work on the same nodes;
  each of its calls can fail, or succeed and lose its answer; the server can die
  between two calls. Only expired nodes go (`DeletesOnlyExpired`), the VM after
  its object (`InstanceAfterNode`), and an expired node does go (`ExpiredNodeGoes`).
- **Evacuation.** Pods are scheduled while it runs; success must mean that the
  node is drained and stays so (`SuccessMeansDrained`, `DeletesOnlyDrained`).
- **Shifter.** It cordons a whole pool before it makes room. Nodes are drained
  before they go (`SourceIsDrained`), and the nodes it has still to come to are
  not open to the pods of those it is draining (`SourceStaysShut`), also when
  calls fail. It counts deletions to decide when to resize; each on-demand node
  goes through its life in one order, and none before the resize that is due
  (`MovesInOrder`). A resize should add a node (`ResizeAddsOne`), although what it
  starts from is a list of registered nodes.
- **Informer, HTTP handler.** A client that is told 204 must have an empty node,
  whatever became of its earlier tries and of the server meanwhile
  (`InformedMeansDrained`), and informing comes to an end (`InformingEnds`). Its
  tries share one request object (`RetriesCanBeSent`).
- **Process life cycle.** A shutdown races with loops in mid-pass and with an
  unbuffered channel whose reader stops first: `main` must end (`ShutdownEnds`),
  and not by itself while the killer is half way through a node
  (`NothingHalfDone`). A goroutine may hang at the channel only in a shutdown, and
  a loop that does keeps `main` waiting (`OnlyShutdownHangs`).
- **All of them together.** Each node goes through its life in one order, whoever
  works on it (`KeepsLifecycle`).

`PROJECT.json` lists every hazard with its line and the properties for it.

## 2. Modules

```
Cluster --- Evacuation -+- Killer -------------+
                        +- TerminationHandler -+- Workers   (INSTANCE NodeLifecycle)

Workers, Spotter ------------------- NodeKilling -- MCNodeKilling
Workers, ServerProcess, Informer --- Preemption --- MCPreemption

Evacuation, NodePools --- Shifter --- Shifting ---- MCShifting
                                       (INSTANCE PoolMove)

ExpiryTime -- ExpiryChoice -- MCExpiryChoice

EvacuationProofs -+- WorkerProofs -- NodeLifecycleProofs -+- NodeKillingProofs
                  |                                       +- PreemptionProofs
                  +- ShiftingProofs

ExpiryTimeProofs ---- ExpiryChoiceProofs    (and NodeKillingProofs)
```

`Cluster` is the environment: `nodes` (the API server's node objects: revision,
creation time, cordon, expiry annotation), `revision` (the last revision given
to a name), `host` and `terminating` (pods), `vms` (instances that run) and
`clock`. The calls of the two clients are operators on it, one atomic step each.
An `Update` is a PUT of a whole object and applies only to the revision the
object was read from. A call that fails was either rejected, or applied with its
answer lost, so operators take the outcome `ok` that the caller sees as a
parameter. The rest of the module is what the cluster does by itself: kubelet
heartbeats, scheduling, pods that go, preemption, garbage collection, new VMs.

`Evacuation` is `EvacuatePodsFromNode`, for any set `Worker` of goroutines.
`pc[w]` names the API call the goroutine is about to make: `getNode` (node.go
line 157), `cordon` (165), `listPods` (93), `deletePod` (98), `wait` (72), and
`evacuated` or `failed` for its two returns. `held` is the fetched object that
the cordon writes back, `todo` the entries of the pod list not deleted yet. An
entry is a pod and the index of an owner reference because the filter appends a
pod once for each reference that is not a DaemonSet's. The code between two
calls belongs to the step of the next call.

`Killer` adds `queue`, the rest of `kill`'s list, and the pc `deleteInstance`
between the two halves of `deleteNode`. `TerminationHandler` lets any goroutine
of `Handler` take a request for any node at any time. `Workers` is the two of
them together, with what they lose in a crash, and the promise about the life of
a node that every composition with them makes. `Spotter` keeps `listed`,
the copies of the objects of its pass. `NodeKilling` composes it with the workers and
`Crash`, which forgets what the process knew and leaves the cluster alone. Two
killers and two spotters are two servers, which the Deployment's rolling update
allows; a crash stops both, one server's death being a goroutine that never
moves again. The order in which lists are gone through is left open.

`ExpiryTime` has the operators of expiry.go on ticks: `Minute` ticks to a minute
and `Day` to a day, because creation times have seconds and expiry times do not.
`ExpiryChoice` is one call of `getExpiryTimestamp` for any white list and any
creation time. In `NodeKilling` the spotter's choice is the constant
`ExpiryTimes`, which `MCNodeKilling` computes with `ExpiryTime`.

`NodePools` is the container API: for each preemptible pool its `size` per zone
and the nodes `up` in each zone, which follow the size as machines are to be
had. `SetNodePoolSize` covers the call and its wait: an error may mean that it
was refused or that it was carried out all the same. A pool saturates at `MaxSize`.
`Shifter` has `shift[s]`, the local variables of `shift`, with `at` for the call
it is about to make: `idle`, `pool` (the loop over the pools, line 184), `list`
(199), `cordon` (208), `node` (216), `size` (220), `resize` (230), `evacuate`
(239, the steps of `Evacuation`); `due`, the intervals of this turn of `Start`
still to be shifted for; and `grown`, a history variable that counts the resizes
for the current pool. `makeNodeUnschedulable` fetches and writes a node in one
step: the conditional write makes the pair equal to one step on the current
object or an error. `Shifting` composes it with the on-demand nodes, the
preemptible pools and `Crash`. Spotter and killer list nodes by the preemptible
label and do not meet the nodes of the on-demand pools; what they do to the
preemptible pools is `NodeLeaves`.

`NodeLifecycle` is the abstract specification: each node on its own is unborn,
open, cordoned or gone, marked with an expiry time at most once, takes load only
while open, keeps its cordon, and leaves when its machine is gone or when it has
expired, is cordoned and carries nothing. `NodeKilling` and `Preemption` implement it
under the mapping `stage`/`expiry` read from the node objects, `load` the pods the drain is
for, `machines` the VMs, `now` the clock: `KeepsLifecycle == Lifecycle!Spec`.

`PoolMove` is its counterpart for the nodes of on-demand pools, which have no
expiry time but a mover: a node leaves with its machine, or cordoned, empty and
while a mover has `room`. Room grows by a ration with each resize, is paid for every
deletion the mover knows of, and is forgotten when a pool is done with or given
up. `Shifting` implements it (`MovesInOrder == Move!Spec`) with `room` mapped to
`NumberOfZones * grown - deleted`, two numbers that the code never compares. That
`room` is a natural number, and positive whenever a node leaves, is not part of
the mapping and has to come out.

`ServerProcess` is `serverCmd`: `main`, the place of each service (`select`, a
`pass`, `returned`), the WaitGroup's counter, and `blocked`, the goroutines that
wait in `publish` for a notifier that has returned. A loop looks at the context
only between two passes; the notifier and the HTTP server react at once. While
the notifier is there, handing it a message takes no step of its own: the
message is part of the step that publishes. `Informer` is the client of one node: `noticed`, its
place (`watching`, `informing`, `waiting`, `informed`, `gaveUp`, `off`), the tries
made, whether its request's `body` is unread and whether a `pooled` connection is
there. net/http (Go 1.14) can send a request whose body was read only over such a
connection, where it rewinds the body; on a new one it refuses.
`Preemption` composes them with the killer, the handlers and the cluster:
`serving[n]` is the handler whose answer the client of `n` waits for. A
connection may break at any moment, and its handler goes on without a client;
`Status` is the first of the handler's two calls of `WriteHeader`, the one that
counts. `Exit` and `Kill` take every goroutine of the server with them and break
the connections; `ClientDies`, `Terminate` and `StartClient` are the client's.

Operators that a comment calls a slip are not used by the specifications. Each
changes a definition the way a bug would, to show that a property notices.

## 3. Runs

| Run | Instance | Checks | Shows |
|---|---|---|---|
| `node_killing` | 2 nodes, an evacuated and a DaemonSet pod, killer, spotter, one request at a time, crashes | `TypeOK`, `InstanceAfterNode`, `SuccessMeansDrained`, `NoLostUpdate`, `DeletesOnlyExpired`, `DeletesOnlyDrained` | the safety properties under every interleaving, error and lost answer |
| `rollout` | 1 node, 2 killers, 2 spotters, a pod with two owners | the same but `TypeOK` and the last, `EveryNodeIsMarked`, `KeepsLifecycle` | nothing relies on there being one server; an update that failed is made up for in a later pass; the system implements `NodeLifecycle` |
| `live` | 2 nodes, names used again, a pod that may never terminate | `MarkedForItself`, `ExpiredNodeGoes` | an expired node goes, even behind one that cannot be drained; a late mark never hits a younger node |
| `expiry` | a day of 12 ticks, a minute of 2, every white list of at most two intervals, every creation time of a day and two ticks | `TypeOK`, `ExpiresWithinADay`, `NeverTooLate`, `ExpiresInWhitelist`, `GivesUpOnlyInside` | the expiry time is right at every boundary |
| `shifter` | 3 nodes of one pool, a second pool without nodes, two deletions to a resize, crashes | `TypeOK`, `SourceStaysShut`, `SourceIsDrained`, `MovesInOrder` | all shut, drain first, on every path; the shifter implements `PoolMove`, so that no node goes before the resize that is due |
| `preemption` | 1 node with its client of two tries, a handler, killer and spotter of one server, a pod; signals, crashes and restarts of both processes, broken connections | `TypeOK`, `InformedMeansDrained`, `NothingHalfDone`, `OnlyShutdownHangs`, `KeepsLifecycle`, `ShutdownEnds`, `InformingEnds` | 204 means drained; a server whose `wg.Wait` returns leaves no node half deleted; it too implements `NodeLifecycle`; shutdown and informing end, but for goroutines that wait for the notifier |
| `orphan` | 1 node | `InstanceGoesToo` | violated: a VM outlives its node object, until Compute Engine takes it |
| `name_reuse` | 1 name, used twice | `DeletesOnlyExpired` | violated: a fresh node is deleted for an old one |
| `half_day` | as `expiry` | `ExpiresAfterHalfADay` | violated: a node may expire right after its creation |
| `shifter_resize` | 1 node, a pool of one node that may grow to two | `ResizeAddsOne` | violated: a resize asks for the size the pool has |
| `shifter_leftover` | 2 nodes, a pool minimum of 1 | `CordonedSourceGoes` | violated: a cordoned node is left for good |
| `preemption_retries` | as `preemption` | `RetriesCanBeSent` | violated: a try with nothing to send |

The six violated runs state what the READMEs or a comment say; the `findings` of
`PROJECT.json` quote the lines. In short:

- `orphan`: `deleteNode` deletes the object, then the VM. If the second call
  fails or the server dies in between, no later pass lists the node, and the VM
  runs until Compute Engine takes it, up to 24 hours after its creation.
- `name_reuse`: `kill` works by name and does not read the expiry time again.
- `half_day`: the README promises a deletion after 12 hours and before 24. An
  interval only has to start after the creation and end before the same time of
  the next day; a test accepts expiry times within two hours of the creation.
- `shifter_resize`: the comment says current size and one. The code counts the
  registered nodes of the fullest zone, which are fewer than the pool's size after
  a preemption or when machines are missing.
- `shifter_leftover`: the whole pool is cordoned first. When the shift then gives
  up, and the pool is at its minimum by the next pass (nodes were deleted, or went
  by themselves), nothing uncordons the rest or comes back for it.
- `preemption_retries`: all tries are made with one `*http.Request`. When the
  connection of a try breaks, its body has been read; the further tries need a
  new connection and fail before anything is sent.

`ShutdownEnds` and `InformingEnds` name the one way out they allow: a goroutine that publishes after the notifier has returned waits for
ever (`publish`, an unbuffered channel). A loop that does so keeps `main` in
`wg.Wait` until the kubelet kills the process; a handler keeps its client
waiting, since neither side has a timeout. TLC reaches both; `OnlyShutdownHangs`
says that there is no other way to hang. What a loop was doing is then cut off: a
killer that hangs after it has deleted a node object leaves the VM to `orphan`'s
fate, and `NothingHalfDone`, which is about a `wg.Wait` that returns, does not
cover it.

### Bounds, and why they are enough

- `MaxTime` 1: before and after a node's expiry. Expiry times beyond it stand for
  nodes that do not expire during the run. The shifter's day has two ticks, in
  and out of its interval; `shifter_leftover` stays inside one.
- `MaxRevision` bounds the kubelet's heartbeats (and in `name_reuse` and `live` the new VMs),
  not the writes of SA. One or two newer revisions are enough to make any copy
  stale at any of its uses, and a stale copy stays stale. For the liveness
  properties the bound does what `Fairness` assumes anyway, that conflicts end.
- Two nodes: one that is worked on and one whose turn it is next. `rollout` has
  one, as its question is what two servers do to the same node. Names are
  interchangeable; symmetry is used in runs without liveness only.
- One pod of each kind that the filters tell apart. Properties speak of one pod
  at a time, and `todo` never compares pods.
- The spotter's day in `MCNodeKilling` has four ticks and the interval `<1, 2>`.
- `MCExpiryChoice` has six whole minutes to a day, so that two intervals can be
  apart, touch, overlap, nest and go round midnight, and creation times on the
  minute and off it, on both sides of midnight.
- Three source nodes and a resize for every two deletions make the third deletion
  need a second resize, with failures before, between and after. `MaxSize` 1 keeps
  the pool's sizes apart that the shifter tells apart only by adding one.
- `Preemption` has one node, as a client and its requests are about one node; the
  killer and the handler meet on it. Two tries are the first and one that finds
  what the first left. `MaxTime` 0: when nodes expire is of no matter here, so
  every marked node has expired. One handler at a time is enough to be left
  behind by a broken connection and still be running while the client gives up,
  dies or starts again; that two of them meet on one node is covered by
  `PreemptionProofs`, whose theorems hold for any number of handlers.

### Fairness

`FairSpec` says what the Go runtime and a working cluster give: each server
loop, and each handler that has taken a request, takes a step if it can (weak
fairness per goroutine: there is no lock, and the notifier, the only goroutine
that others wait for, takes every message until shutdown);
time passes; a terminating pod goes, unless it is in `Stuck`. Requests, pods,
preemptions, heartbeats and new nodes are under no fairness. Errors the cluster
had no reason for, updates that meet a newer revision of their node, drains that
time out with nothing left to wait for, and crashes may happen any number of
times but not for ever (`<>[][~ Fault]_vars`); without that the program can promise
nothing. Conflicts are among them because neither the spotter nor an evacuation
tries again at once: each lists or fetches anew in its next pass, and a kubelet
whose heartbeats always come in between would keep a node unmarked, or
undrained, for ever. Nothing in the code excludes that; `EveryNodeIsMarked` and
`ExpiredNodeGoes` hold if it does not happen. Other refusals with a reason (the
node or the pod is gone, pods are left when the wait ends) are no faults. A crash in a
state where it looks like an ordinary step (an idle pass that finds nothing) is
not counted either, so that this assumption forbids no step of the loops.

In `Preemption` fairness is weaker still: the goroutines of both processes run
(each loop's pass, each handler, each service's `Return`, `main`'s end, each
client's tries), and nothing is assumed of signals, crashes,
connections, pods, nodes or errors. The properties are that shutdown and
informing come to an end, in success or not.

## 4. Proofs

The modules with theorems hold for every number of nodes, pods, servers, requests,
shifters, pools, zones and tries, every set of owners and every set of expiry
times. `EvacuationProofs` and `WorkerProofs` hold the lemmas that the
compositions share: what a step of anyone may do to a node (`NodesStep`: kept,
removed, rewritten under a new revision, born; `Orderly`: not opened again, and
no pod put where a cordon keeps it away), to one evacuation (`Advance`), and, for
a step of killer, handlers, cluster, crash or a mark (`MarkStep`), `WorkStep`. What
`NodeKilling` and `Preemption` have to show is then only that each of their steps
is a `WorkStep` (`StepsWork`).

The inductive invariant of the workers is `WorkInv`, whose parts are:

- `WorkTypeOK`: types, and `ControlInv` (a worker that is not idle has a target, one
  about to cordon holds an object), without which the targets could not be typed.
- `HeldInv`: a copy held by a worker is the current object or has an older revision,
  so an accepted write starts from the current object. `ListedInv` says the
  same of the spotters' copies.
- `SeenInv`: what is worked on was registered before. With `~ NameReuse` that keeps
  a name from being born again.
- `DrainInv`: from its cordon on the target is gone or cordoned, and after the wait
  it carries no load; by `Orderly` it stays so.
- `ExpiryInv`: what the killer queued or works on has expired or is gone.

`NodeKillingProofs`:

- `TypeCorrect`: `Spec => []TypeOK`.
- `LostUpdatesImpossible` and `MarksAreOwn` (`MarkedForItself`), from the copies alone
  (`CopiesInv`: types, `HeldInv`, `ListedInv`) and thus even if names are used again:
  the conditional write is what protects the marks.
- `MarksAreInHours` joins the spotter with the choice of the time: for any white list,
  if `ExpiryTimes` are those that `getExpiryTimestamp` may choose from it, then every
  mark in the cluster is within a day of its own node's creation and in the
  white list. It rests on `MarksAreOwn` and on the lemmas of `ExpiryTimeProofs`.
- `SuccessIsDrained`, `OnlyDrainedDeleted`, from `DrainInv`, given `~ NameReuse` and
  `OnlyDaemonsTolerate` (pods that tolerate the cordon are DaemonSets' or mirror
  pods).
- `InstanceIsLast`, `OnlyExpiredDeleted`, from `ExpiryInv`, given `~ NameReuse`.
- `LifecycleKept`: `Spec => KeepsLifecycle`, under the hypotheses of
  `OnlyDrainedDeleted`. Initial states map to initial states, and each step
  changes every node by one of the steps of `NodeLifecycle` or leaves it alone;
  `NodeLifecycleProofs` shows that of every `WorkStep`. `ExpiryInv` and `DrainInv` are
  needed for `Retire`, `HeldInv` and `ListedInv` for the writes, `SeenInv` so that no
  node joins twice.

`~ NameReuse` is a hypothesis of these theorems and no axiom; `name_reuse` shows
that `DeletesOnlyExpired` is false without it. GKE's instance groups do recreate
VMs under old names, so this is an honest limit of the program.

`PreemptionProofs`:

- `TypeCorrect`. That `wg` is never negative follows from `WaitInv`: it is the
  cardinality of the set of services that have not returned.
- `LifecycleKept`, by the same lemmas as for `NodeKilling`.
- `InformedIsDrained`: `Spec => []InformedMeansDrained`, given `~ NameReuse` and
  `OnlyDaemonsTolerate`. `ServingInv` ties a waiting client to a handler that
  works on its node, `DrainInv` makes the handler's success mean drained, and
  `InformedInv` (the node of an informed client is gone or cordoned, and empty)
  is kept by every later step, whoever takes it.
- `ShutdownIsClean`: `Spec => []NothingHalfDone`, as a killer that is outside its
  pass is idle with an empty list, and `wg = 0` leaves no service in a pass.
- `HangsAreVisible`: `Spec => []OnlyShutdownHangs`. `HangInv` adds that the notifier
  reads as long as `main` runs and that a process that is down has no handlers;
  a blocked loop is still in its pass, so `WaitInv` counts it.

`ShiftingProofs`:

- `TypeCorrect`. The strengthening is `Sound`, on which `MovedInOrder` rests too:
  `deleted` is 0 until the loop over the nodes begins, never more than
  `NumberOfZones * grown`, and strictly less while a node is evacuated. A node is
  begun without a resize only when `deleted % NumberOfZones # 0`, and then it
  cannot be equal (`RoomLeft`). `grown` counts resizes that succeeded, whatever
  size they asked for, so this is about the order of calls and not about nodes
  that are there; `shifter_resize` shows the difference.
- `SourceIsShut` (`SourceStaysShut`), given `~ NameReuse`: `Guarded` adds what holds
  while the pool is being cordoned. `Moves` lists what the loop does to
  its list of nodes.
- `SourceDrained` (`SourceIsDrained`), from `DrainInv`, given `OnlyDaemonsTolerate` too.
- `MovedInOrder`: `Spec => MovesInOrder`, under the same hypotheses. `MoveInv` joins
  the invariants above; `Books` is what a shifter's step does to `deleted` and
  `grown`, from which `RoomFollows` derives the abstract step of every mover;
  `NodeFollows` does it for every node. `StagesFollow`, `LoadFollows` and
  `JoinFollows` of `EvacuationProofs` serve both refinements.

`ExpiryChoiceProofs` proves the five properties of `expiry` for all day
lengths, white lists and creation times, from the lemmas of `ExpiryTimeProofs`:
where a candidate comes from (`CandidateFromInterval`), that `SinceMidnight`
undoes the shift by whole days (`TimeOfDayOfSum`), and that a maximal interval ends
where a configured one does (`EndOfStretch`).

Assumptions of the proofs are the named `ASSUME`s (`ClusterAssumption`,
`WorkerAssumption`, `ExpiryTimesAssumption`, `DayAssumption`, `CallAssumption`,
`ServiceAssumption`, `RetriesAssumption`, `PreemptionAssumption`, `PoolAssumption`,
`ShifterAssumption`, `OnlyShifters` and those of the other modules);
TLC evaluates them in every run.

Only model-checked: liveness (`ExpiredNodeGoes`, `EveryNodeIsMarked`,
`ShutdownEnds`, `InformingEnds`), which needs ENABLED and fairness
and is out of the prover's reach; and of course the violations. Every safety
property of a passing run, both refinements included, is proved.

## 5. What is left out

- **API details.** List errors of spotter and killer end a pass without a
  change and are stutters. A pod is bound to a node in the same step in which the
  scheduler looks at its cordon; a real scheduler may lag behind by a moment,
  which the wait of the drain makes up for only in part. The API server's
  checks of a delete by a precondition are not used by SA and not modelled.
- **Instances.** An accepted `DeleteInstance` means the VM is gone.
- **Shifter.** The VM of a deleted on-demand node is left to the cluster, as in the
  code. A deletion of a node object whose answer was lost is not counted, so more
  nodes may go than the resizes made room for. `GetNumberOfZones` is a
  constant; a region without zones makes the code panic. That a timed-out resize is carried out after later calls is left out.
- **Grace periods and timeouts** are durations: the model lets a wait time out
  at any moment.
- **Shifter, late.** The clock is read once for all intervals of a turn, so a
  shift may outlive its interval. The model has the step; the program promises
  nothing about it, so there is no property.
- **Pods without an owner.** The loop over owner references drops a pod that has
  none, from the drain as well as from the wait: in the model such a pod has no
  entries, and a node may be deleted with it. `SuccessMeansDrained` and its like say
  nothing of it, although docs/README.md says that all pods but those of
  DaemonSets are deleted.
- **Nodes without a date.** A node created inside the only interval gets no expiry
  time (`GivesUpOnlyInside` says that it is the only case) and lives to the end of
  its day.
- **Life of pods.** A StatefulSet's pod that is bound elsewhere under its name may
  be deleted there by a drain with an old list. The model has the step, and
  again no document says what should hold.
- **Notifier.** Messages are not told apart and posting to Slack always returns.
  In `Preemption` the killer is modelled call by call and the spotter stands for
  the other loops: what matters there is that a loop may be in a pass, publish
  in it, and block.
- **Informer.** The metadata server's long poll is external. A client that has
  informed the server or given up has no steps left: `Start` has returned without
  `wg.Done`, so SIGTERM makes it wait in `wg.Wait` until it is killed or its VM
  goes. The model has these states; no property is stated about them.
- **Configuration, logging, charts, mocks.** Configuration errors panic at start;
  logging and counters have no effect on the rest; there is nothing to interleave.

## 6. Plan

What the first plans listed is built: `Preemption` and `ServerProcess`,
`NodeLifecycle` and `PoolMove` with their refinements, and the proofs about each
composition.
Left for later:

1. Two servers in `Preemption`, behind one service address: a try may then go to
   the server that is not stopping.
2. A theorem about names that are used again: what the killer and the handlers
   still promise about the VM that has taken the name (`MarksAreOwn` and
   `LostUpdatesImpossible` hold already; `DeletesOnlyExpired` does not).
3. Larger instances of `preemption` (two handlers, two nodes) if more time than a
   few minutes is available; the theorems hold for them, liveness is not proved.
