# fluent-pvc-operator: specification and proofs

fluent-pvc-operator gives every Pod that carries the label
`fluent-pvc-operator.tech.zozo.com/fluent-pvc-name` a PVC of its own for its
logs.  When the Pod is over, a finalizer Job ships what is left on the PVC, and
the PVC is deleted after that Job has succeeded.  A `FluentPVCBinding` per Pod
records, in its conditions, how far this has come.

The specification is about that life cycle: the webhook that makes PVC and
binding, the reconcilers that carry them to their end, each reading informer
caches that lag and writing an API server that refuses stale writes, while the
cluster around them does what clusters do.

## Inventory

| component | source | state it keeps | operations | modelled in |
|---|---|---|---|---|
| pod mutating webhook | `webhooks/pod_webhook.go` | none of its own; creates PVC and binding | `podMutator.Handle` | `PodMutator`; the patch in `PodInjection` |
| binding reconciler | `controllers/fluentpvcbinding_controller.go` | the conditions, pod UID, owner and finalizer of the binding | `Reconcile` and what it calls | `BindingReconciler` |
| binding watcher | same | none | a tick every 5 s lists all bindings and queues them | fairness of `StartBinding` |
| PVC reconciler | `controllers/pvc_controller.go` | the PVC's finalizer, the finalizer Job | `Reconcile` | `PVCReconciler`; its queue in `Scheduling` |
| FluentPVC reconciler | `controllers/fluentpvc_controller.go` | the FluentPVC's finalizer | `Reconcile` | `FluentPVCReconciler` |
| pod reconciler | `controllers/pod_controller.go` | none; deletes pods | `Reconcile` | `PodReconciler` |
| API types, helpers | `api/v1alpha1/` | conditions, phase, identities | `SetCondition*`, `resetPhase`, `Is*` | `FluentPVCApi`; times and phase in `ConditionPhase` |
| controller helpers | `controllers/utils.go` | none | delete preconditions, job status, age, indexes, container status | `FluentPVCApi`, `Cluster`, `PodReconciler` |
| injection helpers | `utils/pod/injection.go` | none | `InjectOrReplace*` | `PodInjection` |
| FluentPVC validating webhook | `webhooks/fluentpvc_webhook.go` | none | dry-run creations | `PodInjection` (`Accepted`) |
| pod validating webhook | `webhooks/pod_webhook.go` | none | allows everything | no: nothing to say |
| name hashing | `utils/hash/utils.go` | none | `ComputeHash` | names are model values |
| manager, constants, generated code, manifests | `main.go`, ... | | wiring | `Finalization` composes; a restart in `Scheduling` |

How they interact: through the API server only.  The webhook writes PVC, binding
and Pod; the binding reconciler reads Pod, PVC and Jobs and writes the binding;
the PVC reconciler reads the binding's conditions and writes PVC and Job; the
FluentPVC reconciler reads the bindings' finalizers and writes the FluentPVC; the
pod reconciler reads Pod and FluentPVC and deletes the Pod.
Deletion goes by finalizers and owner references: the binding owns the Job, the
FluentPVC owns the binding, nobody owns the PVC.

What is hard about it, and which properties answer for it, is the list of
hazards in `PROJECT.json`; in short: four caches that lag on their own,
operations made of several calls that may stop in between, a timeout of an hour
that races the pod, two controllers that each wait for what the other writes,
names that come back (replicas, claims, jobs, a FluentPVC) with another UID.

What makes each component correct:

- binding reconciler: conditions come in their order and say the truth about the
  pod (`ConditionsInOrder`, `UseInv`); nothing is reported as Unknown because
  caches disagree, a late claim aside (`NoSpuriousUnknown`); the binding is not
  deleted before its claim is released (`BindingOutlivesClaim`).
- PVC reconciler: a job only when the pod is over (`NoFinalizationInUse`), a
  release only after a job completed or the pod was missing
  (`ReleaseAfterFinalization`); another owner's claim is not deleted or given up
  (`ForeignClaimUntouched`) nor processed by a job (`ForeignClaimUnprocessed`, with
  the exceptions named there); no claim is lost from its queue (`NoClaimForgotten`,
  `PassesKeepStarting`).
- together: a claim has the life that `ClaimLife` describes (`ClaimLifeSpec`) and
  is given up in the end (`ClaimsAreGivenUp`).
- pod reconciler: it deletes the pods whose sidecar has terminated, all of them
  (`BrokenPodsAreDeleted`) and no others (`OnlyBrokenPodsAreDeleted`); the sidecar
  is the container that the FluentPVC names when it is read, which after an edit
  may be another one than the pod was given.
- injection: whatever is submitted, the containers of a stored pod share its claim
  and the sidecar is the FluentPVC's (`PodsAreInjected`).
- conditions: the phase is the latest one (`PhaseIsLatest`, which does not hold).
- FluentPVC reconciler: the FluentPVC goes when it can (`FluentPVCGoes`), not
  before its bindings (`FluentPVCFinalizerLast`, which does not hold).

## Modules

`FluentPVCApi` has the objects, reduced to the fields the code reads or writes,
and what a write does to them.  `Cluster` has the API server, the caches and
everything outside the repository.  `PodMutator`, `BindingReconciler`,
`PVCReconciler` and `FluentPVCReconciler` are one component of the operator
each, over `Cluster`.  `Finalization` composes them and states the properties;
`MCFinalization` is what TLC runs.  `FinalizationInvariants` says why the properties
hold, and five modules have the proofs: `FinalizationProofs`, on it `ClaimProofs` and
`ReleaseProofs`, on these `LifeProofs` and `ReportProofs`; `SchedulingProofs` builds on
them.

`ClaimLife` is the abstract specification that `Finalization` implements.
`Scheduling` extends `Finalization` by the work queue of the PVC reconciler and by
restarts of the operator: there a pass starts only for a name that is due.  It has
the invariant of its queue, and says that a restart breaks none of the others.

Three modules are about parts that share no state with the life cycle.
`PodReconciler` (with `MCPodReconciler` and `PodReconcilerProofs`) has the pods of one
name, the FluentPVC with what is in it, and the reconciler that deletes pods.
`PodInjection` has the types of templates and pod specs, and the operators that both
webhooks and the PVC reconciler make pod specs with; `PodReconciler` submits,
validates and stores its pods by them, and `InjectionProofs` has the lemmas about
them.  `ConditionPhase` has the conditions of one binding with their times.

State and code:

- `binding`, `pvc`, `job`, `pod`, `fluentpvc` are the API server's objects by
  name.  A *name* is what the webhook draws for one request
  (`pod_webhook.go:70-75`): the PVC, the binding and the finalizer Job are called
  by it, so it also stands for the request and for the UID of its Pod.  `rv` is
  the resource version, which `Update` and the preconditions of
  `deleteOptionsBackground` are checked against (`SameBinding`, `SameClaim`).
  A condition that is absent and one that is False read the same in the code, so
  `conds` is the set of the True ones.
- `bindingCache` and the like are the informers' caches.  A reconciler reads
  `SeenBinding(n)` and the like: the cache for a kind in `Lagging`, the server's
  object otherwise.  A cache jumps to the present (`Sync...`), it never goes back.
- `request` is where `podMutator.Handle` is, and then whether the API server has
  stored or refused the pod.  `decoded` is what the handler has read.
- `br`, `pr`, `fr` are the local variables of the pass a reconciler is in (each
  has one worker, controller-runtime's default).  `pc` is its next API call, so
  that every other process may step between any two of its reads and writes.
  The reads that decide are made in the step of the decision; a pass that
  changes nothing is not a step.
- In `Finalization` requeues, events and the 10 h resync are not queues: a pass
  may start whenever what it reads makes it do something.  This allows every
  order of passes the work queues allow.  `Scheduling` has the PVC reconciler's
  queue, `claimDue`: the names queued, delayed or added again.  An event adds a
  name (`ClaimEvents`), a pass takes it, and its end puts it back where the code
  requeues or fails (`WorkClaim`) and not where it returns an empty result (`Done`,
  `DropClaim`).  The resync is left out: nothing may depend on it.
- In `PodReconciler`, `pod` is the API server's pod, with its spec, its phase and
  what the status says of each container; its successors have other UIDs.  `due`
  is the queue, `rc` the pass, with the pod and the FluentPVC it has read.  `made`
  remembers which FluentPVC a pod was made by, `asMade` that nobody has changed it
  since the last pod was; both are history.
- In `ConditionPhase` the clock is in ticks, `Second` of them a second, and a time
  is stored without the fraction (`Truncated`), as `metav1.Time` is.
- `aged` are the names whose binding is older than an hour (`isCreatedBefore`).
  `finalized` and `ran` are history that only properties read.
- Adverse events (`Fault`) are those of `FaultKinds`, at most `MaxFaults` of them
  in a behaviour: a pass stops half-way (an error, a restart of the operator), an
  admission fails, somebody deletes, touches or replaces a claim, a binding, a
  job or the FluentPVC, a job fails, a volume is lost, a pod starts before its claim
  is in the operator's cache.  A property that some of them break says so by
  `Spared`: it speaks of runs in which there are none of these kinds, or in which
  nothing has gone wrong so far.  Jobs of one claim are a set of what the code tells
  apart, the name and the status; a job made by hand (`AddJob`) has another name,
  and there is one such job at most.

Left out: the data on volumes and in pods, the conditions' reasons and messages,
the pod phase `Unknown` (deprecated, treated like Pending or Running by
the code), annotations, metrics and logs, namespaces (jobs and bindings are
listed across namespaces by a name that has 64 random or hashed bits), and more
than one binding per pod.  Users leave the labels of pods alone, so that a pod with a
binding's name label is its own and has the FluentPVC's label, too: the errors for
several such pods (`fluentpvcbinding_controller.go:207`) and for a pod that has lost
its label (`:278-287`) do not occur.

Definitions marked as mutants are not part of the specification.  Each is a
definition as a plausible bug in the code would have it, kept beside the one it
distorts to show that a property notices.

## Assumptions about the cluster

- When an hour has passed since a binding was created, the pod and the claim its
  admission made have been seen, and passes and requests that began before are
  over (`HourPasses`, `HourStep`).
- Deleted claims wait for their running pod (PVC protection controller), a
  terminating claim lets no new pod start, a finalizer Job runs only on a bound
  claim, at most one pod has a fixed name.
- Names drawn by the webhook do not collide.

It is *not* assumed that a claim reaches the operator's cache before its pod starts.
As a rule it does, since provisioning takes seconds and a watch event milliseconds,
but nothing in the code waits for it.  The rule broken is an adverse event,
`claimLate` (`ClaimInTime`): a pass then finds a running pod and no claim
(`fluentpvcbinding_controller.go:150-157`), the binding becomes Unknown for good, and
the PVC reconciler makes no job for the claim (`pvc_controller.go:93-96`).  `caches`
has this event: `NoSpuriousUnknown` and what `ReportInv` says of Unknown except it,
the other properties of the run do not.

## Runs

Those of the life cycle use `MCFinalization`, or `Scheduling` where the queue
matters.  `replicas`, `interrupted_release` and `retried_job` leave out the passes of
the FluentPVC reconciler (`ClaimSpec`), and so does `Scheduling`: all they change is
the FluentPVC's finalizer, which nothing reads in a run that does not delete the
FluentPVC.  `CHECK_DEADLOCK FALSE`
everywhere: the operator is done when every claim is gone, and the bounds of the
other modules end their behaviours.

| run | bounds | question |
|---|---|---|
| `caches` | `Scheduling`; 1 name; bindings, claims, jobs, pods lag; at most one of: a late claim, a foreign one, a claim touched or deleted, a pass that stops | can four caches that disagree have a claim finalized in use, a binding declared Unknown (no claim being late), a claim forgotten by the queue, one of another owner processed or deleted, or take a claim off `ClaimLife`? No; the invariants this rests on hold. |
| `faults` | 1 name; bindings lag; any 2 of 9 ordinary faults | is a claim ever forgotten or given up early, or does a stale copy undo what a binding has recorded? No. |
| `broken` | 1 name; the FluentPVC lags; dry runs; any 2 of the graver events (a claim forced away and a foreign one in its place, the FluentPVC deleted and made again, ...) and of passes that stop | does the order of the life cycle still hold, and does a foreign claim that meets a live job stay undeleted? Yes. |
| `replicas` | 2 names of one fixed pod name; pods lag; symmetry | does a binding take the successor's pod for its own? No. |
| `scheduled` | `Scheduling`; 1 name, dry runs; no lag; any 1 of 9 faults, a restart included | does the PVC reconciler hear in time of what it does not watch, and is every claim that has a binding given up in the end? Yes; and a restart at any step breaks none of the invariants. |
| `teardown` | 1 name; bindings lag; the FluentPVC is deleted | does the FluentPVC go in the end? Yes. |
| `pods` | `MCPodReconciler`; 2 pods of a name, 2 pod specs and 3 FluentPVCs that have names in common, 1 edit | are the right pods deleted, and is every stored pod injected? Yes. |
| `interrupted_release` | 1 name; bindings and claims lag; the PVC pass may stop | are claim and binding deleted in the end? **No** |
| `retried_job` | 1 name; the job fails and is replaced in place | the same: **no** |
| `short_pod` | 1 name | is the data of every pod that ran finalized? **No** |
| `finalizer_last` | 2 names | does the FluentPVC keep its finalizer as long as a binding has one? **No** |
| `latest_phase` | `ConditionPhase`; 1 binding, a second of 4 ticks, 7 seconds | is the phase the latest condition? **No** |

Why these bounds are enough: requests share nothing but the workers of the
reconcilers, the FluentPVC and, for replicas, the pod's name.  One name shows
everything that happens to a claim; two are needed where names meet, in
`replicas` and `finalizer_last`.  Each fault kind needs one occurrence to take
effect, and the longest interplay the code has (a claim forced away and another
one made under its name; a job that fails and comes back; a FluentPVC deleted and
made again) needs two.  The state is finite without further bounds: versions
grow only with the steps of a life cycle and with faults.  `Symmetry` is used in a
run of safety properties whose names are all `NamedPods`.  `caches` has
the queue of the PVC reconciler, since what a pass does on an old claim is what its
queue has to make up for (`QueueInv`, `NoClaimForgotten`); that it starts passes only
for names that are due costs nothing else, as a held claim always is, or will be.
`scheduled` has no lag, to keep its liveness properties within reach, and restarts,
for which `caches` has no place: an admission they cut off takes a claim off
`ClaimLife`.  Where an admission may fail, the part of `KeepInv` that has a binding
for every held claim (`BindingKept`) says nothing of requests that ended early;
`faults` and `broken`, where none fails, show that part.  Two pods and one edit let the reconciler hold a pod that has a successor,
and a FluentPVC that is not the one the pod was made by; pods of different names
have nothing in common.

### What the violated runs show

1. `interrupted_release`: releasing a claim is two calls, `Update` without the
   finalizer and `Delete` (`pvc_controller.go:167-180`).  If the pass stops in
   between, the binding reconciler sees a claim without the finalizer and deletes
   the binding; the PVC reconciler then waits for a binding for ever.
2. `retried_job`: `FinalizerJobFailed` is only taken back when no job is listed.
   A failed job that is replaced under its name and succeeds leaves the claim.
3. `short_pod`: a pod that ran and was gone before a pass saw it counts as a pod
   that never came: after an hour its claim is deleted without a job.
4. `finalizer_last`: the bindings are listed before the FluentPVC is updated, and
   a binding made in between does not conflict with that update.
5. `latest_phase`: a pass that finds a job which has failed already sets
   FinalizerJobApplied and FinalizerJobFailed in the same second.  Every later pass
   sets FinalizerJobFailed again, `resetPhase` sorts by times that are equal once
   they were stored, and the phase becomes FinalizerJobApplied: the failure that
   holds the claim is not what `kubectl get` shows.

### Disagreements without a run

- The webhook's marker says `sideEffects=None` (`pod_webhook.go:24`); `Handle` does
  not look at `DryRun` and creates PVC and binding (`pod_webhook.go:85,102`).  That
  they go in the end, after the hour of a missing pod, is checked: `scheduled` has
  dry runs.
- README.md:60 says that the pod is deleted when the sidecar has terminated "with
  exit code != 0"; the code does not look at the exit code
  (`pod_controller.go:79`).
- Common variables are injected into all containers (`fluentpvc_types.go:30`), but a
  variable of the same name that a container has stays behind the injected one
  (`injection.go:71-75`), and Kubernetes takes the last.  `PodsAreInjected` says
  only that the common one is there.
- The validating webhook tries the job without the common volumes and mounts
  (`fluentpvc_webhook.go:59-71`), and is asked for creations only, so that a job
  may be refused when it is needed.

## Fairness

`Fairness` (in `Finalization`) assumes, of the code: a request that was received is
answered; the steps of a started pass are taken; passes that would do something
are started again and again for every name (strong fairness, since another name's
pass or a lagging cache may make them wait); watch events arrive.  Of the cluster:
volumes are bound, deleted claims are reaped, jobs on a claim that is not being
deleted finish, an hour passes.  Pods need not end and failed jobs need not be
removed: the liveness properties speak of pods that are over, `ClaimsAreReleased`
of behaviours in which no failed job stays, and jobs do not fail in `scheduled`.

That passes keep starting is an assumption one should not take from the code by
its looks: the PVC reconciler watches neither bindings nor jobs.  `Scheduling`
assumes only that the queue hands out every name in it (`TakeClaim`, `DropClaim`),
and `PassesKeepStarting` is what `Fairness` assumed, as a property.  For bindings
the assumption stays: the watcher queues every binding every 5 s.

`ClaimsAreGivenUp` is weaker than `ClaimsAreReleased` by what `interrupted_release`
shows: the claim has lost its finalizer and the binding is gone, but the deletion
of the claim may have been lost with a pass.

`TeardownSpec` adds the FluentPVC reconciler, whose passes also start by the
resync: the deletion of a binding is filtered from its events.  `PodReconciler`
has its queue in the model and assumes that events arrive and passes go on.
`BrokenPodsAreDeleted` speaks of behaviours in which the FluentPVC asks for it all
the time: an edit wakes nobody.

## Refinement

`ClaimLife` has a claim's stages, none, held, over, finalized, released and gone,
and the report that a pod uses it.  It promises that the stages come in this
order, that a claim whose pod was reported is not released unfinalized, and that
the report is kept as long as the claim is.  `Stage(n)` in `Finalization` derives the
stage from the stored objects, and `ClaimLifeSpec` is the abstract specification
under that mapping.  It holds in `caches`, `faults` and `replicas`, where no claim
is forced away, no second job made and no admission left half-way: these take a
claim elsewhere, and for them `broken` checks `ReleaseAfterFinalization`.

## Proofs

The proofs are about any set of names, any `Lagging`, any faults and any
`MaxFaults`, from the assumptions on the constants alone (`NamesAssumption`,
`ClusterAssumption`, `DryRunAssumption`).  The refinement has one more, `Undisturbed`,
and so has `Scheduling`, `RestartsFailAdmissions`; both are explained below.  Those
about `PodReconciler` are about any FluentPVCs and pod specs of their types
(`TemplatesAssumption`: what the API server decodes a template into), any
`StorageClasses`, and any number of pods and edits (`BoundsAssumption`).

| module | theorem | what it says |
|---|---|---|
| `FinalizationProofs` | `TypeCorrect` | `Spec => []TypeOK` |
| | `UseInvariant`, `NeverFinalizedInUse` | `UseInv`, and with it `NoFinalizationInUse` |
| `ClaimProofs` | `KeepInvariant` | `KeepInv`, and with it the next three |
| | `ConditionsOrdered` | `ConditionsInOrder` |
| | `BindingsOutliveClaims` | `BindingOutlivesClaim` |
| | `ForeignClaimsUntouched` | `ForeignClaimUntouched` |
| `ReleaseProofs` | `ReleaseInvariant`, `ReleasedAfterFinalization` | `ReleaseInv`, and with it the action property `ReleaseAfterFinalization` |
| | `ReasonInvariant`, `ProcessedInvariant` | `ReasonInv`, `ProcessedInv` |
| | `JobsLeftInvariant`, `ForeignClaimsUnprocessed` | `JobsLeftInv`, and with it `ForeignClaimUnprocessed` |
| `LifeProofs` | `ImplementsClaimLife` | `Spec => ClaimLifeSpec`, if `Undisturbed` |
| `ReportProofs` | `ReportInvariant`, `NeverSpuriouslyUnknown` | `ReportInv`, and with it `NoSpuriousUnknown` |
| `SchedulingProofs` | `RestartsAreSafe` | `SchedulingSpec => []SafeInv`: all invariants above, through restarts |
| | `RestartsReleaseNothing` | `SchedulingSpec => ReleaseAfterFinalization` |
| | `QueueInvariant`, `NoClaimIsForgotten` | `QueueInv`, and with it `NoClaimForgotten` |
| `PodReconcilerProofs` | `DeleteInvariant`, `DeletesOnlyBrokenPods` | `DeleteInv`, and with it the action property `OnlyBrokenPodsAreDeleted` |
| | `TypeCorrect` | `Spec => []TypeOK` of `PodReconciler` |
| | `PodsInjected` | `Spec => []PodsAreInjected` |
| `InjectionProofs` | lemmas only | what the injection makes of any pod spec |

None of the properties is inductive: the operator acts on what it has read, and
what it has read may be old.  The invariants in `FinalizationInvariants` say what is
true of every *copy* of an object, stored, cached or held by a pass, however old
it is, because it can only become true and never false again.  Each is checked by
a run too.

- `UseInv`, for `NoFinalizationInUse` (a finalizer job exists only if its pod is
  over).  The job is created from conditions the PVC reconciler has read earlier
  from a cache, the conditions come from what the binding reconciler had read of
  the pod, and the pod that was read must have been the binding's.  Link by link:
  caches show nothing newer than the pod (`PodsInv`); every copy of a binding is
  *honest* (`Honest`): it has no pod's UID but its own, it is Ready only when the
  operator knows the pod, and OutOfUse only when the pod is over (`BindingsInv`,
  `BindingPassInv`); so a PVC pass that applies a job does so for a pod that is
  over (`PVCPassInv`).  That a pod which is over stays over (`PodOver` is stable)
  is what makes stale reads harmless.
- `KeepInv`, from `UseInv`.  Four more facts are stable: the request has got to its
  claim (`Claimed`), the claim is not held and never will be again (`GivenUp`), the
  operator sees it while it is held (`ClaimSeen`), a job has processed it
  (`Processed`).  A copy of a claim, a binding or a job says nothing that would need more
  (`ClaimCopy`, `BindingCopy`, `JobsInv`), nor does what a pass has concluded
  (`BindingReadInv`, `ClaimReadInv`).  So a binding loses its finalizer only when its
  claim is given up, and the binding of a held claim is there (`BindingKept`).
- `ReleaseInv`, from `KeepInv`.  Above the copies are true of the world; here they
  must be true of the stored binding, which is written over.  A copy whose version
  is still the stored one has every lasting condition that is stored (`Versioned`,
  `VersionsInv`), so an update that the API server accepts takes none back, and a
  condition once read is there as long as the claim is held (`Kept`).  So a pass that releases a claim has
  its reason on record (`ReleaseReadInv`).
- `ReasonInv` and `ProcessedInv`, from `ReleaseInv`: a claim is given up for a reason
  that its binding shows, and processed only when a pod has used it.
- `JobsLeftInv`, from these: no job is active for a claim that was given up, so none
  processes by name what takes its place.  A claim is given up when no pod has used
  it, and then it never had a job (`ProcessedInv`), or when its job was seen to have
  succeeded.  That job has ended (`EndedInv`), which is more than that some copy
  says so: it must have been the only job, and stay so.  A pass with an old binding
  may still want to make a job; it makes none, because the copy of the binding that
  the cache shows has the reason for which the claim was given up (`ReasonSeenInv`,
  `NewJobInv`).
- `ReportInv`, from all of these: a binding becomes Unknown when its volume is lost,
  when its pod has run or gone and its claim is not found, or when there are several
  jobs.  A pod that runs has a claim that the caches show, if none was late
  (`StartedInv`), and without the events that break volumes or make jobs there is
  nothing wrong with either (`SoundInv`).  A pass may still conclude Unknown from an old binding, whose
  claim is gone by now; it cannot write it, since that binding has changed
  (`UnknownInv`).

The refinement takes each step of `Next` to a step of `ClaimLife` or a stutter.
`StageSteps` says what a step may do to the stage of a name, from what it may do to
pods, claims, jobs and `finalized`; `ReportSteps` what it may do to the report, from
the kept conditions; `LifeStep` puts them together.  `Undisturbed` says that claims are
not forced away and no second job is made: with them the stage can leave a claim
`released` that was `held`, or `finalized` that was never used, and the refinement is
false.

`SchedulingProofs` has one step that `Finalization` has not, `Restart`; every other step
of `SchedulingNext` is one of `Next` or leaves its variables alone
(`SchedulingSteps`), so that the lemmas above apply.  A restart leaves the stored
objects, has every cache show them, and leaves no pass, so that what the invariants
say of caches follows from what they say of the stored objects, and what they say of
passes is void.  The admission requests in flight end without their pod, which the
invariants know as `admissionFails`: `RestartsFailAdmissions` says that `FaultKinds`
with `restart` has this one too.  It leaves out no run of the operator, since
`FaultKinds` says only what may happen, and `NoClaimForgotten` does not speak of it.

`NoClaimForgotten` says that a held claim is due, or in work, or that its cache has an
event to come.  A name leaves the queue in two ways.  It is dropped unworked, when the
pass finds nothing left to do: the claim is the binding's, so the binding is
Unknown in the cache and by `ReleaseInv` in the store.  Or a pass ends for good, after
a conflict or when the claim is deleted: it has read an old claim, and `PassDueInv`
says that the newer one is still due.  That a change of a claim which the cache has
shown still has an event to come is `ClaimVersionsInv`: the cache never shows a
version that a later write of a held claim will have.

`PodReconcilerProofs` has `DeletesOnlyBrokenPods`.  Its invariant, `DeleteInv`, says
that a pass which is about to delete has read a pod that ran, and a FluentPVC that
asks for the deletion and whose sidecar had terminated in that pod (`Terminated`,
`DecidedInv`); the preconditions of the deletion make the stored pod that very one.
This holds after any edits.  That the container is the sidecar which the pod was
given rests on `MadeByFluentPVC`: unless somebody has changed the FluentPVC since
(`asMade`), it is the one that the last pod was made by, and a pass that can still
delete that pod has read it since.  After a change the theorem says no more than that
the container of the *new* name has terminated, because the code looks it up by that
name (`pod_controller.go:75`) and may so delete a pod whose own sidecar runs.

The lemmas about foreign claims stop where the code does.  The finalizer job mounts
its claim by name (`pvc_controller.go:133`).  When a claim is forced away under a live
job, or a job is removed, replaced or added by hand, a job may be left that processes
what another owner makes under that name.  `ForeignClaimUnprocessed` excepts these
events; `ForeignClaimUntouched` does not, and says that such a claim is still neither
deleted nor given up.

`PodsInjected` says that a stored pod is what it should be whatever names its user
and the FluentPVC's author chose.  No step but `AdmitPod` gives a pod its spec, so it is
a fact about `PatchedPod`, and `FinalizerJob`, of any spec and any FluentPVC:

- The claim's volume is injected after the common volumes, so it has its name
  (`WithVolumesInjected`); nothing after it touches volumes.
- The sidecar is injected before mounts and variables, so it gets them too, and
  these change neither the names, the images nor the number of containers
  (`SameContainers`).
- The claim's mount is injected last of all mounts: every container has it, and no
  other mount of its name has another path (`WithVolumeMountsInjected`).  A mount of
  another name at its path would make the pod invalid, and such a pod is not stored
  (`SharesTheClaim`).
- A variable, once injected, is not lost by the next, though a container may have
  others of that name (`EnvsInjected`, `WithEnvsInjected`).

A list is injected by a fold, and the library's induction theorems take an
operator, which the provers cannot instantiate.  `SetInduction` is induction over a
*set* of numbers instead, from the theorem that the strict subset ordering of finite
sets is well-founded (a least `0..k` with `k` outside the set would have a smaller one).
`FoldExists` shows by it that the recursion a fold is defined by has a solution, and
`VolumesFold`, `MountsFold` and `EnvsFold` turn it into a chain of single injections, on
which the facts above are inductions by `IndexInduction`.

Only model-checked: liveness (`ClaimsAreGivenUp`, `PassesKeepStarting`,
`FluentPVCGoes`, `BrokenPodsAreDeleted`; fairness and ENABLED are beyond the
prover), `PhaseIsLatest` and the other violated properties.

## Not modelled

- The pod validating webhook allows everything; name hashing: names are model
  values that do not collide; flags, probes and start-up errors of the manager;
  generated deep copies, manifests, examples.
- The binding watcher's pages and channel: with more than 300 bindings it fires for
  300 of them only, and it blocks for ever when the controller has stopped.  Both
  need numbers, or a shutdown, that the life cycle has no use for; the hazards at
  `fluentpvcbinding_controller.go:535` and `:543` say what is at stake.
- Requeues of claims that are not the operator's: such passes change nothing.
- The resync, except as fairness in `TeardownSpec`.

## Plan

What is left is proving.

1. Of `ConditionPhase`: what does hold, that the phase names a condition that is True,
   or Pending when there is none.  It goes over a sorted and filtered list, for which
   the inductions of `InjectionProofs` are a start.
2. Of the FluentPVC webhook: what `Accepted` promises of the sidecar and the job that
   are injected later.

Liveness with two requests, where a successor has the fixed name of a pod that was
never seen, has no bound in the code and stays a hazard without a property.
