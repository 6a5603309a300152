------------------------------ MODULE Cluster ------------------------------
(***************************************************************************)
(* What surrounds the operator: the objects stored in the API server, the  *)
(* informer caches its reconcilers read, and the rest of the cluster       *)
(* (kubelet, PV controller, Job controller, garbage collector, users),     *)
(* none of which is code of the repository.                                *)
(***************************************************************************)
EXTENDS FluentPVCApi

CONSTANTS
    Lagging,    \* informers whose cache may be behind the API server; a
                \* reader of any other kind sees the server's object
    FaultKinds, \* the adverse events this cluster may see
    MaxFaults   \* bound: how many of them one behaviour has

ASSUME ClusterAssumption ==
    /\ Lagging \subseteq {"binding", "pvc", "job", "pod", "fluentpvc"}
    /\ MaxFaults \in Nat

VARIABLES
    binding, pvc, job, pod,                      \* API server, by name
    fluentpvc,                                   \* API server, one object
    bindingCache, pvcCache, jobCache, podCache,  \* informer caches
    fluentpvcCache,
    aged,       \* names whose binding was created an hour ago or more
    finalized,  \* history: names whose claim a finalizer Job completed on
    ran,        \* history: names whose pod has run on its claim
    faults      \* adverse events so far

stored  == <<binding, pvc, job, pod, fluentpvc>>
caches  == <<bindingCache, pvcCache, jobCache, podCache, fluentpvcCache>>
history == <<aged, finalized, ran, faults>>

clusterVars == <<stored, caches, history>>

ClusterTypeOK ==
    /\ binding        \in [Names -> Binding]
    /\ bindingCache   \in [Names -> Binding]
    /\ pvc            \in [Names -> Claim]
    /\ pvcCache       \in [Names -> Claim]
    /\ job            \in [Names -> SUBSET Job]
    /\ jobCache       \in [Names -> SUBSET Job]
    /\ pod            \in [Names -> PodPhase \cup {NoPod}]
    /\ podCache       \in [Names -> PodPhase \cup {NoPod}]
    /\ fluentpvc      \in FluentPVC
    /\ fluentpvcCache \in FluentPVC
    /\ aged           \subseteq Names
    /\ finalized      \subseteq Names
    /\ ran            \subseteq Names
    /\ faults         \in Nat

FirstFluentPVC == [ exists |-> TRUE, uid |-> 1, rv |-> 1,
                    finalizer |-> FALSE, deleting |-> FALSE ]

ClusterInit ==
    /\ binding        = [n \in Names |-> NoBinding]
    /\ bindingCache   = binding
    /\ pvc            = [n \in Names |-> NoClaim]
    /\ pvcCache       = pvc
    /\ job            = [n \in Names |-> {}]
    /\ jobCache       = job
    /\ pod            = [n \in Names |-> NoPod]
    /\ podCache       = pod
    /\ fluentpvc      = FirstFluentPVC
    /\ fluentpvcCache = fluentpvc
    /\ aged           = {}
    /\ finalized      = {}
    /\ ran            = {}
    /\ faults         = 0

-----------------------------------------------------------------------------
(* Reads through the manager's client.                                     *)

SeenBinding(n) == IF "binding" \in Lagging THEN bindingCache[n] ELSE binding[n]
SeenPVC(n)     == IF "pvc" \in Lagging THEN pvcCache[n] ELSE pvc[n]
SeenJobs(n)    == IF "job" \in Lagging THEN jobCache[n] ELSE job[n]
SeenPod(n)     == IF "pod" \in Lagging THEN podCache[n] ELSE pod[n]
SeenFluentPVC  == IF "fluentpvc" \in Lagging THEN fluentpvcCache ELSE fluentpvc

\* A watch event arrives: the cached object jumps to the stored one.  Events of
\* one object are never applied out of order, those of different objects may be.
SyncBinding(n) ==
    /\ "binding" \in Lagging /\ bindingCache[n] # binding[n]
    /\ bindingCache' = [bindingCache EXCEPT ![n] = binding[n]]
    /\ UNCHANGED <<stored, pvcCache, jobCache, podCache, fluentpvcCache, history>>

SyncPVC(n) ==
    /\ "pvc" \in Lagging /\ pvcCache[n] # pvc[n]
    /\ pvcCache' = [pvcCache EXCEPT ![n] = pvc[n]]
    /\ UNCHANGED <<stored, bindingCache, jobCache, podCache, fluentpvcCache, history>>

SyncJob(n) ==
    /\ "job" \in Lagging /\ jobCache[n] # job[n]
    /\ jobCache' = [jobCache EXCEPT ![n] = job[n]]
    /\ UNCHANGED <<stored, bindingCache, pvcCache, podCache, fluentpvcCache, history>>

\* Pods of one name share a cache entry, so they are synced together.
SyncPod(n) ==
    /\ "pod" \in Lagging /\ podCache[n] # pod[n]
    /\ podCache' = [m \in Names |->
                       IF m = n \/ {m, n} \subseteq NamedPods THEN pod[m]
                                                             ELSE podCache[m]]
    /\ UNCHANGED <<stored, bindingCache, pvcCache, jobCache, fluentpvcCache, history>>

SyncFluentPVC ==
    /\ "fluentpvc" \in Lagging /\ fluentpvcCache # fluentpvc
    /\ fluentpvcCache' = fluentpvc
    /\ UNCHANGED <<stored, bindingCache, pvcCache, jobCache, podCache, history>>

-----------------------------------------------------------------------------
(* Pods and volumes.                                                       *)

\* An adverse event: at most MaxFaults of them, and only of the FaultKinds.
Fault(kind) ==
    /\ kind \in FaultKinds
    /\ faults < MaxFaults
    /\ faults' = faults + 1

\* No adverse event of these kinds has happened: there are none at all, or none
\* so far.
Spared(kinds) == faults = 0 \/ kinds \cap FaultKinds = {}

\* The PV controller binds the claim.
BindVolume(n) ==
    /\ pvc[n].exists /\ pvc[n].phase = "Pending"
    /\ pvc' = [pvc EXCEPT ![n] = Stored(@, [@ EXCEPT !.phase = "Bound"])]
    /\ UNCHANGED <<binding, job, pod, fluentpvc, caches, history>>

\* The pod has a node, for which its claim has to be bound.
Schedulable(n) == pvc[n].exists /\ pvc[n].phase = "Bound"

\* Provisioning and scheduling take longer than a watch event: as a rule the
\* operator has the claim in its cache by now.  Nothing guarantees it.
ClaimInTime(n) ==
    IF SeenPVC(n).exists THEN UNCHANGED faults ELSE Fault("claimLate")

\* The kubelet starts the pod, unless its claim is terminating.
StartPod(n) ==
    /\ pod[n] = "Pending" /\ Schedulable(n) /\ ~pvc[n].deleting
    /\ pod' = [pod EXCEPT ![n] = "Running"]
    /\ ran' = ran \cup {n}
    /\ ClaimInTime(n)
    /\ UNCHANGED <<binding, pvc, job, fluentpvc, caches, aged, finalized>>

\* Its containers end.
CompletePod(n) ==
    /\ pod[n] = "Running"
    /\ \E phase \in Completed : pod' = [pod EXCEPT ![n] = phase]
    /\ UNCHANGED <<binding, pvc, job, fluentpvc, caches, history>>

\* The kubelet rejects or evicts it before they have started.
FailPod(n) ==
    /\ pod[n] = "Pending" /\ Schedulable(n)
    /\ pod' = [pod EXCEPT ![n] = "Failed"]
    /\ ClaimInTime(n)
    /\ UNCHANGED <<binding, pvc, job, fluentpvc, caches, aged, finalized, ran>>

\* The pod object goes away, in whatever phase it is.
RemovePod(n) ==
    /\ pod[n] # NoPod
    /\ pod' = [pod EXCEPT ![n] = NoPod]
    /\ UNCHANGED <<binding, pvc, job, fluentpvc, caches, history>>

\* A deleted claim without the operator's finalizer is removed by the PVC
\* protection controller when no running pod mounts it.
ReapPVC(n) ==
    /\ pvc[n].exists /\ pvc[n].deleting /\ ~pvc[n].finalizer
    /\ pod[n] # "Running"
    /\ pvc' = [pvc EXCEPT ![n] = NoClaim]
    /\ UNCHANGED <<binding, job, pod, fluentpvc, caches, history>>

-----------------------------------------------------------------------------
(* Jobs and garbage collection.                                            *)

\* A finalizer Job completes.  Its pod mounts the claim, by its name.
FinishJob(n, j) ==
    /\ j \in job[n] /\ j.status = "Active"
    /\ pvc[n].exists /\ pvc[n].phase = "Bound"
    /\ job' = [job EXCEPT ![n] = (@ \ {j}) \cup {[j EXCEPT !.status = "Complete"]}]
    /\ finalized' = IF pvc[n].uid = OwnClaim THEN finalized \cup {n} ELSE finalized
    /\ UNCHANGED <<binding, pvc, pod, fluentpvc, caches, aged, ran, faults>>

\* Jobs go with the binding that owns them.
CollectJobs(n) ==
    /\ ~binding[n].exists /\ job[n] # {}
    /\ job' = [job EXCEPT ![n] = {}]
    /\ UNCHANGED <<binding, pvc, pod, fluentpvc, caches, history>>

\* So do bindings whose FluentPVC is gone, be there a new one of its name.
CollectBinding(n) ==
    /\ binding[n].exists /\ ~binding[n].deleting
    /\ ~(fluentpvc.exists /\ IsControlledBy(binding[n], fluentpvc))
    /\ binding' = [binding EXCEPT ![n] =
                      IF @.finalizer THEN Stored(@, Marked(@)) ELSE NoBinding]
    /\ UNCHANGED <<pvc, job, pod, fluentpvc, caches, history>>

\* An hour has passed since the binding was created.  No watch event takes that
\* long: what the admission made has been seen by then.
HourPasses(n) ==
    /\ binding[n].exists /\ n \notin aged
    /\ SeenPod(n) = NoPod => pod[n] = NoPod
    /\ SeenPVC(n).exists \/ ~pvc[n].exists
    /\ aged' = aged \cup {n}
    /\ UNCHANGED <<stored, caches, finalized, ran, faults>>

-----------------------------------------------------------------------------
(* Adverse events.                                                         *)

LoseVolume(n) ==                            \* its PV disappears
    /\ Fault("volumeLost")
    /\ pvc[n].exists /\ pvc[n].phase = "Bound"
    /\ pvc' = [pvc EXCEPT ![n] = Stored(@, [@ EXCEPT !.phase = "Lost"])]
    /\ UNCHANGED <<binding, job, pod, fluentpvc, caches, aged, finalized, ran>>

TouchPVC(n) ==                              \* an annotation, a resize
    /\ Fault("claimTouched")
    /\ pvc[n].exists
    /\ pvc' = [pvc EXCEPT ![n].rv = @ + 1]
    /\ UNCHANGED <<binding, job, pod, fluentpvc, caches, aged, finalized, ran>>

DeletePVC(n) ==                             \* a user deletes the claim
    /\ Fault("claimDeleted")
    /\ pvc[n].exists /\ pvc[n].uid = OwnClaim /\ ~pvc[n].deleting
    /\ pvc' = [pvc EXCEPT ![n] = Stored(@, Marked(@))]
    /\ UNCHANGED <<binding, job, pod, fluentpvc, caches, aged, finalized, ran>>

ForcePVC(n) ==                              \* ... and strips its finalizers
    /\ Fault("claimForced")
    /\ pvc[n].exists /\ pvc[n].uid = OwnClaim
    /\ pvc' = [pvc EXCEPT ![n] = NoClaim]
    /\ UNCHANGED <<binding, job, pod, fluentpvc, caches, aged, finalized, ran>>

\* The claim of another owner; copied from the manifest of one of the operator's,
\* it has the finalizer, too.
AnotherClaim(copied) ==
    [NoClaim EXCEPT !.exists = TRUE, !.rv = 1, !.uid = ForeignClaim, !.finalizer = copied]

ReplacePVC(n) ==                            \* a claim under a freed name
    /\ Fault("foreignClaim")
    /\ ~pvc[n].exists /\ binding[n].exists
    /\ \E copied \in BOOLEAN : pvc' = [pvc EXCEPT ![n] = AnotherClaim(copied)]
    /\ UNCHANGED <<binding, job, pod, fluentpvc, caches, aged, finalized, ran>>

DeleteBinding(n) ==                         \* a user deletes the binding
    /\ Fault("bindingDeleted")
    /\ binding[n].exists /\ ~binding[n].deleting
    /\ binding' = [binding EXCEPT ![n] =
                      IF @.finalizer THEN Stored(@, Marked(@)) ELSE NoBinding]
    /\ UNCHANGED <<pvc, job, pod, fluentpvc, caches, aged, finalized, ran>>

FailJob(n, j) ==                            \* the Job's backoff limit
    /\ Fault("jobFails")
    /\ j \in job[n] /\ j.status = "Active"
    /\ job' = [job EXCEPT ![n] = (@ \ {j}) \cup {[j EXCEPT !.status = "Failed"]}]
    /\ UNCHANGED <<binding, pvc, pod, fluentpvc, caches, aged, finalized, ran>>

ReplaceJob(n, j) ==                         \* kubectl replace --force
    /\ Fault("jobReplaced")
    /\ j \in job[n] /\ j.status # "Active"
    /\ job' = [job EXCEPT ![n] = (@ \ {j}) \cup {[j EXCEPT !.status = "Active"]}]
    /\ UNCHANGED <<binding, pvc, pod, fluentpvc, caches, aged, finalized, ran>>

RemoveJob(n, j) ==                          \* a user, or its TTL, deletes it
    /\ Fault("jobRemoved")
    /\ j \in job[n]
    /\ job' = [job EXCEPT ![n] = @ \ {j}]
    /\ UNCHANGED <<binding, pvc, pod, fluentpvc, caches, aged, finalized, ran>>

\* A second Job under the binding, one at a time: jobs but for that of the
\* binding's name are not told apart.
AddJob(n) ==
    /\ Fault("extraJob")
    /\ binding[n].exists
    /\ \A j \in job[n] : j.named
    /\ job' = [job EXCEPT ![n] = @ \cup {[named |-> FALSE, status |-> "Active"]}]
    /\ UNCHANGED <<binding, pvc, pod, fluentpvc, caches, aged, finalized, ran>>

DeleteFluentPVC ==
    /\ Fault("fluentPVCDeleted")
    /\ fluentpvc.exists /\ ~fluentpvc.deleting
    /\ fluentpvc' = IF fluentpvc.finalizer
                    THEN Stored(fluentpvc, Marked(fluentpvc))
                    ELSE [fluentpvc EXCEPT !.exists = FALSE]
    /\ UNCHANGED <<binding, pvc, job, pod, caches, aged, finalized, ran>>

RecreateFluentPVC ==
    /\ Fault("fluentPVCRecreated")
    /\ ~fluentpvc.exists
    /\ fluentpvc' = [FirstFluentPVC EXCEPT !.uid = fluentpvc.uid + 1]
    /\ UNCHANGED <<binding, pvc, job, pod, caches, aged, finalized, ran>>

ClusterNext ==
    \/ SyncFluentPVC \/ DeleteFluentPVC \/ RecreateFluentPVC
    \/ \E n \in Names :
          \/ SyncBinding(n) \/ SyncPVC(n) \/ SyncJob(n) \/ SyncPod(n)
          \/ BindVolume(n) \/ ReapPVC(n) \/ CollectJobs(n) \/ CollectBinding(n)
          \/ StartPod(n) \/ CompletePod(n) \/ FailPod(n) \/ RemovePod(n)
          \/ LoseVolume(n) \/ TouchPVC(n) \/ DeletePVC(n) \/ ForcePVC(n) \/ ReplacePVC(n)
          \/ DeleteBinding(n) \/ AddJob(n)
          \/ \E j \in job[n] : \/ FinishJob(n, j) \/ FailJob(n, j)
                               \/ ReplaceJob(n, j) \/ RemoveJob(n, j)
=============================================================================
