---------------------------- MODULE Finalization ----------------------------
(***************************************************************************)
(* The operator: the pod webhook and the reconcilers of bindings and of    *)
(* PVCs, each on its own, over one cluster.  What they have to achieve     *)
(* together: the log data a pod leaves on its claim is handed to a         *)
(* finalizer job once the pod is over, and the claim is deleted after that *)
(* job has succeeded, never before, and in the end always.                 *)
(***************************************************************************)
EXTENDS PodMutator, BindingReconciler, PVCReconciler, FluentPVCReconciler

vars == <<clusterVars, mutatorVars, br, pr, fr>>

Init ==
    /\ ClusterInit /\ MutatorInit /\ BindingInit /\ PVCInit /\ FluentPVCInit

\* An admission request and a pass of a reconciler are over within an hour.
HourStep(n) ==
    /\ HourPasses(n)
    /\ request[n] = "closed" /\ br.n # n

ClusterStep ==
    /\ ClusterNext \/ \E n \in Names : HourStep(n)
    /\ UNCHANGED <<mutatorVars, br, pr, fr>>

MutatorStep   == MutatorNext   /\ UNCHANGED <<br, pr, fr>>
BindingStep   == BindingNext   /\ UNCHANGED <<mutatorVars, pr, fr>>
PVCStep       == PVCNext       /\ UNCHANGED <<mutatorVars, br, fr>>
FluentPVCStep == FluentPVCNext /\ UNCHANGED <<mutatorVars, br, pr>>

Next == ClusterStep \/ MutatorStep \/ BindingStep \/ PVCStep \/ FluentPVCStep

Spec == Init /\ [][Next]_vars

-----------------------------------------------------------------------------
TypeOK ==
    /\ ClusterTypeOK /\ MutatorTypeOK /\ BindingTypeOK /\ PVCTypeOK
    /\ FluentPVCTypeOK

\* The pod of this name does not use its claim any more, and never will.
PodOver(n) == request[n] = "closed" /\ pod[n] \in Completed \cup {NoPod}

\* The finalizer job is applied only when the pod is over (README: the Job is
\* issued after the Pod is deleted): a job never reads a claim that is written.
NoFinalizationInUse ==
    \A n \in Names : (\E j \in job[n] : j.named) => PodOver(n)

-----------------------------------------------------------------------------
(* Safety.                                                                 *)

\* The operator gives a claim up, by taking its finalizer off, only when the pod
\* is over, and only after a finalizer job completed on it or, for a pod that
\* was never bound, after PodMissing (README: the PVC is deleted on success).
Held(n) == pvc[n].uid = OwnClaim /\ pvc[n].finalizer

ReleaseAfterFinalization ==
    [][\A n \in Names :
          (Held(n) /\ (~pvc[n].finalizer)' /\ pvc'[n].exists) =>
              /\ PodOver(n)
              /\ \/ n \in finalized
                 \/ /\ "PodMissing" \in binding[n].conds
                    /\ "Ready" \notin binding[n].conds]_vars

\* A binding is not deleted before its claim has been released (README: it
\* cannot be deleted until the finalizer of the PVC is): else the claim, which
\* has no owner, would be forgotten with the data on it.
BindingOutlivesClaim ==
    \A n \in Names :
        (Held(n) /\ request[n] = "closed" /\ "admissionFails" \notin FaultKinds)
            => binding[n].exists /\ binding[n].finalizer

\* Conditions are only ever reached in their order, whatever cache a reconciler
\* looked at and whoever wrote in between.
InOrder(n, b) ==
    /\ "Ready" \in b.conds => b.podUID = n
    /\ "PodMissing" \in b.conds => "Ready" \notin b.conds
    /\ "OutOfUse" \in b.conds => "Ready" \in b.conds
    /\ "FinalizerJobApplied" \in b.conds => "OutOfUse" \in b.conds
    /\ b.conds \cap {"FinalizerJobSucceeded", "FinalizerJobFailed"} # {}
          => "FinalizerJobApplied" \in b.conds

ConditionsInOrder == \A n \in Names : InOrder(n, binding[n])

\* The operator reports Unknown only when something is wrong with the cluster:
\* never because its caches disagree, a pass stopped or a job failed.
NoSpuriousUnknown ==
    Spared({"volumeLost", "claimForced", "extraJob", "claimLate"})
        => \A n \in Names : "Unknown" \notin binding[n].conds

\* All of it together: the stage of a claim goes through ClaimLife.  (A claim
\* forced away, or a second Job on it, takes it elsewhere.)
Stage(n) ==
    IF pvc[n].uid # OwnClaim
    THEN IF request[n] \in {"none", "started"} THEN "none" ELSE "gone"
    ELSE IF ~pvc[n].finalizer THEN "released"
    ELSE IF n \in finalized THEN "finalized"
    ELSE IF PodOver(n) THEN "over" ELSE "held"

Life == INSTANCE ClaimLife
            WITH life  <- [n \in Names |-> Stage(n)],
                 ready <- {n \in Names : "Ready" \in binding[n].conds}

ClaimLifeSpec == Life!Spec

\* A claim that another owner made under the name of one that went is neither
\* deleted nor given up, should it have the operator's finalizer, whatever a
\* pass has read of the claim that was there before.
ForeignClaimUntouched ==
    [][\A n \in Names :
          pvc[n].uid = ForeignClaim =>
              /\ pvc'[n].uid = ForeignClaim
              /\ pvc'[n].finalizer = pvc[n].finalizer
              /\ ~pvc'[n].deleting]_vars

\* Nor is it finalized: when the operator has given a claim up, no job is left
\* that would process, by its name, what takes the claim's place.  A job that
\* is left when the claim is forced away does, and so does a second Job, be it
\* another one or one that was removed or replaced.
ForeignClaimUnprocessed ==
    Spared({"claimForced", "extraJob", "jobReplaced", "jobRemoved"})
        => \A n \in Names :
              pvc[n].uid = ForeignClaim => \A j \in job[n] : j.status # "Active"

-----------------------------------------------------------------------------
(* What the documentation, a comment or a marker says and the code does    *)
(* not do.                                                                 *)

\* The data of a pod is processed by a Job after the pod is deleted, and only
\* then the claim is deleted (README).
RanClaimsAreFinalized ==
    [][\A n \in Names :
          (n \in ran /\ Held(n) /\ (~pvc[n].finalizer)' /\ pvc'[n].exists)
              => n \in finalized]_vars

\* The FluentPVC loses its finalizer after the finalizers of all its bindings
\* have been removed (README).
FluentPVCFinalizerLast ==
    [][(fluentpvc.finalizer /\ (~fluentpvc.finalizer)')
          => \A n \in Names : ~(binding[n].exists /\ binding[n].finalizer)]_vars

-----------------------------------------------------------------------------
(* Liveness.                                                               *)

\* Watch events arrive; the watcher's tick, the requeues and the resync start
\* every pass again and again, and a started pass goes on; an admission request
\* ends; volumes are bound, a job runs once its claim can be mounted.
Fairness ==
    /\ WF_vars(BindingStep /\ ContinueBinding)
    /\ WF_vars(PVCStep /\ ContinuePVC)
    /\ \A n \in Names :
          /\ WF_vars(MutatorStep /\ ContinueRequest(n))
          /\ WF_vars(ClusterStep /\ SyncBinding(n))
          /\ WF_vars(ClusterStep /\ SyncPVC(n))
          /\ WF_vars(ClusterStep /\ SyncJob(n))
          /\ WF_vars(ClusterStep /\ SyncPod(n))
          /\ SF_vars(BindingStep /\ StartBinding(n))
          /\ SF_vars(PVCStep /\ (StartAbandoned(n) \/ StartFinalizing(n)))
          /\ SF_vars(ClusterStep /\ HourStep(n))
          /\ WF_vars(ClusterStep /\ BindVolume(n))
          /\ WF_vars(ClusterStep /\ ReapPVC(n))
          /\ WF_vars(ClusterStep /\ \E j \in job[n] :
                        FinishJob(n, j) /\ ~pvc[n].deleting)

FairSpec == Spec /\ Fairness

\* A claim whose pod is over is released and deleted, and so is its binding:
\* nothing is left behind (README: delete the PVC when the Job is succeeded).
\* A failed job holds its claim until somebody removes it.
NoFailedJob == \A n \in Names : \A j \in job[n] : ~IsJobFailed(j)

ClaimsAreReleased ==
    <>[]NoFailedJob =>
        \A n \in Names :
            (PodOver(n) /\ binding[n].exists)
                ~> ~(pvc[n].exists \/ binding[n].exists)

\* The reconciler of the FluentPVC runs after its events and those of its
\* bindings; a deletion it filters out is made up for by the resync.
TeardownSpec ==
    /\ FairSpec
    /\ WF_vars(ClusterStep /\ SyncFluentPVC)
    /\ SF_vars(FluentPVCStep /\ StartFluentPVC)
    /\ WF_vars(FluentPVCStep /\ (UpdateFluentPVC \/ RefuseFluentPVC))

\* A FluentPVC that is being deleted goes once the pods of all its claims are
\* over: its finalizer is not left behind, whatever its reconciler has listed.
Quiet == \A n \in Names : request[n] = "none" \/ PodOver(n)

FluentPVCGoes ==
    <>[]Quiet => ((fluentpvc.exists /\ fluentpvc.deleting) ~> ~fluentpvc.exists)
=============================================================================
