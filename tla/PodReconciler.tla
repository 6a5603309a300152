---------------------------- MODULE PodReconciler ----------------------------
(***************************************************************************)
(* podReconciler.Reconcile: deletes a running pod whose sidecar has        *)
(* terminated, if its FluentPVC says so.  The pods are those of one name,  *)
(* one after the other (a StatefulSet's replica): pods of different names  *)
(* have nothing in common but the reconciler, which takes one at a time.   *)
(***************************************************************************)
EXTENDS PodInjection

CONSTANTS
    FluentPVCs,         \* the FluentPVC specs that users write
    PodSpecs,           \* the pod specs that are submitted
    StorageClasses,     \* those the cluster has
    MaxPods,            \* bound: incarnations of the pod
    MaxEdits            \* bound: changes of the FluentPVC

\* The API server decodes a template into the fields it has, absent ones to zero.
ASSUME TemplatesAssumption ==
    FluentPVCs \subseteq FluentPVCSpec /\ PodSpecs \subseteq PodSpec

ASSUME BoundsAssumption == MaxPods \in Nat /\ MaxEdits \in Nat

VARIABLES
    fluentpvc,  \* its spec, in a set that is empty when there is none
    edits,      \* how often it was changed
    pod,        \* the stored pod
    podCache,   \* the informer's
    made,       \* history: the spec of the FluentPVC that each pod was made by
    asMade,     \* history: the FluentPVC was not changed since the last of them
    due,        \* whether the pod is in the reconciler's work queue
    rc          \* the reconciler's local variables: what it does next, the pod
                \* and (to delete it) the FluentPVC it has read, in a set

clusterVars == <<fluentpvc, edits, pod, podCache, made, asMade>>
vars == <<clusterVars, due, rc>>

\* Of a container the pod's status says whether it runs, has terminated (its exit
\* code is not looked at), or runs again: its RestartCount is not 0.
ContainerState == {"running", "terminated", "restarted"}

\* Nobody looks at the status of a pod that does not run; Ended stands for the
\* phases Succeeded and Failed.
NoPod == [ uid |-> 0, phase |-> "None", deleting |-> FALSE,
           spec |-> [containers |-> << >>, volumes |-> << >>], status |-> << >> ]

Idle == [pc |-> "idle", pod |-> NoPod, fluentpvc |-> {}]

Init ==
    /\ fluentpvc = {} /\ edits = 0
    /\ pod = NoPod /\ podCache = NoPod /\ made = << >> /\ asMade = TRUE
    /\ due = FALSE /\ rc = Idle

TypeOK ==
    /\ fluentpvc \subseteq FluentPVCs /\ \A f, g \in fluentpvc : f = g
    /\ edits \in 0..MaxEdits /\ made \in Seq(FluentPVCs) /\ Len(made) <= MaxPods
    /\ \A p \in {pod, podCache, rc.pod} :
          /\ p.uid \in 0..Len(made)
          /\ p.phase \in {"None", "Pending", "Running", "Ended"}
          /\ p.deleting \in BOOLEAN
          /\ p.status # << >> => DOMAIN p.status = NamesOf(p.spec.containers)
          /\ \A c \in DOMAIN p.status : p.status[c] \in ContainerState
    /\ due \in BOOLEAN /\ asMade \in BOOLEAN
    /\ rc.pc \in {"idle", "fluentpvc", "delete"} /\ rc.fluentpvc \subseteq FluentPVCs

Exists(p) == p.uid # 0

-----------------------------------------------------------------------------
(* Users, the webhooks and the API server.                                 *)

CreateFluentPVC ==
    /\ fluentpvc = {}
    /\ \E f \in FluentPVCs : Accepted(f, StorageClasses) /\ fluentpvc' = {f}
    /\ UNCHANGED <<edits, pod, podCache, made, asMade, due, rc>>

\* A change is not validated.
EditFluentPVC ==
    /\ fluentpvc # {} /\ edits < MaxEdits
    /\ \E f \in FluentPVCs : fluentpvc' \in {{}, {f}} \ {fluentpvc}
    /\ edits' = edits + 1 /\ asMade' = FALSE
    /\ UNCHANGED <<pod, podCache, made, due, rc>>

\* A pod is submitted, patched and stored, unless that makes it invalid.
AdmitPod ==
    /\ ~Exists(pod) /\ Len(made) < MaxPods
    /\ \E f \in fluentpvc, spec \in PodSpecs :
          LET uid     == Len(made) + 1
              patched == PatchedPod(spec, f, uid)
          IN  /\ ValidPodSpec(patched)
              /\ pod' = [NoPod EXCEPT !.uid = uid, !.phase = "Pending", !.spec = patched]
              /\ made' = Append(made, f)
              /\ asMade' = TRUE
    /\ UNCHANGED <<fluentpvc, edits, podCache, due, rc>>

-----------------------------------------------------------------------------
(* The kubelet.                                                            *)

ChangePod(changed) ==
    /\ pod' = changed
    /\ UNCHANGED <<fluentpvc, edits, podCache, made, asMade, due, rc>>

StartPod ==
    /\ pod.phase = "Pending"
    /\ ChangePod([pod EXCEPT !.phase = "Running",
                     !.status = [c \in NamesOf(pod.spec.containers) |-> "running"]])

StopContainer(c) ==
    /\ pod.phase = "Running" /\ pod.status[c] = "running"
    /\ ChangePod([pod EXCEPT !.status[c] = "terminated"])

RestartContainer(c) ==
    /\ pod.phase = "Running" /\ pod.status[c] = "terminated"
    /\ ChangePod([pod EXCEPT !.status[c] = "restarted"])

\* All containers have ended, or the pod is evicted.
EndPod ==
    /\ pod.phase \in {"Pending", "Running"}
    /\ ChangePod([pod EXCEPT !.phase = "Ended", !.status = << >>])

RemovePod == Exists(pod) /\ ChangePod(NoPod)

-----------------------------------------------------------------------------
(* The reconciler.                                                         *)

\* A watch event arrives.  That of a deletion is filtered out.
SyncPod ==
    /\ podCache # pod
    /\ podCache' = pod
    /\ due' = (due \/ Exists(pod))
    /\ UNCHANGED <<fluentpvc, edits, pod, made, asMade, rc>>

\* A pass starts.  It is over if the pod is gone or does not run.
TakePod ==
    /\ rc.pc = "idle" /\ due
    /\ due' = FALSE
    /\ rc' = IF podCache.phase = "Running"
              THEN [Idle EXCEPT !.pc = "fluentpvc", !.pod = podCache]
              ELSE Idle
    /\ UNCHANGED clusterVars

\* Mutant of TerminationDetected: a container that runs again is as good as new.
TerminatedNow(state) == state = "terminated"

TerminationDetected(state) == state \in {"terminated", "restarted"}

HasStatus(f) == f.sidecar.name \in DOMAIN rc.pod.status

\* Without the FluentPVC or a status of the sidecar's name the pass is retried.
RetryPod ==
    /\ rc.pc = "fluentpvc"
    /\ \A f \in fluentpvc :
          f.deletePodIfSidecarContainerTerminationDetected /\ ~HasStatus(f)
    /\ due' = TRUE /\ rc' = Idle
    /\ UNCHANGED clusterVars

DecideOnPod ==
    /\ rc.pc = "fluentpvc"
    /\ \E f \in fluentpvc :
          /\ f.deletePodIfSidecarContainerTerminationDetected => HasStatus(f)
          /\ rc' = IF /\ f.deletePodIfSidecarContainerTerminationDetected
                      /\ TerminationDetected(rc.pod.status[f.sidecar.name])
                   THEN [rc EXCEPT !.pc = "delete", !.fluentpvc = {f}] ELSE Idle
    /\ UNCHANGED <<clusterVars, due>>

\* Mutant of SamePod: the pod is deleted by its name.
AnyPod == Exists(pod)

\* The preconditions of deleteOptionsBackground: the UID, and the version, which
\* any change of the pod makes another one.
SamePod == pod = rc.pod

\* The pod is given its grace period.
DeletePod ==
    /\ rc.pc = "delete"
    /\ SamePod
    /\ pod' = [pod EXCEPT !.deleting = TRUE]
    /\ rc' = Idle
    /\ UNCHANGED <<fluentpvc, edits, podCache, made, asMade, due>>

\* A conflict is retried, a pod that is gone is not.
RefuseDelete ==
    /\ rc.pc = "delete"
    /\ ~SamePod
    /\ due' = (due \/ Exists(pod))
    /\ rc' = Idle
    /\ UNCHANGED clusterVars

ReconcilePod == RetryPod \/ DecideOnPod \/ DeletePod \/ RefuseDelete

Next ==
    \/ CreateFluentPVC \/ EditFluentPVC \/ AdmitPod
    \/ StartPod \/ EndPod \/ RemovePod
    \/ \E c \in DOMAIN pod.status : StopContainer(c) \/ RestartContainer(c)
    \/ SyncPod \/ TakePod \/ ReconcilePod

Spec == Init /\ [][Next]_vars

-----------------------------------------------------------------------------
(* Properties.                                                             *)

SidecarOf(p) == made[p.uid].sidecar.name

\* A pod is deleted only when it runs and its sidecar has terminated: not its
\* successor, nor one that has ended meanwhile.  The sidecar is the container that
\* the FluentPVC named as the pass read it, which must ask for the deletion; unless
\* the FluentPVC was changed after the pod was made, it is the one the pod was given.
\* (After a change it may be another container.)
OnlyBrokenPodsAreDeleted ==
    [][rc.pc = "delete" /\ rc'.pc = "idle" /\ pod' # pod =>
          /\ pod.phase = "Running"
          /\ \E f \in rc.fluentpvc :
                /\ f.deletePodIfSidecarContainerTerminationDetected
                /\ f.sidecar.name \in DOMAIN pod.status
                /\ pod.status[f.sidecar.name] # "running"
                /\ asMade => f = made[pod.uid]]_vars

\* A container reads and writes the claim at the path of the FluentPVC, and the
\* claim only there.
MountsClaim(c, spec, f, claim) ==
    /\ \E i \in DOMAIN spec.volumes :
          spec.volumes[i] = [name |-> f.pvcVolumeName, claim |-> claim]
    /\ {i \in DOMAIN c.mounts : c.mounts[i].name = f.pvcVolumeName} # {}
    /\ \A i \in DOMAIN c.mounts :
          c.mounts[i].name = f.pvcVolumeName <=> c.mounts[i].path = f.pvcVolumeMountPath

\* Whatever the submitted pod brings along, all its containers, the sidecar of
\* the FluentPVC among them, share the pod's claim and have the common variables,
\* and so would the finalizer job's.
AllShareTheClaim(spec, f, claim) ==
    \A i \in DOMAIN spec.containers :
        LET c == spec.containers[i] IN
        /\ MountsClaim(c, spec, f, claim)
        /\ \A j \in DOMAIN f.commonEnvs :
              f.commonEnvs[j] \in {c.envs[k] : k \in DOMAIN c.envs}

PodsAreInjected ==
    Exists(pod) =>
        LET f   == made[pod.uid]
            job == FinalizerJob(f, pod.uid)
        IN  /\ AllShareTheClaim(pod.spec, f, pod.uid)
            /\ \E i \in DOMAIN pod.spec.containers :
                  /\ pod.spec.containers[i].name = f.sidecar.name
                  /\ pod.spec.containers[i].image = f.sidecar.image
            /\ ValidPodSpec(job) => AllShareTheClaim(job, f, pod.uid)

\* Watch events arrive, the queue hands out the name, a pass goes on.
Fairness ==
    /\ WF_vars(SyncPod) /\ WF_vars(TakePod)
    /\ WF_vars(ReconcilePod)

FairSpec == Spec /\ Fairness

\* While the FluentPVC asks for it and keeps the name of the sidecar, every pod
\* whose sidecar has terminated is deleted, or ends.
Monitored ==
    Exists(pod) => \E f \in fluentpvc :
        /\ f.deletePodIfSidecarContainerTerminationDetected
        /\ f.sidecar.name = SidecarOf(pod)

Broken(uid) ==
    /\ pod.uid = uid /\ pod.phase = "Running" /\ ~pod.deleting
    /\ pod.status[SidecarOf(pod)] # "running"

BrokenPodsAreDeleted ==
    []Monitored => \A uid \in 1..MaxPods : Broken(uid) ~> ~Broken(uid)
=============================================================================
