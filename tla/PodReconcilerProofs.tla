------------------------ MODULE PodReconcilerProofs ------------------------
(***************************************************************************)
(* The pod reconciler deletes no pod but one that runs and whose sidecar   *)
(* has terminated, and every pod that is stored is injected, for any       *)
(* FluentPVCs and pod specs, any number of pods and of edits.              *)
(***************************************************************************)
EXTENDS PodReconciler, InjectionProofs

\* A pod, and the locals of a pass, have their fields and no other.
IsPod(p) ==
    p = [ uid |-> p.uid, phase |-> p.phase, deleting |-> p.deleting,
          spec |-> p.spec, status |-> p.status ]

\* What the preconditions of a deletion keep true of the pod p that a pass has
\* read: the container that FluentPVC f names has terminated.
Terminated(p, f) ==
    /\ p.phase = "Running" /\ p.uid # 0
    /\ f.deletePodIfSidecarContainerTerminationDetected
    /\ f.sidecar.name \in DOMAIN p.status
    /\ p.status[f.sidecar.name] # "running"

\* The last of the pods.
Newest == Len(made)

\* As long as nobody has changed it since, the FluentPVC is the one that made the
\* last pod.
MadeByFluentPVC ==
    asMade /\ Newest # 0 => fluentpvc = {made[Newest]}

KnownPod(p) ==
    /\ IsPod(p)
    /\ p.uid \in 0..Newest
    /\ p.uid = 0 => p.phase = "None"

\* A pass that is to delete the last pod has read the FluentPVC since that pod was
\* made: it is the one that made it, unless it was changed.
DecidedInv ==
    rc.pc = "delete" =>
        \E f \in FluentPVCs :
            /\ rc.fluentpvc = {f}
            /\ Terminated(rc.pod, f)
            /\ asMade /\ rc.pod.uid = Newest => f = made[Newest]

DeleteInv ==
    /\ made \in Seq(FluentPVCs)
    /\ fluentpvc \subseteq FluentPVCs /\ \A f, g \in fluentpvc : f = g
    /\ MadeByFluentPVC
    /\ KnownPod(pod) /\ KnownPod(podCache) /\ KnownPod(rc.pod)
    /\ Exists(pod) => pod.uid = Newest
    /\ rc = [pc |-> rc.pc, pod |-> rc.pod, fluentpvc |-> rc.fluentpvc]
    /\ rc.pc = "fluentpvc" => rc.pod.phase = "Running"
    /\ DecidedInv

\* The initial state satisfies it: no pod, no pass.
LEMMA DeleteInvInit == Init => DeleteInv
BY DEF Init, DeleteInv, MadeByFluentPVC, DecidedInv, Exists, KnownPod, IsPod, NoPod, Idle,
       Newest

\* Edits and new FluentPVCs change nothing of the pods; there is no new one as long
\* as the old one is there, and once a pod was made it goes only by an edit.
LEMMA FluentPVCKeeps ==
    ASSUME DeleteInv, CreateFluentPVC \/ EditFluentPVC
    PROVE  DeleteInv'
<1> USE DEF DeleteInv, KnownPod, IsPod, Exists, Newest
<1>1. CASE CreateFluentPVC
  <2>1. ~(asMade /\ Newest # 0)
    BY <1>1 DEF CreateFluentPVC, MadeByFluentPVC
  <2>2. MadeByFluentPVC' /\ DecidedInv'
    BY <1>1, <2>1 DEF CreateFluentPVC, MadeByFluentPVC, DecidedInv, Terminated
  <2> QED BY <1>1, <2>2 DEF CreateFluentPVC
<1>2. CASE EditFluentPVC
  <2>1. MadeByFluentPVC' /\ DecidedInv'
    BY <1>2 DEF EditFluentPVC, MadeByFluentPVC, DecidedInv, Terminated
  <2> QED BY <1>2, <2>1 DEF EditFluentPVC
<1> QED BY <1>1, <1>2

\* A new pod is made by the FluentPVC there is, and has a UID of its own.
LEMMA AdmitPodKeeps ==
    ASSUME DeleteInv, AdmitPod
    PROVE  DeleteInv'
<1> USE DEF DeleteInv, KnownPod, IsPod, Newest
<1>1. PICK f \in fluentpvc, spec \in PodSpecs :
         /\ pod' = [NoPod EXCEPT !.uid = Len(made) + 1, !.phase = "Pending",
                                 !.spec = PatchedPod(spec, f, Len(made) + 1)]
         /\ made' = Append(made, f) /\ ~Exists(pod)
  BY DEF AdmitPod
<1>2. fluentpvc = {f} /\ f \in FluentPVCs
  OBVIOUS
<1>3. /\ made' \in Seq(FluentPVCs) /\ Len(made) \in Nat
      /\ Len(made') = Len(made) + 1
      /\ made'[Len(made) + 1] = f
      /\ \A i \in 1..Len(made) : made'[i] = made[i]
  BY <1>1, <1>2
<1>4. UNCHANGED <<fluentpvc, podCache, due, rc>>
  BY DEF AdmitPod
<1>5. MadeByFluentPVC'
  BY <1>2, <1>3, <1>4 DEF MadeByFluentPVC, Newest
<1>6. KnownPod(pod)' /\ pod'.uid = Len(made')
  <2> DEFINE patched == PatchedPod(spec, f, Len(made) + 1)
  <2>1. pod' = [NoPod EXCEPT !.uid = Len(made) + 1, !.phase = "Pending", !.spec = patched]
    BY <1>1
  <2> HIDE DEF patched
  <2>2. pod' = [ uid |-> Len(made) + 1, phase |-> "Pending", deleting |-> FALSE,
                 spec |-> patched, status |-> << >> ]
    BY <2>1 DEF NoPod
  <2>3. Len(made) + 1 \in 0..Len(made') /\ Len(made) + 1 # 0
    BY <1>3
  <2> QED BY <1>3, <2>2, <2>3
<1>7. DecidedInv'
  BY <1>3, <1>4 DEF DecidedInv, Terminated
<1>8. KnownPod(podCache)' /\ KnownPod(rc.pod)'
  BY <1>3, <1>4
<1> QED BY <1>2, <1>3, <1>4, <1>5, <1>6, <1>7, <1>8 DEF Exists

\* What the kubelet does to the pod leaves it a pod with the UID it has.
LEMMA KubeletKeeps ==
    ASSUME DeleteInv,
           \/ StartPod \/ EndPod \/ RemovePod
           \/ \E c \in DOMAIN pod.status : StopContainer(c) \/ RestartContainer(c)
    PROVE  DeleteInv'
<1> USE DEF DeleteInv, ChangePod
<1>1. UNCHANGED <<fluentpvc, podCache, made, asMade, due, rc>>
  BY DEF StartPod, EndPod, RemovePod, StopContainer, RestartContainer
<1>2. KnownPod(pod)' /\ (Exists(pod)' => pod'.uid = Newest)
  <2> USE DEF KnownPod, IsPod, Exists, Newest
  <2>1. CASE StartPod
    BY <1>1, <2>1 DEF StartPod
  <2>2. CASE EndPod
    BY <1>1, <2>2 DEF EndPod
  <2>3. CASE RemovePod
    BY <1>1, <2>3 DEF RemovePod, NoPod
  <2>4. ASSUME NEW c \in DOMAIN pod.status, StopContainer(c)
        PROVE  KnownPod(pod)' /\ (Exists(pod)' => pod'.uid = Newest)
    BY <1>1, <2>4 DEF StopContainer
  <2>5. ASSUME NEW c \in DOMAIN pod.status, RestartContainer(c)
        PROVE  KnownPod(pod)' /\ (Exists(pod)' => pod'.uid = Newest)
    BY <1>1, <2>5 DEF RestartContainer
  <2> QED BY <2>1, <2>2, <2>3, <2>4, <2>5
<1>3. KnownPod(podCache)' /\ KnownPod(rc.pod)'
  BY <1>1 DEF KnownPod, IsPod, Newest
<1>4. DecidedInv' /\ MadeByFluentPVC'
  BY <1>1 DEF DecidedInv, Terminated, MadeByFluentPVC, Newest
<1> QED BY <1>1, <1>2, <1>3, <1>4 DEF Newest

\* A pass reads a pod that runs, and goes on to the deletion only when the FluentPVC
\* asks for it and the status of the sidecar says so; if the pod is the last one,
\* that FluentPVC is the one that made it, or has been changed.
LEMMA PassKeeps ==
    ASSUME DeleteInv, SyncPod \/ TakePod \/ ReconcilePod
    PROVE  DeleteInv'
<1> USE DEF DeleteInv
<1>1. UNCHANGED <<fluentpvc, made, asMade>>
  BY DEF SyncPod, TakePod, ReconcilePod, RetryPod, DecideOnPod, DeletePod,
         RefuseDelete, clusterVars
<1>2. MadeByFluentPVC'
  BY <1>1 DEF MadeByFluentPVC, Newest
<1>3. /\ KnownPod(Idle.pod) /\ Idle.pc = "idle"
      /\ Idle = [pc |-> Idle.pc, pod |-> Idle.pod, fluentpvc |-> Idle.fluentpvc]
  <2>1. KnownPod(NoPod)
    BY DEF NoPod, KnownPod, IsPod, Newest
  <2> QED BY <2>1 DEF Idle
<1> USE DEF KnownPod, IsPod, Newest, Exists
<1>4. CASE SyncPod
  BY <1>1, <1>2, <1>4 DEF SyncPod, DecidedInv, Terminated
<1>5. CASE TakePod
  <2>1. \/ rc' = Idle
        \/ podCache.phase = "Running" /\ rc' = [Idle EXCEPT !.pc = "fluentpvc", !.pod = podCache]
    BY <1>5 DEF TakePod
  <2>2. UNCHANGED <<pod, podCache>>
    BY <1>5 DEF TakePod, clusterVars
  <2>3. CASE rc' = Idle
    BY <1>1, <1>2, <1>3, <2>2, <2>3 DEF DecidedInv
  <2>4. CASE podCache.phase = "Running" /\ rc' = [Idle EXCEPT !.pc = "fluentpvc", !.pod = podCache]
    <3>1. rc' = [pc |-> "fluentpvc", pod |-> podCache, fluentpvc |-> Idle.fluentpvc]
      BY <1>3, <2>4
    <3> QED BY <1>1, <1>2, <2>2, <2>4, <3>1 DEF DecidedInv
  <2> QED BY <2>1, <2>3, <2>4
<1>6. CASE RetryPod \/ RefuseDelete
  <2>1. rc' = Idle /\ UNCHANGED <<pod, podCache>>
    BY <1>6 DEF RetryPod, RefuseDelete, clusterVars
  <2> QED BY <1>1, <1>2, <1>3, <2>1 DEF DecidedInv
<1>7. CASE DeletePod
  <2>1. rc' = Idle /\ podCache' = podCache /\ pod' = [pod EXCEPT !.deleting = TRUE]
    BY <1>7 DEF DeletePod
  <2> QED BY <1>1, <1>2, <1>3, <2>1 DEF DecidedInv
<1>8. CASE DecideOnPod
  <2>1. PICK f \in fluentpvc :
          /\ f.deletePodIfSidecarContainerTerminationDetected => HasStatus(f)
          /\ rc' = IF /\ f.deletePodIfSidecarContainerTerminationDetected
                      /\ TerminationDetected(rc.pod.status[f.sidecar.name])
                   THEN [rc EXCEPT !.pc = "delete", !.fluentpvc = {f}] ELSE Idle
    BY <1>8 DEF DecideOnPod
  <2>2. UNCHANGED <<pod, podCache>> /\ rc.pc = "fluentpvc"
    BY <1>8 DEF DecideOnPod, clusterVars
  <2>3. CASE rc' = Idle
    BY <1>1, <1>2, <1>3, <2>2, <2>3 DEF DecidedInv
  <2>4. CASE rc' # Idle
    <3>1. /\ rc' = [rc EXCEPT !.pc = "delete", !.fluentpvc = {f}]
          /\ f.deletePodIfSidecarContainerTerminationDetected
          /\ HasStatus(f) /\ TerminationDetected(rc.pod.status[f.sidecar.name])
      BY <2>1, <2>4
    <3>2. rc' = [pc |-> "delete", pod |-> rc.pod, fluentpvc |-> {f}]
      BY <3>1
    <3>3. rc.pod.phase = "Running" /\ rc.pod.uid \in 1..Len(made)
      BY <2>2
    <3>4. fluentpvc = {f} /\ f \in FluentPVCs
      BY <2>1
    <3>5. asMade => f = made[Len(made)]
      BY <3>3, <3>4 DEF MadeByFluentPVC
    <3>6. Terminated(rc.pod, f)
      BY <3>1, <3>3 DEF Terminated, HasStatus, TerminationDetected
    <3>7. DecidedInv'
      BY <1>1, <3>2, <3>4, <3>5, <3>6 DEF DecidedInv, Terminated
    <3> QED BY <1>1, <1>2, <2>2, <3>2, <3>7
  <2> QED BY <2>3, <2>4
<1> QED BY <1>4, <1>5, <1>6, <1>7, <1>8 DEF ReconcilePod

\* The invariant of the pod reconciler.
THEOREM DeleteInvariant == Spec => []DeleteInv
<1>1. Init => DeleteInv
  BY DeleteInvInit
<1>2. DeleteInv /\ [Next]_vars => DeleteInv'
  <2> SUFFICES ASSUME DeleteInv, [Next]_vars PROVE DeleteInv'
    OBVIOUS
  <2>1. CASE UNCHANGED vars
    BY <2>1 DEF vars, clusterVars, DeleteInv, MadeByFluentPVC, DecidedInv, KnownPod, IsPod,
                Terminated, Exists, Newest
  <2> QED BY <2>1, FluentPVCKeeps, AdmitPodKeeps, KubeletKeeps, PassKeeps DEF Next
<1> QED BY <1>1, <1>2, PTL DEF Spec

\* A pod is deleted only when it runs and the sidecar that the FluentPVC named as
\* the pass read it has terminated; unless the FluentPVC was changed after the pod
\* was made, that is the pod's own sidecar.
THEOREM DeletesOnlyBrokenPods == Spec => OnlyBrokenPodsAreDeleted
<1>1. ASSUME DeleteInv, [Next]_vars, rc.pc = "delete", rc'.pc = "idle", pod' # pod
      PROVE  /\ pod.phase = "Running"
             /\ \E f \in rc.fluentpvc :
                   /\ f.deletePodIfSidecarContainerTerminationDetected
                   /\ f.sidecar.name \in DOMAIN pod.status
                   /\ pod.status[f.sidecar.name] # "running"
                   /\ asMade => f = made[pod.uid]
  <2>1. rc' # rc
    BY <1>1
  <2>2. DeletePod
    BY <1>1, <2>1 DEF Next, vars, CreateFluentPVC, EditFluentPVC, AdmitPod, StartPod,
          EndPod, RemovePod, StopContainer, RestartContainer, ChangePod, SyncPod,
          TakePod, ReconcilePod, RetryPod, DecideOnPod, RefuseDelete, clusterVars
  <2>3. pod = rc.pod
    BY <2>2 DEF DeletePod, SamePod
  <2>4. PICK f \in FluentPVCs :
           /\ rc.fluentpvc = {f} /\ Terminated(pod, f)
           /\ asMade /\ pod.uid = Newest => f = made[Newest]
    BY <1>1, <2>3 DEF DeleteInv, DecidedInv
  <2>5. Exists(pod)
    BY <2>4 DEF Terminated, Exists
  <2>6. pod.uid = Newest
    BY <1>1, <2>5 DEF DeleteInv
  <2> QED BY <2>4, <2>6 DEF Terminated, Newest
<1>2. DeleteInv /\ [Next]_vars =>
         [rc.pc = "delete" /\ rc'.pc = "idle" /\ pod' # pod =>
            /\ pod.phase = "Running"
            /\ \E f \in rc.fluentpvc :
                  /\ f.deletePodIfSidecarContainerTerminationDetected
                  /\ f.sidecar.name \in DOMAIN pod.status
                  /\ pod.status[f.sidecar.name] # "running"
                  /\ asMade => f = made[pod.uid]]_vars
  BY <1>1
<1> QED BY <1>2, DeleteInvariant, PTL DEF Spec, OnlyBrokenPodsAreDeleted

-----------------------------------------------------------------------------
(* Types.                                                                  *)

\* What TypeOK says of a pod, when so many were made.
PodTypeOK(p, number) ==
    /\ p.uid \in 0..number
    /\ p.phase \in {"None", "Pending", "Running", "Ended"}
    /\ p.deleting \in BOOLEAN
    /\ p.status # << >> => DOMAIN p.status = NamesOf(p.spec.containers)
    /\ \A c \in DOMAIN p.status : p.status[c] \in ContainerState

\* A step of the kubelet leaves a pod that is one.
LEMMA KubeletTypes ==
    ASSUME TypeOK, DeleteInv,
           \/ StartPod \/ EndPod \/ RemovePod
           \/ \E c \in DOMAIN pod.status : StopContainer(c) \/ RestartContainer(c)
    PROVE  PodTypeOK(pod', Len(made))
<1>1. Len(made) \in Nat
  BY DEF DeleteInv
<1>2. PodTypeOK(pod, Len(made)) /\ IsPod(pod)
  BY DEF TypeOK, DeleteInv, KnownPod, PodTypeOK
<1> USE DEF ChangePod
<1>3. CASE StartPod
  <2>1. pod' = [pod EXCEPT !.phase = "Running",
                  !.status = [c \in NamesOf(pod.spec.containers) |-> "running"]]
    BY <1>3 DEF StartPod
  <2>2. /\ pod'.uid = pod.uid /\ pod'.phase = "Running" /\ pod'.deleting = pod.deleting
        /\ pod'.spec = pod.spec
        /\ pod'.status = [c \in NamesOf(pod.spec.containers) |-> "running"]
    BY <1>2, <2>1 DEF IsPod
  <2> QED BY <1>2, <2>2 DEF PodTypeOK, ContainerState
<1>4. CASE EndPod
  <2>1. pod' = [pod EXCEPT !.phase = "Ended", !.status = << >>]
    BY <1>4 DEF EndPod
  <2>2. /\ pod'.uid = pod.uid /\ pod'.phase = "Ended" /\ pod'.deleting = pod.deleting
        /\ pod'.status = << >>
    BY <1>2, <2>1 DEF IsPod
  <2> QED BY <1>2, <2>2 DEF PodTypeOK
<1>5. CASE RemovePod
  BY <1>1, <1>5 DEF RemovePod, NoPod, PodTypeOK
<1>6. ASSUME NEW c \in DOMAIN pod.status, NEW state \in ContainerState,
             pod.phase = "Running", pod' = [pod EXCEPT !.status[c] = state]
      PROVE  PodTypeOK(pod', Len(made))
  <2>1. /\ pod'.uid = pod.uid /\ pod'.phase = pod.phase /\ pod'.deleting = pod.deleting
        /\ pod'.spec = pod.spec
        /\ pod'.status = [pod.status EXCEPT ![c] = state]
    BY <1>2, <1>6 DEF IsPod
  <2>2. /\ DOMAIN pod'.status = DOMAIN pod.status
        /\ \A d \in DOMAIN pod.status : pod'.status[d] \in {state, pod.status[d]}
    BY <2>1
  <2>3. pod.status # << >>
    BY <1>6
  <2> QED BY <1>2, <2>1, <2>2, <2>3 DEF PodTypeOK
<1>7. ASSUME NEW c \in DOMAIN pod.status, StopContainer(c) \/ RestartContainer(c)
      PROVE  PodTypeOK(pod', Len(made))
  BY <1>6, <1>7 DEF StopContainer, RestartContainer, ContainerState
<1> QED BY <1>3, <1>4, <1>5, <1>7

\* A step leaves every variable of its type.
LEMMA TypesKeep ==
    ASSUME TypeOK, DeleteInv, DeleteInv', [Next]_vars
    PROVE  TypeOK'
<1>0. /\ Len(made) \in Nat /\ MaxPods \in Nat /\ MaxEdits \in Nat
      /\ \A p \in {pod, podCache, rc.pod} : PodTypeOK(p, Len(made))
  BY BoundsAssumption DEF DeleteInv, TypeOK, PodTypeOK
<1>1. PodTypeOK(NoPod, Len(made)) /\ Idle.pod = NoPod /\ Idle.pc = "idle" /\ Idle.fluentpvc = {}
  BY <1>0 DEF PodTypeOK, NoPod, Idle
<1> SUFFICES /\ edits' \in 0..MaxEdits /\ Len(made') <= MaxPods
             /\ \A p \in {pod', podCache', rc'.pod} : PodTypeOK(p, Len(made'))
             /\ due' \in BOOLEAN /\ asMade' \in BOOLEAN
             /\ rc'.pc \in {"idle", "fluentpvc", "delete"} /\ rc'.fluentpvc \subseteq FluentPVCs
  BY DEF TypeOK, DeleteInv, PodTypeOK
<1>2. CASE AdmitPod
  <2>1. PICK f \in fluentpvc, spec \in PodSpecs :
           /\ pod' = [NoPod EXCEPT !.uid = Len(made) + 1, !.phase = "Pending",
                                   !.spec = PatchedPod(spec, f, Len(made) + 1)]
           /\ made' = Append(made, f)
    BY <1>2 DEF AdmitPod
  <2>2. Len(made') = Len(made) + 1
    BY <2>1 DEF DeleteInv
  <2>3. \A p : PodTypeOK(p, Len(made)) => PodTypeOK(p, Len(made'))
    BY <1>0, <2>2 DEF PodTypeOK
  <2>4. PodTypeOK(pod', Len(made'))
    <3> DEFINE patched == PatchedPod(spec, f, Len(made) + 1)
    <3>1. pod' = [NoPod EXCEPT !.uid = Len(made) + 1, !.phase = "Pending", !.spec = patched]
      BY <2>1
    <3> HIDE DEF patched
    <3>2. /\ pod'.uid = Len(made) + 1 /\ pod'.phase = "Pending" /\ pod'.deleting = FALSE
          /\ pod'.status = << >>
      BY <3>1 DEF NoPod
    <3>3. pod'.uid \in 0..Len(made') /\ DOMAIN pod'.status = {}
      BY <1>0, <2>2, <3>2
    <3> QED BY <3>2, <3>3, Zenon DEF PodTypeOK
  <2>5. /\ UNCHANGED <<fluentpvc, edits, podCache, due, rc>>
        /\ Len(made) < MaxPods /\ asMade' \in BOOLEAN
    BY <1>2 DEF AdmitPod
  <2>6. PodTypeOK(podCache, Len(made')) /\ PodTypeOK(rc.pod, Len(made'))
    BY <1>0, <2>3
  <2>7. rc'.pc \in {"idle", "fluentpvc", "delete"} /\ rc'.fluentpvc \subseteq FluentPVCs
    BY <2>5 DEF TypeOK
  <2>8. edits' \in 0..MaxEdits /\ due' \in BOOLEAN /\ Len(made') <= MaxPods
    BY <1>0, <2>2, <2>5 DEF TypeOK
  <2> QED BY <2>4, <2>5, <2>6, <2>7, <2>8
<1>3. CASE CreateFluentPVC \/ EditFluentPVC
  <2>1. UNCHANGED <<pod, podCache, made, due, rc>>
    BY <1>3 DEF CreateFluentPVC, EditFluentPVC
  <2>2. asMade' \in BOOLEAN
    BY <1>3, Zenon DEF CreateFluentPVC, EditFluentPVC, TypeOK
  <2>3. edits' \in 0..MaxEdits
    BY <1>0, <1>3 DEF CreateFluentPVC, EditFluentPVC, TypeOK
  <2> QED BY <1>0, <2>1, <2>2, <2>3 DEF TypeOK
<1>4. CASE \/ StartPod \/ EndPod \/ RemovePod
           \/ \E c \in DOMAIN pod.status : StopContainer(c) \/ RestartContainer(c)
  <2>1. UNCHANGED <<fluentpvc, edits, podCache, made, asMade, due, rc>>
    BY <1>4 DEF StartPod, EndPod, RemovePod, StopContainer, RestartContainer, ChangePod
  <2> QED BY <1>0, <1>4, <2>1, KubeletTypes DEF TypeOK
<1>5. CASE SyncPod
  BY <1>0, <1>5 DEF SyncPod, TypeOK
<1>6. CASE TakePod
  <2>1. /\ rc'.pod \in {podCache, NoPod} /\ rc'.pc \in {"idle", "fluentpvc"}
        /\ rc'.fluentpvc = {}
    BY <1>1, <1>6 DEF TakePod
  <2> QED BY <1>0, <1>1, <1>6, <2>1 DEF TakePod, clusterVars, TypeOK
<1>7. CASE RetryPod \/ RefuseDelete
  BY <1>0, <1>1, <1>7 DEF RetryPod, RefuseDelete, clusterVars, TypeOK
<1>8. CASE DecideOnPod
  <2>1. \/ \E f \in fluentpvc : rc' = [rc EXCEPT !.pc = "delete", !.fluentpvc = {f}]
        \/ rc' = Idle
    BY <1>8 DEF DecideOnPod
  <2>2. /\ rc'.pod \in {rc.pod, NoPod} /\ rc'.pc \in {"idle", "delete"}
        /\ rc'.fluentpvc \subseteq FluentPVCs
    BY <1>1, <2>1 DEF DeleteInv
  <2> QED BY <1>0, <1>1, <1>8, <2>2 DEF DecideOnPod, clusterVars, TypeOK
<1>9. CASE DeletePod
  <2>1. pod' = [pod EXCEPT !.deleting = TRUE] /\ IsPod(pod)
    BY <1>9 DEF DeletePod, DeleteInv, KnownPod
  <2>2. PodTypeOK(pod', Len(made))
    BY <1>0, <2>1 DEF IsPod, PodTypeOK
  <2> QED BY <1>0, <1>1, <1>9, <2>2 DEF DeletePod, TypeOK
<1>10. CASE UNCHANGED vars
  BY <1>0, <1>10 DEF vars, clusterVars, TypeOK
<1> QED BY <1>2, <1>3, <1>4, <1>5, <1>6, <1>7, <1>8, <1>9, <1>10 DEF Next, ReconcilePod

\* The types of the variables: the status of a pod is that of its containers.
THEOREM TypeCorrect == Spec => []TypeOK
<1>1. Init => TypeOK
  <2>1. << >> \in Seq(FluentPVCs) /\ Len(<< >>) = 0 /\ 0 <= MaxPods /\ 0 \in 0..MaxEdits
    BY BoundsAssumption
  <2>2. /\ NoPod.uid = 0 /\ NoPod.phase = "None" /\ NoPod.deleting = FALSE
        /\ NoPod.status = << >> /\ DOMAIN NoPod.status = {} /\ 0 \in 0..0
    BY DEF NoPod
  <2>3. Idle.pod = NoPod /\ Idle.pc = "idle" /\ Idle.fluentpvc = {}
    BY DEF Idle
  <2> HIDE DEF NoPod, Idle
  <2> QED BY <2>1, <2>2, <2>3 DEF Init, TypeOK
<1>2. TypeOK /\ DeleteInv /\ DeleteInv' /\ [Next]_vars => TypeOK'
  BY TypesKeep
<1> QED BY <1>1, <1>2, DeleteInvariant, PTL DEF Spec

-----------------------------------------------------------------------------
(* Injection.                                                              *)

\* What is made of a spec that has the claim's volume shares the claim, if it is
\* valid: then no other mount has its path.
LEMMA SharesTheClaim ==
    ASSUME NEW spec \in PodSpec, NEW f \in FluentPVCSpec, NEW claim \in Nat,
           \E i \in DOMAIN spec.volumes :
              spec.volumes[i] = [name |-> f.pvcVolumeName, claim |-> claim],
           ValidPodSpec(WithEnvs(WithVolumeMounts(spec, f), f))
    PROVE  AllShareTheClaim(WithEnvs(WithVolumeMounts(spec, f), f), f, claim)
<1> DEFINE u == WithVolumeMounts(spec, f)
           t == WithEnvs(u, f)
           m == [name |-> f.pvcVolumeName, path |-> f.pvcVolumeMountPath]
<1>1. /\ u \in PodSpec /\ u.volumes = spec.volumes
      /\ \A i \in DOMAIN u.containers :
            /\ \E j \in DOMAIN u.containers[i].mounts : u.containers[i].mounts[j] = m
            /\ \A j \in DOMAIN u.containers[i].mounts :
                  u.containers[i].mounts[j].name = m.name => u.containers[i].mounts[j] = m
  BY WithVolumeMountsInjected
<1>2. ValidPodSpec(t)
  OBVIOUS
<1> HIDE DEF u
<1>3. /\ t.volumes = u.volumes /\ DOMAIN t.containers = DOMAIN u.containers
      /\ \A i \in DOMAIN t.containers :
            /\ t.containers[i].mounts = u.containers[i].mounts
            /\ \A j \in DOMAIN f.commonEnvs :
                  f.commonEnvs[j] \in Range(t.containers[i].envs)
  BY <1>1, WithEnvsInjected DEF SameContainers
<1> SUFFICES ASSUME NEW i \in DOMAIN t.containers
             PROVE  /\ MountsClaim(t.containers[i], t, f, claim)
                    /\ \A j \in DOMAIN f.commonEnvs :
                          f.commonEnvs[j] \in {t.containers[i].envs[k] :
                                                  k \in DOMAIN t.containers[i].envs}
  BY DEF AllShareTheClaim, u
<1> HIDE DEF t
<1> DEFINE mounts == t.containers[i].mounts
<1>4. /\ \E j \in DOMAIN mounts : mounts[j] = m
      /\ \A j \in DOMAIN mounts : mounts[j].name = m.name => mounts[j] = m
  BY <1>1, <1>3
<1>5. \A j, k \in DOMAIN mounts : mounts[j].path = mounts[k].path => j = k
  BY <1>2 DEF ValidPodSpec, ValidContainer
<1>6. \A j \in DOMAIN mounts : mounts[j].name = m.name <=> mounts[j].path = m.path
  <2> HIDE DEF mounts, m
  <2> QED BY <1>4, <1>5
<1>7. MountsClaim(t.containers[i], t, f, claim)
  BY <1>1, <1>3, <1>4, <1>6 DEF MountsClaim
<1> QED BY <1>3, <1>7 DEF Range

\* What PodsAreInjected says of one pod.
PodIsInjected(spec, f, uid) ==
    LET job == FinalizerJob(f, uid)
    IN  /\ AllShareTheClaim(spec, f, uid)
        /\ \E i \in DOMAIN spec.containers :
              /\ spec.containers[i].name = f.sidecar.name
              /\ spec.containers[i].image = f.sidecar.image
        /\ ValidPodSpec(job) => AllShareTheClaim(job, f, uid)

\* The patch of the webhook, and the job of the PVC reconciler.
LEMMA PatchInjects ==
    ASSUME NEW spec \in PodSpec, NEW f \in FluentPVCSpec, NEW uid \in Nat,
           ValidPodSpec(PatchedPod(spec, f, uid))
    PROVE  PodIsInjected(PatchedPod(spec, f, uid), f, uid)
<1> DEFINE volume == [name |-> f.pvcVolumeName, claim |-> uid]
           v == WithVolumes(spec, f, uid)
           w == InjectOrReplaceContainer(v, f.sidecar)
           u == WithVolumeMounts(w, f)
           t == WithEnvs(u, f)
<1>0. f.sidecar \in Container /\ f.job \in PodSpec
  BY DEF FluentPVCSpec
<1>1. PatchedPod(spec, f, uid) = t
  BY DEF PatchedPod
<1>2. v \in PodSpec /\ \E i \in DOMAIN v.volumes : v.volumes[i] = volume
  BY WithVolumesInjected
<1>3. /\ w \in PodSpec /\ w.volumes = v.volumes
      /\ \E i \in DOMAIN w.containers : w.containers[i] = f.sidecar
  <2> HIDE DEF v
  <2>1. w = [v EXCEPT !.containers = InjectOrReplace(v.containers, f.sidecar)]
    BY DEF InjectOrReplaceContainer
  <2>2. v.containers \in Seq(Container)
    BY <1>2 DEF PodSpec
  <2>3. /\ InjectOrReplace(v.containers, f.sidecar) \in Seq(Container)
        /\ \E i \in DOMAIN InjectOrReplace(v.containers, f.sidecar) :
              InjectOrReplace(v.containers, f.sidecar)[i] = f.sidecar
    <3>1. \A cs \in Seq(Container), c \in Container :
             /\ InjectOrReplace(cs, c) \in Seq(Container)
             /\ \E i \in DOMAIN InjectOrReplace(cs, c) : InjectOrReplace(cs, c)[i] = c
      BY Injected, InjectedIsThere
    <3> QED BY <1>0, <2>2, <3>1
  <2> QED BY <1>2, <2>1, <2>3 DEF PodSpec
<1>4. AllShareTheClaim(t, f, uid)
  <2> HIDE DEF v, w
  <2> QED BY <1>1, <1>2, <1>3, SharesTheClaim
<1>5. \E i \in DOMAIN t.containers : /\ t.containers[i].name = f.sidecar.name
                                     /\ t.containers[i].image = f.sidecar.image
  <2> HIDE DEF w
  <2>1. u \in PodSpec /\ SameContainers(u, w)
    BY <1>3, WithVolumeMountsInjected
  <2> HIDE DEF u
  <2>2. SameContainers(t, u)
    BY <2>1, WithEnvsInjected
  <2> QED BY <1>3, <2>1, <2>2 DEF SameContainers
<1>6. ASSUME ValidPodSpec(FinalizerJob(f, uid))
      PROVE  AllShareTheClaim(FinalizerJob(f, uid), f, uid)
  <2>1. /\ WithVolumes(f.job, f, uid) \in PodSpec
        /\ \E i \in DOMAIN WithVolumes(f.job, f, uid).volumes :
              WithVolumes(f.job, f, uid).volumes[i] = volume
    BY <1>0, WithVolumesInjected
  <2> QED BY <1>6, <2>1, SharesTheClaim DEF FinalizerJob
<1> QED BY <1>1, <1>4, <1>5, <1>6 DEF PodIsInjected

\* A stored pod keeps its spec, and what it was made by is not forgotten.
LEMMA PodsStayInjected ==
    ASSUME DeleteInv, PodsAreInjected, [Next]_vars
    PROVE  PodsAreInjected'
<1>0. PodsAreInjected <=> (Exists(pod) => PodIsInjected(pod.spec, made[pod.uid], pod.uid))
  BY DEF PodsAreInjected, PodIsInjected
<1> SUFFICES ASSUME Exists(pod)' PROVE PodIsInjected(pod'.spec, made'[pod'.uid], pod'.uid)
  BY DEF PodsAreInjected, PodIsInjected
<1>1. CASE AdmitPod
  <2>1. PICK f \in fluentpvc, spec \in PodSpecs :
           LET uid     == Len(made) + 1
               patched == PatchedPod(spec, f, uid)
           IN  /\ ValidPodSpec(patched)
               /\ pod' = [NoPod EXCEPT !.uid = uid, !.phase = "Pending", !.spec = patched]
               /\ made' = Append(made, f)
    BY <1>1 DEF AdmitPod
  <2> DEFINE uid == Len(made) + 1
             patched == PatchedPod(spec, f, uid)
  <2>2. f \in FluentPVCSpec /\ f \in FluentPVCs /\ spec \in PodSpec
    BY TemplatesAssumption DEF DeleteInv
  <2>3. uid \in Nat /\ made'[uid] = f
    BY <2>1, <2>2 DEF DeleteInv
  <2>4. PodIsInjected(patched, f, uid)
    <3> HIDE DEF uid
    <3> QED BY <2>1, <2>2, <2>3, PatchInjects DEF uid
  <2>5. pod'.uid = uid /\ pod'.spec = patched
    <3>1. pod' = [NoPod EXCEPT !.uid = uid, !.phase = "Pending", !.spec = patched]
      BY <2>1
    <3> HIDE DEF patched, uid
    <3> QED BY <3>1 DEF NoPod
  <2> QED BY <2>3, <2>4, <2>5
<1>2. CASE ~AdmitPod
  <2>1. made' = made
    BY <1>2 DEF Next, vars, CreateFluentPVC, EditFluentPVC, StartPod, EndPod, RemovePod,
          StopContainer, RestartContainer, ChangePod, SyncPod, TakePod, ReconcilePod,
          RetryPod, DecideOnPod, DeletePod, RefuseDelete, clusterVars
  <2>2. pod'.uid = pod.uid /\ pod'.spec = pod.spec
    <3>1. IsPod(pod)
      BY DEF DeleteInv, KnownPod
    <3>2. ~RemovePod
      BY DEF RemovePod, ChangePod, Exists, NoPod
    <3> QED BY <1>2, <3>1, <3>2 DEF IsPod, Next, vars, CreateFluentPVC, EditFluentPVC,
          StartPod, EndPod, StopContainer, RestartContainer, ChangePod, SyncPod, TakePod,
          ReconcilePod, RetryPod, DecideOnPod, DeletePod, RefuseDelete, clusterVars
  <2> QED BY <1>0, <2>1, <2>2 DEF Exists
<1> QED BY <1>1, <1>2

\* Whatever is submitted, and whatever the FluentPVC's templates are, the containers
\* of a stored pod share its claim, the sidecar is among them, and the finalizer
\* job's share it too.
THEOREM PodsInjected == Spec => []PodsAreInjected
<1>1. Init => PodsAreInjected
  BY DEF Init, PodsAreInjected, Exists, NoPod
<1>2. DeleteInv /\ PodsAreInjected /\ [Next]_vars => PodsAreInjected'
  BY PodsStayInjected
<1> QED BY <1>1, <1>2, DeleteInvariant, PTL DEF Spec
=============================================================================
