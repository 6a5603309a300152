---------------------------- MODULE PodInjection ----------------------------
(***************************************************************************)
(* What the webhooks and the PVC reconciler make of the templates in a     *)
(* FluentPVC.  Only operators.                                             *)
(*                                                                         *)
(* A pod spec has a sequence of containers and one of volumes.  A volume   *)
(* has a name and the claim it is for (NoClaimName: none), a container has *)
(* a name, an image that tells containers of one name apart, a sequence of *)
(* mounts (the name of a volume, and a path) and one of variables (a name, *)
(* and a value).  Init containers are not looked at, as in the code.       *)
(***************************************************************************)
EXTENDS Naturals, Sequences, SequencesExt

NoClaimName == 0        \* claims are numbered from 1

NamesOf(s) == {s[i].name : i \in DOMAIN s}

Volume      == [name : STRING, claim : Nat]
VolumeMount == [name : STRING, path : STRING]
EnvVar      == [name : STRING, value : STRING]
Container   == [ name   : STRING,
                 image  : STRING,
                 mounts : Seq(VolumeMount),
                 envs   : Seq(EnvVar) ]
PodSpec     == [containers : Seq(Container), volumes : Seq(Volume)]

FluentPVCSpec ==
    [ accessModes : Seq(STRING), storageClassName : STRING,
      pvcVolumeName : STRING, pvcVolumeMountPath : STRING,
      sidecar : Container, job : PodSpec,
      commonVolumes : Seq(Volume), commonVolumeMounts : Seq(VolumeMount),
      commonEnvs : Seq(EnvVar),
      deletePodIfSidecarContainerTerminationDetected : BOOLEAN ]

-----------------------------------------------------------------------------
(* The helpers of utils/pod/injection.go.                                  *)

\* x takes the place of every element of its name, or comes last.
InjectOrReplace(s, x) ==
    IF x.name \in NamesOf(s)
    THEN [i \in DOMAIN s |-> IF s[i].name = x.name THEN x ELSE s[i]]
    ELSE Append(s, x)

InjectOrReplaceContainer(spec, c) ==
    [spec EXCEPT !.containers = InjectOrReplace(@, c)]

InjectOrReplaceVolume(spec, v) ==
    [spec EXCEPT !.volumes = InjectOrReplace(@, v)]

EachContainer(spec, Change(_)) ==
    [spec EXCEPT !.containers = [i \in DOMAIN @ |-> Change(@[i])]]

InjectOrReplaceVolumeMount(spec, m) ==
    LET Mounted(c) == [c EXCEPT !.mounts = InjectOrReplace(@, m)]
    IN  EachContainer(spec, Mounted)

\* A variable of that name stays, after the one that is injected before it: its
\* loop has no `continue`.
Around(env, e) == IF env.name = e.name THEN <<e, env>> ELSE <<env>>

InjectEnv(envs, e) ==
    IF e.name \in NamesOf(envs)
    THEN FoldLeft(LAMBDA s, env : s \o Around(env, e), << >>, envs)
    ELSE Append(envs, e)

InjectOrReplaceEnv(spec, e) ==
    LET Set(c) == [c EXCEPT !.envs = InjectEnv(@, e)]
    IN  EachContainer(spec, Set)

-----------------------------------------------------------------------------
(* What is injected by FluentPVC f, whose claim has the given name.        *)

WithVolumes(spec, f, claim) ==
    InjectOrReplaceVolume(FoldLeft(InjectOrReplaceVolume, spec, f.commonVolumes),
                          [name |-> f.pvcVolumeName, claim |-> claim])

WithVolumeMounts(spec, f) ==
    InjectOrReplaceVolumeMount(
        FoldLeft(InjectOrReplaceVolumeMount, spec, f.commonVolumeMounts),
        [name |-> f.pvcVolumeName, path |-> f.pvcVolumeMountPath])

WithEnvs(spec, f) == FoldLeft(InjectOrReplaceEnv, spec, f.commonEnvs)

\* Mutant of PatchedPod: the sidecar is injected last.
SidecarLast(spec, f, claim) ==
    InjectOrReplaceContainer(
        WithEnvs(WithVolumeMounts(WithVolumes(spec, f, claim), f), f), f.sidecar)

\* podMutator.Handle: the pod a request is answered with.
PatchedPod(spec, f, claim) ==
    LET withSidecar == InjectOrReplaceContainer(WithVolumes(spec, f, claim), f.sidecar)
    IN  WithEnvs(WithVolumeMounts(withSidecar, f), f)

\* pvcReconciler.Reconcile: the finalizer job's pod.
FinalizerJob(f, claim) ==
    WithEnvs(WithVolumeMounts(WithVolumes(f.job, f, claim), f), f)

-----------------------------------------------------------------------------
(* The API server's validation, as far as injection has to do with it.     *)

ValidContainer(c, volumes) ==
    /\ NamesOf(c.mounts) \subseteq NamesOf(volumes)
    /\ \A i, j \in DOMAIN c.mounts : c.mounts[i].path = c.mounts[j].path => i = j

ValidPodSpec(spec) ==
    /\ spec.containers # << >>
    /\ \A s \in {spec.containers, spec.volumes} :
          \A i, j \in DOMAIN s : s[i].name = s[j].name => i = j
    /\ \A i \in DOMAIN spec.containers :
          ValidContainer(spec.containers[i], spec.volumes)

-----------------------------------------------------------------------------
(* FluentPVCValidator.Handle.  It is asked when a FluentPVC is created, and *)
(* not when it is changed.                                                 *)

\* The job it tries has the common variables, and none of the volumes.
ValidatedJob(f) == WithEnvs(f.job, f)

\* The claim it tries is not told apart by more than what is checked here.
Accepted(f, storageClasses) ==
    /\ \A i \in DOMAIN f.accessModes : f.accessModes[i] = "ReadWriteOnce"
    /\ f.storageClassName \in storageClasses
    /\ ValidPodSpec(ValidatedJob(f))
    /\ ValidPodSpec([containers |-> <<f.sidecar>>, volumes |-> << >>])
=============================================================================
