-------------------------- MODULE MCPodReconciler --------------------------
(***************************************************************************)
(* What TLC runs: FluentPVCs and pods whose volumes, mounts, variables and *)
(* containers have names in common.                                        *)
(***************************************************************************)
EXTENDS PodReconciler

NewMount(name, path)     == [name |-> name, path |-> path]
NewEnv(name, value)      == [name |-> name, value |-> value]
NewVolume(name)          == [name |-> name, claim |-> NoClaimName]
NewContainer(name, image, mounts, envs) ==
    [name |-> name, image |-> image, mounts |-> mounts, envs |-> envs]

\* It has a common volume under the name of the claim's, and one of its own.
Shared ==
    [ accessModes |-> <<"ReadWriteOnce">>, storageClassName |-> "standard",
      pvcVolumeName |-> "logs", pvcVolumeMountPath |-> "/logs",
      sidecar |-> NewContainer("sidecar", "forwarder", << >>, << >>),
      job |-> [ containers |-> <<NewContainer("finalizer", "uploader", << >>, << >>)>>,
                volumes |-> << >> ],
      commonVolumes |-> <<NewVolume("logs"), NewVolume("secret")>>,
      commonVolumeMounts |-> <<NewMount("logs", "/tmp"), NewMount("secret", "/secret")>>,
      commonEnvs |-> <<NewEnv("DIR", "/logs")>>,
      deletePodIfSidecarContainerTerminationDetected |-> TRUE ]

\* Neither is accepted, but Shared may be changed into them.
Renamed ==
    [Shared EXCEPT !.accessModes = <<"ReadWriteOnce", "ReadOnlyMany">>,
                   !.sidecar.name = "agent"]

Unmonitored ==
    [Shared EXCEPT !.storageClassName = "none",
                   !.deletePodIfSidecarContainerTerminationDetected = FALSE]

MCFluentPVCs == {Shared, Renamed, Unmonitored}

\* A pod that has most of the names already, and one that mounts something else
\* where the claim has to be.
MCPodSpecs ==
    { [ containers |->
          << NewContainer("sidecar", "own", <<NewMount("logs", "/var")>>, << >>),
             NewContainer("app", "app",
                          <<NewMount("logs", "/var"), NewMount("tmp", "/tmp")>>,
                          <<NewEnv("DIR", "/var"), NewEnv("MODE", "fast")>>) >>,
        volumes |-> <<NewVolume("logs"), NewVolume("tmp")>> ],
      [ containers |-> <<NewContainer("app", "app", <<NewMount("tmp", "/logs")>>, << >>)>>,
        volumes |-> <<NewVolume("tmp")>> ] }

MCStorageClasses == {"standard"}
=============================================================================
