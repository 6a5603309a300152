----------------------------- MODULE PodMutator -----------------------------
(***************************************************************************)
(* The mutating webhook for pods (podMutator.Handle) and the API server's  *)
(* handling of the pod it patches.  One request per name.  A request makes *)
(* the PVC, the binding and the binding's status with three calls, each of *)
(* which may fail, and the operator may stop between any two.              *)
(***************************************************************************)
EXTENDS Cluster

CONSTANT DryRuns    \* the values of AdmissionRequest.DryRun that occur

ASSUME DryRunAssumption == DryRuns \subseteq BOOLEAN

VARIABLES
    request,        \* how far the request of a name has come
    decoded         \* what its handler has read: the UID of the FluentPVC, and
                    \* DryRun, which the handler does not look at

mutatorVars == <<request, decoded>>

MutatorTypeOK ==
    /\ request \in [Names -> {"none", "started", "claimed", "bound", "allowed", "closed"}]
    /\ decoded \in [Names -> [owner : Nat, dryRun : BOOLEAN]]

MutatorInit ==
    /\ request = [n \in Names |-> "none"]
    /\ decoded = [n \in Names |-> [owner |-> 0, dryRun |-> FALSE]]

Advance(n, from, to) ==
    /\ request[n] = from
    /\ request' = [request EXCEPT ![n] = to]

\* A pod of a FluentPVC is submitted.  The FluentPVC must be in the cache; it
\* may be terminating.
ReceivePod(n) ==
    /\ Advance(n, "none", "started")
    /\ SeenFluentPVC.exists
    /\ \E dry \in DryRuns :
          decoded' = [decoded EXCEPT ![n] = [owner |-> SeenFluentPVC.uid, dryRun |-> dry]]
    /\ UNCHANGED clusterVars

\* The PVC gets the operator's finalizer, and no owner: deleting the binding
\* must not make it terminating, as the finalizer job could not mount it then.
CreatePVC(n) ==
    /\ Advance(n, "started", "claimed")
    /\ pvc' = [pvc EXCEPT ![n] = [NoClaim EXCEPT !.exists = TRUE, !.rv = 1,
                                     !.uid = OwnClaim, !.finalizer = TRUE]]
    /\ UNCHANGED <<decoded, binding, job, pod, fluentpvc, caches, history>>

\* Mutant of CreateBinding: AddFinalizer is forgotten.
CreateBareBinding(n) ==
    /\ Advance(n, "claimed", "bound")
    /\ binding' = [binding EXCEPT ![n] =
                      [NoBinding EXCEPT !.exists = TRUE, !.rv = 1,
                                        !.owner = decoded[n].owner]]
    /\ UNCHANGED <<decoded, pvc, job, pod, fluentpvc, caches, history>>

\* The pod has no UID yet.
CreateBinding(n) ==
    /\ Advance(n, "claimed", "bound")
    /\ binding' = [binding EXCEPT ![n] =
                      [NoBinding EXCEPT !.exists = TRUE, !.rv = 1,
                                        !.finalizer = TRUE,
                                        !.owner = decoded[n].owner]]
    /\ UNCHANGED <<decoded, pvc, job, pod, fluentpvc, caches, history>>

\* The phase becomes Pending, which no condition depends on: a new version.
SetPhasePending(n) ==
    /\ Advance(n, "bound", "allowed")
    /\ SameBinding(binding[n], [NoBinding EXCEPT !.rv = 1])
    /\ binding' = [binding EXCEPT ![n].rv = @ + 1]
    /\ UNCHANGED <<decoded, pvc, job, pod, fluentpvc, caches, history>>

\* The API server stores the patched pod, unless its name is taken.
PersistPod(n) ==
    /\ Advance(n, "allowed", "closed")
    /\ ~decoded[n].dryRun
    /\ n \in NamedPods => \A m \in NamedPods : pod[m] = NoPod
    /\ pod' = [pod EXCEPT ![n] = "Pending"]
    /\ UNCHANGED <<decoded, binding, pvc, job, fluentpvc, caches, history>>

\* The pod is not stored: a later admission plugin, the validation or a quota
\* refuses it, its name is taken, or the request was a dry run.
RejectPod(n) ==
    /\ Advance(n, "allowed", "closed")
    /\ \/ decoded[n].dryRun /\ UNCHANGED faults
       \/ n \in NamedPods /\ (\E m \in NamedPods : pod[m] # NoPod) /\ UNCHANGED faults
       \/ Fault("podRejected")
    /\ UNCHANGED <<decoded, stored, caches, aged, finalized, ran>>

\* A call fails, the webhook times out or the operator stops: failurePolicy is
\* fail, so the pod is refused.  What was created stays.
FailRequest(n) ==
    /\ \E from \in {"started", "claimed", "bound"} : Advance(n, from, "closed")
    /\ \/ Fault("admissionFails")
       \/ /\ request[n] = "bound" /\ binding[n].rv # 1      \* conflict
          /\ UNCHANGED faults
    /\ UNCHANGED <<decoded, stored, caches, aged, finalized, ran>>

ContinueRequest(n) ==
    \/ CreatePVC(n) \/ CreateBinding(n) \/ SetPhasePending(n)
    \/ PersistPod(n) \/ RejectPod(n) \/ FailRequest(n)

MutatorNext == \E n \in Names : ReceivePod(n) \/ ContinueRequest(n)
=============================================================================
