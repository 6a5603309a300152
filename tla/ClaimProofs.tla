---------------------------- MODULE ClaimProofs ----------------------------
(***************************************************************************)
(* Proofs that claims are kept and that conditions come in their order,    *)
(* for every set of names, every choice of lagging informers, every set of *)
(* faults and every number of them.                                        *)
(***************************************************************************)
EXTENDS FinalizationProofs

-----------------------------------------------------------------------------
(* What any step may do to one part of the state.                          *)

\* An admission request goes on, and never back.
LEMMA RequestSteps ==
    ASSUME TypeOK, [Next]_vars, NEW n \in Names
    PROVE  /\ Claimed(n) => Claimed(n)'
           /\ request[n] \in {"bound", "allowed", "closed"}
                 => request'[n] \in {"bound", "allowed", "closed"}
           /\ request[n] = "closed" => request'[n] = "closed"
           /\ \/ request'[n] = request[n]
              \/ ReceivePod(n) \/ ContinueRequest(n)
<1> USE DEF TypeOK, MutatorTypeOK, Claimed
<1>1. CASE request' = request
  BY <1>1
<1>2. ASSUME NEW m \in Names, ReceivePod(m) \/ ContinueRequest(m)
      PROVE  /\ m # n => request'[n] = request[n]
             /\ \/ request'[m] = request[m]
                \/ \E from \in {"none", "started", "claimed", "bound", "allowed"} :
                      \E to \in {"started", "claimed", "bound", "allowed", "closed"} :
                         /\ request[m] = from /\ request'[m] = to
                         /\ from = "none" => to = "started"
                         /\ from = "started" => to \in {"claimed", "closed"}
                         /\ from = "claimed" => to \in {"bound", "closed"}
                         /\ from \in {"bound", "allowed"} => to \in {"allowed", "closed"}
  BY <1>2 DEF ReceivePod, ContinueRequest, CreatePVC, CreateBinding, SetPhasePending,
              PersistPod, RejectPod, FailRequest, Advance
<1>3. CASE MutatorStep
  BY <1>2, <1>3 DEF MutatorStep, MutatorNext
<1> QED
  BY <1>1, <1>3 DEF Next, ClusterStep, BindingStep, PVCStep, FluentPVCStep, vars, mutatorVars

\* A claim is made by its request, changed, given up by the PVC reconciler,
\* removed once it is given up, forced away, or made anew by somebody else; the
\* cache shows it as it is or was.
ClaimChanged(n) ==
    /\ pvc[n].exists /\ pvc'[n].exists
    /\ pvc'[n].uid = pvc[n].uid /\ pvc'[n].finalizer = pvc[n].finalizer
    /\ pvc'[n].rv = pvc[n].rv + 1
    /\ pvc'[n].deleting => pvc[n].deleting \/ pvc[n].uid = OwnClaim
                              \/ (DeleteReleasedPVC /\ n = pr.n)
    /\ pvc'[n].phase = "Lost" => pvc[n].phase = "Lost" \/ Fault("volumeLost")

LEMMA ClaimSteps ==
    ASSUME TypeOK, [Next]_vars, NEW n \in Names
    PROVE  /\ \/ pvcCache'[n] = pvcCache[n]
              \/ pvcCache'[n] = pvc[n] /\ pvc' = pvc
           /\ \/ pvc'[n] = pvc[n]
              \/ CreatePVC(n)
              \/ ClaimChanged(n)
              \/ RemovePVCFinalizer /\ n = pr.n
              \/ ReapPVC(n) \/ ForcePVC(n) \/ ReplacePVC(n)
<1> USE DEF stored, caches, history, clusterVars, TypeOK, ClusterTypeOK
<1> DEFINE Claims == /\ \/ pvcCache'[n] = pvcCache[n]
                        \/ pvcCache'[n] = pvc[n] /\ pvc' = pvc
                     /\ \/ pvc'[n] = pvc[n]
                        \/ CreatePVC(n)
                        \/ ClaimChanged(n)
                        \/ RemovePVCFinalizer /\ n = pr.n
                        \/ ReapPVC(n) \/ ForcePVC(n) \/ ReplacePVC(n)
<1>0. pvc[n] \in Claim
  OBVIOUS
<1>1. CASE UNCHANGED <<pvc, pvcCache>>
  BY <1>1
<1>3. ASSUME NEW m \in Names, BindVolume(m) \/ LoseVolume(m) \/ TouchPVC(m) \/ DeletePVC(m)
      PROVE  Claims
  <2>1. CASE m # n
    BY <1>3, <2>1 DEF BindVolume, LoseVolume, TouchPVC, DeletePVC
  <2>2. CASE m = n
    <3>1. pvcCache' = pvcCache /\ pvc[n].exists
      BY <1>3, <2>2 DEF BindVolume, LoseVolume, TouchPVC, DeletePVC
    <3>2. CASE BindVolume(n)
      <4>1. pvc'[n] = Stored(pvc[n], [pvc[n] EXCEPT !.phase = "Bound"])
        BY <3>2 DEF BindVolume
      <4> QED BY <1>0, <3>1, <4>1 DEF Stored, Claim, ClaimChanged
    <3>3. CASE LoseVolume(n)
      <4>1. pvc'[n] = Stored(pvc[n], [pvc[n] EXCEPT !.phase = "Lost"])
        BY <3>3 DEF LoseVolume
      <4> QED BY <1>0, <3>1, <3>3, <4>1 DEF Stored, Claim, ClaimChanged, LoseVolume, Fault
    <3>4. CASE TouchPVC(n)
      <4>1. pvc'[n] = [pvc[n] EXCEPT !.rv = @ + 1]
        BY <3>4 DEF TouchPVC
      <4> QED BY <1>0, <3>1, <4>1 DEF Claim, ClaimChanged
    <3>5. CASE DeletePVC(n)
      <4>1. pvc'[n] = Stored(pvc[n], Marked(pvc[n])) /\ pvc[n].uid = OwnClaim
        BY <3>5 DEF DeletePVC
      <4> QED BY <1>0, <3>1, <4>1 DEF Stored, Marked, Claim, ClaimChanged
    <3> QED BY <1>3, <2>2, <3>2, <3>3, <3>4, <3>5
  <2> QED BY <2>1, <2>2
<1>4. CASE \E m \in Names : SyncPVC(m)
  BY <1>4 DEF SyncPVC
<1>5. CASE \E m \in Names : ReapPVC(m) \/ ForcePVC(m) \/ ReplacePVC(m)
  BY <1>5 DEF ReapPVC, ForcePVC, ReplacePVC
<1>6. CASE \E m \in Names : CreatePVC(m)
  BY <1>6 DEF CreatePVC
<1>7. CASE RemovePVCFinalizer
  BY <1>7 DEF RemovePVCFinalizer
<1>8. CASE DeleteReleasedPVC
  <2>1. pvcCache' = pvcCache /\ SameClaim(pvc[pr.n], pr.claim)
    BY <1>8 DEF DeleteReleasedPVC
  <2>2. CASE n = pr.n
    <3>1. pvc'[n] = Stored(pvc[n], Marked(pvc[n]))
      BY <1>8, <2>2 DEF DeleteReleasedPVC
    <3> QED BY <1>0, <1>8, <2>1, <2>2, <3>1 DEF Stored, Marked, Claim, ClaimChanged, SameClaim
  <2>3. CASE n # pr.n
    BY <1>8, <2>3 DEF DeleteReleasedPVC
  <2> QED BY <2>2, <2>3
<1>9. CASE ClusterStep
  <2>1. CASE \E k \in Names :
                 \/ HourStep(k) \/ SyncBinding(k) \/ SyncJob(k) \/ SyncPod(k)
                 \/ StartPod(k) \/ CompletePod(k) \/ FailPod(k) \/ RemovePod(k)
                 \/ CollectJobs(k) \/ CollectBinding(k) \/ DeleteBinding(k) \/ AddJob(k)
    BY <1>1, <2>1 DEF HourStep, HourPasses, SyncBinding, SyncJob, SyncPod, StartPod,
                CompletePod, FailPod, RemovePod, CollectJobs, CollectBinding, DeleteBinding, AddJob
  <2>2. CASE \E k \in Names : \E j \in job[k] :
                 FinishJob(k, j) \/ FailJob(k, j) \/ ReplaceJob(k, j) \/ RemoveJob(k, j)
    BY <1>1, <2>2 DEF FinishJob, FailJob, ReplaceJob, RemoveJob
  <2>3. CASE SyncFluentPVC \/ DeleteFluentPVC \/ RecreateFluentPVC
    BY <1>1, <2>3 DEF SyncFluentPVC, DeleteFluentPVC, RecreateFluentPVC
  <2> QED BY <1>3, <1>4, <1>5, <1>9, <2>1, <2>2, <2>3 DEF ClusterStep, ClusterNext
<1>10. CASE MutatorStep
  <2>1. CASE \E k \in Names : \/ ReceivePod(k) \/ CreateBinding(k) \/ SetPhasePending(k)
                              \/ PersistPod(k) \/ RejectPod(k) \/ FailRequest(k)
    BY <1>1, <2>1 DEF ReceivePod, CreateBinding, SetPhasePending, PersistPod, RejectPod,
                      FailRequest
  <2> QED BY <1>6, <1>10, <2>1 DEF MutatorStep, MutatorNext, ContinueRequest
<1>11. CASE BindingStep
  BY <1>1, <1>11 DEF BindingStep, BindingNext, ContinueBinding, Decide, StartBinding, Adopt,
                MissPod, FindPod, FillPodUID, DecideLost, DecideDelete, DecidePodMissing,
                DecideUnknown, DecideReady, DecideOutOfUse, DecideByJobs, DecideNothing,
                SetCondition, SetConditions, Skip, UpdateStatus, Unfinalize,
                DeleteBoundBinding, RefuseBinding, ForeignPod, AbortBinding
<1>12. CASE PVCStep
  BY <1>1, <1>7, <1>8, <1>12 DEF PVCStep, PVCNext, ContinuePVC, StartAbandoned,
                StartFinalizing, ListJobs, ApplyJob, RefuseJob, RefusePVC, AbortPVC
<1>13. CASE FluentPVCStep
  BY <1>1, <1>13 DEF FluentPVCStep, FluentPVCNext, StartFluentPVC, UpdateFluentPVC,
              RefuseFluentPVC, AbortFluentPVC
<1>14. CASE UNCHANGED vars
  BY <1>1, <1>14 DEF vars
<1> QED BY <1>9, <1>10, <1>11, <1>12, <1>13, <1>14 DEF Next
\* A binding is made by its request, marked or touched, removed once it has no
\* finalizer, or written by the pass that has read it.
BindingTouched(n) ==
    /\ binding[n].exists
    /\ binding'[n].exists /\ binding'[n].rv = binding[n].rv + 1
    /\ binding'[n].conds = binding[n].conds /\ binding'[n].podUID = binding[n].podUID
    /\ binding'[n].finalizer = binding[n].finalizer

BindingRemoved(n) ==
    binding[n].exists /\ ~binding[n].finalizer /\ binding'[n] = NoBinding

LEMMA BindingSteps ==
    ASSUME TypeOK, [Next]_vars, NEW n \in Names
    PROVE  /\ \/ bindingCache'[n] = bindingCache[n]
              \/ bindingCache'[n] = binding[n] /\ binding' = binding
           /\ \/ binding'[n] = binding[n]
              \/ CreateBinding(n)
              \/ BindingTouched(n) \/ BindingRemoved(n)
              \/ n = br.n /\ (Adopt \/ UpdateStatus \/ FillPodUID \/ Unfinalize)
<1> USE DEF stored, caches, history, clusterVars, TypeOK, ClusterTypeOK
<1> DEFINE Bindings ==
        /\ \/ bindingCache'[n] = bindingCache[n]
           \/ bindingCache'[n] = binding[n] /\ binding' = binding
        /\ \/ binding'[n] = binding[n]
           \/ CreateBinding(n)
           \/ BindingTouched(n) \/ BindingRemoved(n)
           \/ n = br.n /\ (Adopt \/ UpdateStatus \/ FillPodUID \/ Unfinalize)
<1>0. binding[n] \in Binding
  OBVIOUS
<1>1. CASE UNCHANGED <<binding, bindingCache>>
  BY <1>1
<1>2. CASE \E k \in Names : SyncBinding(k)
  BY <1>2 DEF SyncBinding
<1>3. ASSUME binding[n].exists, bindingCache' = bindingCache,
             binding'[n] = IF binding[n].finalizer
                           THEN Stored(binding[n], Marked(binding[n])) ELSE NoBinding
      PROVE  Bindings
  <2>1. CASE binding[n].finalizer /\ binding[n].deleting
    <3>1. Marked(binding[n]) = binding[n]
      BY <1>0, <2>1 DEF Marked, Binding
    <3> QED BY <1>3, <2>1, <3>1 DEF Stored
  <2>2. CASE binding[n].finalizer /\ ~binding[n].deleting
    BY <1>0, <1>3, <2>2 DEF Stored, Marked, Binding, BindingTouched
  <2>3. CASE ~binding[n].finalizer
    BY <1>3, <2>3 DEF BindingRemoved
  <2> QED BY <1>0, <2>1, <2>2, <2>3 DEF Binding
<1>4. CASE \E k \in Names : CollectBinding(k) \/ DeleteBinding(k)
  <2>1. PICK k \in Names : CollectBinding(k) \/ DeleteBinding(k)
    BY <1>4
  <2>2. CASE k = n
    BY <1>3, <2>1, <2>2 DEF CollectBinding, DeleteBinding
  <2>3. CASE k # n
    BY <2>1, <2>3 DEF CollectBinding, DeleteBinding
  <2> QED BY <2>2, <2>3
<1>5. CASE \E k \in Names : CreateBinding(k)
  BY <1>5 DEF CreateBinding
<1>6. CASE \E k \in Names : SetPhasePending(k)
  <2>1. PICK k \in Names : SetPhasePending(k)
    BY <1>6
  <2>2. CASE k = n
    <3>1. binding'[n] = [binding[n] EXCEPT !.rv = @ + 1]
      BY <2>1, <2>2 DEF SetPhasePending
    <3> QED BY <1>0, <2>1, <2>2, <3>1
            DEF SetPhasePending, SameBinding, Binding, BindingTouched
  <2>3. CASE k # n
    BY <2>1, <2>3 DEF SetPhasePending
  <2> QED BY <2>2, <2>3
<1>7. CASE Adopt \/ UpdateStatus \/ FillPodUID \/ Unfinalize
  BY <1>7 DEF Adopt, UpdateStatus, WriteBinding, FillPodUID, Unfinalize
<1>8. CASE DeleteBoundBinding
  <2>1. CASE n = br.n
    BY <1>3, <1>8, <2>1 DEF DeleteBoundBinding, SameBinding
  <2>2. CASE n # br.n
    BY <1>8, <2>2 DEF DeleteBoundBinding
  <2> QED BY <2>1, <2>2
<1>9. CASE ClusterStep
  <2>1. CASE \E k \in Names :
                 \/ HourStep(k) \/ SyncPVC(k) \/ SyncJob(k) \/ SyncPod(k)
                 \/ BindVolume(k) \/ StartPod(k) \/ CompletePod(k) \/ FailPod(k) \/ RemovePod(k)
                 \/ ReapPVC(k) \/ CollectJobs(k)
    BY <1>1, <2>1 DEF HourStep, HourPasses, SyncPVC, SyncJob, SyncPod, BindVolume,
                      StartPod, CompletePod, FailPod, RemovePod, ReapPVC, CollectJobs
  <2>2. CASE \E k \in Names :
                 \/ LoseVolume(k) \/ TouchPVC(k) \/ DeletePVC(k) \/ ForcePVC(k)
                 \/ ReplacePVC(k) \/ AddJob(k)
    BY <1>1, <2>2 DEF LoseVolume, TouchPVC, DeletePVC, ForcePVC, ReplacePVC, AddJob
  <2>3. CASE \E k \in Names : \E j \in job[k] :
                 FinishJob(k, j) \/ FailJob(k, j) \/ ReplaceJob(k, j) \/ RemoveJob(k, j)
    BY <1>1, <2>3 DEF FinishJob, FailJob, ReplaceJob, RemoveJob
  <2>4. CASE SyncFluentPVC \/ DeleteFluentPVC \/ RecreateFluentPVC
    BY <1>1, <2>4 DEF SyncFluentPVC, DeleteFluentPVC, RecreateFluentPVC
  <2> QED BY <1>2, <1>4, <1>9, <2>1, <2>2, <2>3, <2>4 DEF ClusterStep, ClusterNext
<1>10. CASE MutatorStep
  <2>1. CASE \E k \in Names : \/ ReceivePod(k) \/ CreatePVC(k) \/ PersistPod(k)
                              \/ RejectPod(k) \/ FailRequest(k)
    BY <1>1, <2>1 DEF ReceivePod, CreatePVC, PersistPod, RejectPod, FailRequest
  <2> QED BY <1>5, <1>6, <1>10, <2>1 DEF MutatorStep, MutatorNext, ContinueRequest
<1>11. CASE BindingStep
  <2>1. CASE (\E k \in Names : StartBinding(k)) \/ MissPod \/ FindPod \/ Decide
             \/ RefuseBinding \/ ForeignPod \/ AbortBinding
    BY <1>1, <2>1
       DEF StartBinding, MissPod, FindPod, Decide, DecideLost, DecideDelete,
           DecidePodMissing, DecideUnknown, DecideReady, DecideOutOfUse, DecideByJobs,
           DecideNothing, SetCondition, SetConditions, Skip, RefuseBinding, ForeignPod,
           AbortBinding
  <2> QED BY <1>7, <1>8, <1>11, <2>1 DEF BindingStep, BindingNext, ContinueBinding
<1>12. CASE PVCStep
  BY <1>1, <1>12 DEF PVCStep, PVCNext, ContinuePVC, StartAbandoned, StartFinalizing,
                ListJobs, ApplyJob, RefuseJob, RemovePVCFinalizer, DeleteReleasedPVC,
                RefusePVC, AbortPVC
<1>13. CASE FluentPVCStep
  BY <1>1, <1>13 DEF FluentPVCStep, FluentPVCNext, StartFluentPVC, UpdateFluentPVC,
              RefuseFluentPVC, AbortFluentPVC
<1>14. CASE UNCHANGED vars
  BY <1>1, <1>14 DEF vars
<1> QED BY <1>9, <1>10, <1>11, <1>12, <1>13, <1>14 DEF Next

\* Jobs come from the PVC reconciler and from users, and change their status; one
\* that is complete has completed while the claim was there.
LEMMA JobSteps ==
    ASSUME TypeOK, [Next]_vars, NEW n \in Names
    PROVE  /\ \/ jobCache'[n] = jobCache[n]
              \/ jobCache'[n] = job[n] /\ job' = job
           /\ \/ /\ job'[n] \subseteq job[n]
                 /\ job'[n] = job[n] \/ CollectJobs(n) \/ Fault("jobRemoved")
              \/ \E j \in job[n], s \in JobStatus :
                    /\ job'[n] = (job[n] \ {j}) \cup {[j EXCEPT !.status = s]}
                    /\ s = "Complete" => FinishJob(n, j)
                    /\ s = "Active" => Fault("jobReplaced")
              \/ AddJob(n)
              \/ ApplyJob /\ n = pr.n
<1> USE DEF stored, caches, history, clusterVars, TypeOK, ClusterTypeOK
<1>1. CASE UNCHANGED <<job, jobCache>>
  BY <1>1
<1>2. CASE \E k \in Names : SyncJob(k)
  BY <1>2 DEF SyncJob
<1>3. CASE \E k \in Names : \E j \in job[k] :
               FinishJob(k, j) \/ FailJob(k, j) \/ ReplaceJob(k, j) \/ RemoveJob(k, j)
  <2>0. PICK k \in Names : \E j \in job[k] :
               FinishJob(k, j) \/ FailJob(k, j) \/ ReplaceJob(k, j) \/ RemoveJob(k, j)
    BY <1>3
  <2>1. PICK j \in job[k] :
               FinishJob(k, j) \/ FailJob(k, j) \/ ReplaceJob(k, j) \/ RemoveJob(k, j)
    BY <2>0
  <2>2. jobCache' = jobCache
    BY <2>1 DEF FinishJob, FailJob, ReplaceJob, RemoveJob
  <2>3. CASE k # n
    BY <2>1, <2>2, <2>3 DEF FinishJob, FailJob, ReplaceJob, RemoveJob
  <2>4. CASE k = n
    BY <2>1, <2>2, <2>4 DEF FinishJob, FailJob, ReplaceJob, RemoveJob, JobStatus
  <2> QED BY <2>3, <2>4
<1>4. CASE \E k \in Names : AddJob(k) \/ CollectJobs(k)
  BY <1>4 DEF AddJob, CollectJobs
<1>5. CASE ApplyJob
  BY <1>5 DEF ApplyJob
<1>6. CASE ClusterStep
  <2>1. CASE \E k \in Names :
                 \/ HourStep(k) \/ SyncBinding(k) \/ SyncPVC(k) \/ SyncPod(k)
                 \/ BindVolume(k) \/ StartPod(k) \/ CompletePod(k) \/ FailPod(k) \/ RemovePod(k)
                 \/ ReapPVC(k) \/ CollectBinding(k)
    BY <1>1, <2>1 DEF HourStep, HourPasses, SyncBinding, SyncPVC, SyncPod, BindVolume,
                      StartPod, CompletePod, FailPod, RemovePod, ReapPVC, CollectBinding
  <2>2. CASE \E k \in Names :
                 \/ LoseVolume(k) \/ TouchPVC(k) \/ DeletePVC(k) \/ ForcePVC(k)
                 \/ ReplacePVC(k) \/ DeleteBinding(k)
    BY <1>1, <2>2 DEF LoseVolume, TouchPVC, DeletePVC, ForcePVC, ReplacePVC, DeleteBinding
  <2>3. CASE SyncFluentPVC \/ DeleteFluentPVC \/ RecreateFluentPVC
    BY <1>1, <2>3 DEF SyncFluentPVC, DeleteFluentPVC, RecreateFluentPVC
  <2> QED BY <1>2, <1>3, <1>4, <1>6, <2>1, <2>2, <2>3 DEF ClusterStep, ClusterNext
<1>7. CASE MutatorStep
  BY <1>1, <1>7 DEF MutatorStep, MutatorNext, ContinueRequest, ReceivePod, CreatePVC,
                CreateBinding, SetPhasePending, PersistPod, RejectPod, FailRequest
<1>8. CASE BindingStep
  BY <1>1, <1>8 DEF BindingStep, BindingNext, ContinueBinding, Decide, StartBinding, Adopt,
                MissPod, FindPod, FillPodUID, DecideLost, DecideDelete, DecidePodMissing,
                DecideUnknown, DecideReady, DecideOutOfUse, DecideByJobs, DecideNothing,
                SetCondition, SetConditions, Skip, UpdateStatus, Unfinalize,
                DeleteBoundBinding, RefuseBinding, ForeignPod, AbortBinding
<1>9. CASE PVCStep
  BY <1>1, <1>5, <1>9 DEF PVCStep, PVCNext, ContinuePVC, StartAbandoned, StartFinalizing,
                ListJobs, RefuseJob, RemovePVCFinalizer, DeleteReleasedPVC, RefusePVC, AbortPVC
<1>10. CASE FluentPVCStep
  BY <1>1, <1>10 DEF FluentPVCStep, FluentPVCNext, StartFluentPVC, UpdateFluentPVC,
              RefuseFluentPVC, AbortFluentPVC
<1>11. CASE UNCHANGED vars
  BY <1>1, <1>11 DEF vars
<1> QED BY <1>6, <1>7, <1>8, <1>9, <1>10, <1>11 DEF Next

\* A name becomes aged in an hour step, finalized when its job completes, and
\* stays so.
LEMMA HistorySteps ==
    ASSUME TypeOK, [Next]_vars, NEW n \in Names
    PROVE  /\ n \in aged => n \in aged'
           /\ n \in aged' => n \in aged \/ (HourStep(n) /\ UNCHANGED <<stored, caches, request, br>>)
           /\ n \in finalized => n \in finalized'
           /\ n \in finalized' => n \in finalized \/ \E j \in job[n] : FinishJob(n, j)
<1> USE DEF stored, caches, history, clusterVars, mutatorVars
<1>1. CASE UNCHANGED <<aged, finalized>>
  BY <1>1
<1>2. CASE (\E k \in Names : HourStep(k)) /\ UNCHANGED <<mutatorVars, br>>
  BY <1>2 DEF HourStep, HourPasses
<1>3. CASE \E k \in Names : \E j \in job[k] : FinishJob(k, j)
  BY <1>3 DEF FinishJob
<1>4. CASE ClusterStep
  <2>1. CASE \E k \in Names :
                 \/ SyncBinding(k) \/ SyncPVC(k) \/ SyncJob(k) \/ SyncPod(k)
                 \/ BindVolume(k) \/ StartPod(k) \/ CompletePod(k) \/ FailPod(k) \/ RemovePod(k)
                 \/ ReapPVC(k) \/ CollectJobs(k) \/ CollectBinding(k)
    BY <1>1, <2>1 DEF SyncBinding, SyncPVC, SyncJob, SyncPod, BindVolume, StartPod,
                      CompletePod, FailPod, RemovePod, ReapPVC, CollectJobs, CollectBinding
  <2>2. CASE \E k \in Names :
                 \/ LoseVolume(k) \/ TouchPVC(k) \/ DeletePVC(k) \/ ForcePVC(k)
                 \/ ReplacePVC(k) \/ DeleteBinding(k) \/ AddJob(k)
                 \/ \E j \in job[k] : FailJob(k, j) \/ ReplaceJob(k, j) \/ RemoveJob(k, j)
    BY <1>1, <2>2 DEF LoseVolume, TouchPVC, DeletePVC, ForcePVC, ReplacePVC, DeleteBinding,
                      AddJob, FailJob, ReplaceJob, RemoveJob
  <2>3. CASE SyncFluentPVC \/ DeleteFluentPVC \/ RecreateFluentPVC
    BY <1>1, <2>3 DEF SyncFluentPVC, DeleteFluentPVC, RecreateFluentPVC
  <2> QED BY <1>2, <1>3, <1>4, <2>1, <2>2, <2>3 DEF ClusterStep, ClusterNext
<1>5. CASE MutatorStep
  BY <1>1, <1>5 DEF MutatorStep, MutatorNext, ContinueRequest, ReceivePod, CreatePVC,
                CreateBinding, SetPhasePending, PersistPod, RejectPod, FailRequest
<1>6. CASE BindingStep
  BY <1>1, <1>6 DEF BindingStep, BindingNext, ContinueBinding, Decide, StartBinding, Adopt,
                MissPod, FindPod, FillPodUID, DecideLost, DecideDelete, DecidePodMissing,
                DecideUnknown, DecideReady, DecideOutOfUse, DecideByJobs, DecideNothing,
                SetCondition, SetConditions, Skip, UpdateStatus, Unfinalize,
                DeleteBoundBinding, RefuseBinding, ForeignPod, AbortBinding
<1>7. CASE PVCStep
  BY <1>1, <1>7 DEF PVCStep, PVCNext, ContinuePVC, StartAbandoned, StartFinalizing,
                ListJobs, ApplyJob, RefuseJob, RemovePVCFinalizer, DeleteReleasedPVC,
                RefusePVC, AbortPVC
<1>8. CASE FluentPVCStep
  BY <1>1, <1>8 DEF FluentPVCStep, FluentPVCNext, StartFluentPVC, UpdateFluentPVC,
              RefuseFluentPVC, AbortFluentPVC
<1>9. CASE UNCHANGED vars
  BY <1>1, <1>9 DEF vars
<1> QED BY <1>4, <1>5, <1>6, <1>7, <1>8, <1>9 DEF Next

-----------------------------------------------------------------------------
(* What stays true once it is.                                             *)

\* Only the admission makes a claim that the operator holds.
LEMMA HeldSteps ==
    ASSUME TypeOK, [Next]_vars, NEW n \in Names, Held(n)'
    PROVE  Held(n) \/ CreatePVC(n)
<1>1. pvc[n] \in Claim /\ pr.claim \in Claim
  BY DEF TypeOK, ClusterTypeOK, PVCTypeOK
<1>2. CASE ClaimChanged(n) \/ pvc'[n] = pvc[n]
  BY <1>2 DEF ClaimChanged, Held
<1>3. CASE RemovePVCFinalizer /\ n = pr.n
  <2>1. pvc'[n] = Stored(pr.claim, WithoutFinalizer(pr.claim))
    BY <1>3 DEF RemovePVCFinalizer, TypeOK, ClusterTypeOK
  <2>2. ~pvc'[n].finalizer
    BY <1>1, <2>1 DEF Stored, WithoutFinalizer, Claim
  <2> QED BY <2>2 DEF Held
<1>4. CASE ReapPVC(n) \/ ForcePVC(n)
  <2>1. pvc'[n] = NoClaim
    BY <1>4 DEF ReapPVC, ForcePVC, TypeOK, ClusterTypeOK
  <2> QED BY <2>1 DEF Held, NoClaim, OwnClaim
<1>5. CASE ReplacePVC(n)
  BY <1>5, ReplaceWrites DEF TypeOK, Held, OwnClaim, ForeignClaim
<1> QED BY <1>2, <1>3, <1>4, <1>5, ClaimSteps

\* The facts about claims and pods last.
LEMMA FactsLast ==
    ASSUME TypeOK, PodsInv, [Next]_vars, NEW n \in Names
    PROVE  /\ Claimed(n) => Claimed(n)'
           /\ GivenUp(n) => GivenUp(n)'
           /\ ClaimSeen(n) => ClaimSeen(n)'
           /\ PodSeen(n) => PodSeen(n)'
           /\ PodGone(n) => PodGone(n)'
           /\ Processed(n) => Processed(n)'
<1>1. Claimed(n) => Claimed(n)' /\ ~CreatePVC(n)
  BY RequestSteps DEF Claimed, CreatePVC, Advance
<1>2. GivenUp(n) => GivenUp(n)'
  BY <1>1, HeldSteps DEF GivenUp
<1>3. ASSUME ClaimSeen(n), Held(n)'
      PROVE  SeenPVC(n)'.uid = OwnClaim
  <2>1. Held(n)
    BY <1>1, <1>3, HeldSteps DEF ClaimSeen
  <2> QED BY <1>3, <2>1, ClaimSteps DEF ClaimSeen, SeenPVC, Held
<1>4. ClaimSeen(n) => ClaimSeen(n)'
  BY <1>1, <1>3 DEF ClaimSeen
<1>5. ASSUME request[n] = "closed"
      PROVE  /\ request'[n] = "closed"
             /\ pod[n] = NoPod => pod'[n] = NoPod
             /\ \/ podCache'[n] = podCache[n]
                \/ podCache'[n] = pod[n] /\ pod' = pod
  <2> USE DEF TypeOK, ClusterTypeOK, MutatorTypeOK
  <2>1. CASE UNCHANGED <<pod, podCache, request>>
    BY <1>5, <2>1
  <2>2. CASE \E m \in Names : SyncPod(m) /\ request' = request
    BY <1>5, <2>2 DEF SyncPod, stored
  <2>3. CASE \E m \in Names : /\ StartPod(m) \/ CompletePod(m) \/ FailPod(m) \/ RemovePod(m)
                              /\ request' = request
    BY <1>5, <2>3 DEF StartPod, CompletePod, FailPod, RemovePod, caches, NoPod
  <2>4. CASE \E m \in Names : PersistPod(m)
    BY <1>5, <2>4 DEF PersistPod, Advance, caches
  <2>5. CASE \E m \in Names : /\ request[m] # "closed" /\ UNCHANGED <<pod, podCache>>
                              /\ \E to : request' = [request EXCEPT ![m] = to]
    BY <1>5, <2>5
  <2> QED BY <2>1, <2>2, <2>3, <2>4, <2>5, PodSteps
<1>6. PodSeen(n) => PodSeen(n)'
  BY <1>5 DEF PodSeen, SeenPod
<1>7. PodGone(n) => PodGone(n)'
  BY <1>5 DEF PodGone, SeenPod
<1>8. Processed(n) => Processed(n)'
  BY <1>2, HistorySteps DEF Processed
<1> QED BY <1>1, <1>2, <1>4, <1>6, <1>7, <1>8

-----------------------------------------------------------------------------
(* Copies of bindings.                                                     *)

\* What a write leaves of the fields the invariants are about.
LEMMA WriteFields ==
    /\ \A old, new \in Binding :
          LET s == Stored(old, new)
          IN  /\ s.exists = new.exists /\ s.finalizer = new.finalizer
              /\ s.podUID = new.podUID /\ s.conds = new.conds
    /\ \A b \in Binding :
          /\ WithoutFinalizer(b).exists = b.exists /\ ~WithoutFinalizer(b).finalizer
          /\ WithoutFinalizer(b).podUID = b.podUID /\ WithoutFinalizer(b).conds = b.conds
    /\ \A b \in Binding, o \in Nat :
          LET s == [b EXCEPT !.owner = o]
          IN  /\ s \in Binding
              /\ s.exists = b.exists /\ s.finalizer = b.finalizer
              /\ s.podUID = b.podUID /\ s.conds = b.conds /\ s.rv = b.rv
    /\ \A b \in Binding, m \in Names :
          LET s == [b EXCEPT !.podUID = m]
          IN  /\ s \in Binding
              /\ s.exists = b.exists /\ s.finalizer = b.finalizer
              /\ s.podUID = m /\ s.conds = b.conds /\ s.rv = b.rv
    /\ \A b \in Binding, conds \in SUBSET ConditionType :
          LET s == [b EXCEPT !.conds = conds]
          IN  /\ s \in Binding
              /\ s.exists = b.exists /\ s.finalizer = b.finalizer
              /\ s.podUID = b.podUID /\ s.conds = conds /\ s.rv = b.rv
    /\ ~NoBinding.exists /\ NoBinding.conds = {} /\ NoBinding.rv = 0
<1>1. \A old, new \in Binding :
          LET s == Stored(old, new)
          IN  /\ s.exists = new.exists /\ s.finalizer = new.finalizer
              /\ s.podUID = new.podUID /\ s.conds = new.conds
  BY DEF Stored, Binding
<1>2. \A b \in Binding :
          /\ WithoutFinalizer(b).exists = b.exists /\ ~WithoutFinalizer(b).finalizer
          /\ WithoutFinalizer(b).podUID = b.podUID /\ WithoutFinalizer(b).conds = b.conds
  BY DEF WithoutFinalizer, Binding
<1>3. \A b \in Binding, o \in Nat :
          LET s == [b EXCEPT !.owner = o]
          IN  /\ s \in Binding
              /\ s.exists = b.exists /\ s.finalizer = b.finalizer
              /\ s.podUID = b.podUID /\ s.conds = b.conds /\ s.rv = b.rv
  BY DEF Binding
<1>4. \A b \in Binding, m \in Names :
          LET s == [b EXCEPT !.podUID = m]
          IN  /\ s \in Binding
              /\ s.exists = b.exists /\ s.finalizer = b.finalizer
              /\ s.podUID = m /\ s.conds = b.conds /\ s.rv = b.rv
  BY DEF Binding
<1>5. \A b \in Binding, conds \in SUBSET ConditionType :
          LET s == [b EXCEPT !.conds = conds]
          IN  /\ s \in Binding
              /\ s.exists = b.exists /\ s.finalizer = b.finalizer
              /\ s.podUID = b.podUID /\ s.conds = conds /\ s.rv = b.rv
  BY DEF Binding
<1>6. ~NoBinding.exists /\ NoBinding.conds = {} /\ NoBinding.rv = 0
  BY DEF NoBinding
<1> QED BY <1>1, <1>2, <1>3, <1>4, <1>5, <1>6

\* What a pass writes are the fields it has read and set.
LEMMA PassWrites ==
    ASSUME TypeOK, BindingPassInv, BindingReadInv,
           Adopt \/ UpdateStatus \/ FillPodUID \/ Unfinalize
    PROVE  /\ br.n \in Names
           /\ SameBinding(binding[br.n], br.b)
           /\ \/ /\ Unfinalize /\ binding'[br.n] = NoBinding
              \/ /\ binding'[br.n].exists /\ binding'[br.n].conds = br.b.conds
                 /\ IF FillPodUID THEN binding'[br.n].podUID = br.n
                                  ELSE binding'[br.n].podUID = br.b.podUID
                 /\ IF Unfinalize THEN ~binding'[br.n].finalizer
                                  ELSE binding'[br.n].finalizer = br.b.finalizer
           /\ \A m \in Names : m # br.n => binding'[m] = binding[m]
<1> USE DEF TypeOK, ClusterTypeOK, BindingTypeOK
<1>0. /\ br.b \in Binding /\ br.n \in Names /\ br.b.exists
      /\ binding \in [Names -> Binding]
  BY DEF Adopt, UpdateStatus, FillPodUID, Unfinalize, BindingPassInv, BindingReadInv
<1>1. CASE Adopt \/ UpdateStatus
  <2>1. /\ SameBinding(binding[br.n], br.b)
        /\ binding' = [binding EXCEPT ![br.n] = Stored(binding[br.n], br.b)]
    BY <1>1 DEF Adopt, UpdateStatus, WriteBinding
  <2>2. ~FillPodUID /\ ~Unfinalize
    BY <1>1 DEF Adopt, UpdateStatus, FillPodUID, Unfinalize
  <2>3. /\ binding'[br.n] = Stored(binding[br.n], br.b)
        /\ \A m \in Names : m # br.n => binding'[m] = binding[m]
    BY <1>0, <2>1
  <2>4. binding[br.n] \in Binding
    BY <1>0
  <2> QED BY <1>0, <2>1, <2>2, <2>3, <2>4, WriteFields
<1>2. CASE FillPodUID
  <2>1. PICK m \in PodFor(br.n) :
            /\ PodHasPVC(m, br.n)
            /\ binding' = [binding EXCEPT ![br.n] =
                              Stored(br.b, [br.b EXCEPT !.podUID = m])]
    BY <1>2 DEF FillPodUID
  <2>2. m = br.n /\ SameBinding(binding[br.n], br.b) /\ br.pc = "pod"
    BY <1>2, <2>1 DEF FillPodUID, PodHasPVC
  <2>3. ~Unfinalize
    BY <2>2 DEF Unfinalize
  <2>4. /\ binding'[br.n] = Stored(br.b, [br.b EXCEPT !.podUID = br.n])
        /\ \A k \in Names : k # br.n => binding'[k] = binding[k]
    BY <1>0, <2>1, <2>2
  <2> DEFINE w == [br.b EXCEPT !.podUID = br.n]
  <2>5. /\ w \in Binding /\ w.exists /\ w.podUID = br.n
        /\ w.finalizer = br.b.finalizer /\ w.conds = br.b.conds
    BY <1>0, WriteFields
  <2>6. binding'[br.n] = Stored(br.b, w)
    BY <2>4
  <2> HIDE DEF w
  <2>7. /\ binding'[br.n].exists /\ binding'[br.n].podUID = br.n
        /\ binding'[br.n].finalizer = br.b.finalizer
        /\ binding'[br.n].conds = br.b.conds
    BY <1>0, <2>5, <2>6, WriteFields
  <2> QED BY <1>0, <1>2, <2>2, <2>3, <2>4, <2>7
<1>3. CASE Unfinalize
  <2>1. /\ SameBinding(binding[br.n], br.b) /\ br.pc = "unfinalize"
        /\ \/ binding' = [binding EXCEPT ![br.n] = NoBinding]
           \/ binding' = [binding EXCEPT ![br.n] = Stored(br.b, WithoutFinalizer(br.b))]
    BY <1>3 DEF Unfinalize
  <2>2. ~FillPodUID
    BY <2>1 DEF FillPodUID
  <2>3. \/ binding'[br.n] = NoBinding
        \/ binding'[br.n] = Stored(br.b, WithoutFinalizer(br.b))
    BY <1>0, <2>1
  <2>4. \A k \in Names : k # br.n => binding'[k] = binding[k]
    BY <1>0, <2>1
  <2>5. WithoutFinalizer(br.b) \in Binding
    BY <1>0, WriteTypes
  <2> QED BY <1>0, <1>3, <2>1, <2>2, <2>3, <2>4, <2>5, WriteFields
<1> QED BY <1>1, <1>2, <1>3

\* A binding is there until its claim is given up.
LEMMA BindingStays ==
    ASSUME TypeOK, PodsInv, BindingPassInv, CopiesInv, BindingReadInv, [Next]_vars,
           NEW n \in Names, binding[n].exists
    PROVE  binding'[n].exists \/ GivenUp(n)'
<1>1. CASE BindingTouched(n) \/ binding'[n] = binding[n]
  BY <1>1 DEF BindingTouched
<1>2. CASE CreateBinding(n)
  <2>1. request[n] = "claimed"
    BY <1>2 DEF CreateBinding, Advance
  <2> QED BY <2>1 DEF CopiesInv, BindingCopy
<1>3. CASE BindingRemoved(n)
  BY <1>3, FactsLast DEF BindingRemoved, CopiesInv, BindingCopy
<1>4. CASE n = br.n /\ (Adopt \/ UpdateStatus \/ FillPodUID \/ Unfinalize)
  <2>1. Unfinalize => GivenUp(n)
    BY <1>4 DEF Unfinalize, BindingReadInv
  <2> QED BY <1>4, <2>1, PassWrites, FactsLast
<1> QED BY <1>1, <1>2, <1>3, <1>4, BindingSteps

\* What a copy says stays true while nobody changes it.
LEMMA CopyKeep ==
    ASSUME TypeOK, PodsInv, BindingPassInv, CopiesInv, BindingReadInv, [Next]_vars,
           NEW n \in Names, NEW b, BindingCopy(n, b)
    PROVE  BindingCopy(n, b)'
<1>1. binding[n].exists => binding'[n].exists \/ GivenUp(n)'
  BY BindingStays
<1> QED BY <1>1, FactsLast, RequestSteps DEF BindingCopy, InOrder

\* A copy of a copy says the same, be it owned, adopted or bound to its pod.
LEMMA CopyOfCopy ==
    ASSUME NEW n, NEW b, NEW c, BindingCopy(n, b), c.conds = b.conds,
           c.podUID = b.podUID \/ c.podUID = n,
           c.exists => b.exists /\ (GivenUp(n) \/ c.finalizer = b.finalizer)
    PROVE  BindingCopy(n, c)
BY DEF BindingCopy, InOrder

LEMMA CopyOfNothing ==
    ASSUME NEW n PROVE BindingCopy(n, NoBinding)
BY DEF BindingCopy, InOrder, NoBinding

\* Every step leaves bindings and cached bindings that say what is true.
LEMMA CopiesKeep ==
    ASSUME TypeOK, PodsInv, BindingPassInv, CopiesInv, BindingReadInv, [Next]_vars
    PROVE  CopiesInv'
<1> SUFFICES ASSUME NEW n \in Names
             PROVE  BindingCopy(n, binding[n])' /\ BindingCopy(n, SeenBinding(n))'
  BY DEF CopiesInv
<1>0. /\ BindingCopy(n, binding[n])
      /\ "binding" \in Lagging => BindingCopy(n, bindingCache[n])
  BY DEF CopiesInv, SeenBinding
<1>1. BindingCopy(n, binding[n])'
  <2>1. CASE CreateBinding(n)
    <3>1. request[n] = "claimed" /\ request'[n] = "bound"
      BY <2>1 DEF CreateBinding, Advance, TypeOK, MutatorTypeOK
    <3>2. binding'[n] = [NoBinding EXCEPT !.exists = TRUE, !.rv = 1, !.finalizer = TRUE,
                                          !.owner = decoded[n].owner]
      BY <2>1 DEF CreateBinding, TypeOK, ClusterTypeOK
    <3>3. binding'[n].exists /\ binding'[n].finalizer /\ binding'[n].conds = {}
      BY <3>2 DEF NoBinding
    <3> QED BY <3>1, <3>3 DEF BindingCopy, InOrder
  <2>2. CASE binding'[n] = binding[n]
    BY <1>0, <2>2, CopyKeep
  <2>3. CASE BindingTouched(n)
    <3>1. BindingCopy(n, binding'[n])
      BY <1>0, <2>3, CopyOfCopy DEF BindingTouched
    <3> QED BY <3>1, CopyKeep
  <2>4. CASE BindingRemoved(n)
    BY <2>4, CopyOfNothing, CopyKeep DEF BindingRemoved
  <2>5. CASE n = br.n /\ (Adopt \/ UpdateStatus \/ FillPodUID \/ Unfinalize)
    <3>1. BindingCopy(n, br.b) /\ br.b.exists /\ (Unfinalize => GivenUp(n))
      BY <2>5 DEF BindingReadInv, Adopt, UpdateStatus, FillPodUID, Unfinalize
    <3>2. CASE binding'[n] = NoBinding
      BY <3>2, CopyOfNothing, CopyKeep
    <3>3. CASE binding'[n] # NoBinding
      <4>1. /\ binding'[n].conds = br.b.conds
            /\ binding'[n].podUID = br.b.podUID \/ binding'[n].podUID = n
            /\ GivenUp(n) \/ binding'[n].finalizer = br.b.finalizer
        BY <2>5, <3>1, <3>3, PassWrites
      <4>2. BindingCopy(n, binding'[n])
        BY <3>1, <4>1, CopyOfCopy
      <4> QED BY <4>2, CopyKeep
    <3> QED BY <3>2, <3>3
  <2> QED BY <2>1, <2>2, <2>3, <2>4, <2>5, BindingSteps
<1>2. CASE "binding" \in Lagging
  <2>1. BindingCopy(n, bindingCache'[n])
    BY <1>0, <1>2, BindingSteps
  <2> QED BY <1>1, <1>2, <2>1, CopyKeep DEF SeenBinding
<1>3. CASE "binding" \notin Lagging
  BY <1>1, <1>3 DEF SeenBinding
<1> QED BY <1>2, <1>3, <1>1

\* What the binding reconciler has read stays true, and what it decides follows
\* from it.
LEMMA BindingReadKeeps ==
    ASSUME TypeOK, UseInv, ClaimsInv, AgedInv, CopiesInv, JobsInv, BindingReadInv, [Next]_vars
    PROVE  BindingReadInv'
<1> USE DEF UseInv
<1>0. /\ br.b \in Binding
      /\ br \in [ pc : BindingPC, n : Names \cup {NoUID}, b : Binding,
                  found : BOOLEAN, phase : PodPhase \cup {NoPod} ]
      /\ br.pc # "idle" => br.n \in Names /\ BindingCopy(br.n, br.b) /\ br.b.exists
  BY DEF TypeOK, BindingTypeOK, BindingPassInv, BindingReadInv
<1>aged. br.n \in Names => (br.n \in aged' => br.n \in aged)
  BY HistorySteps DEF HourStep
<1>1. CASE br' = br
  BY <1>0, <1>aged, <1>1, CopyKeep, FactsLast DEF BindingReadInv
<1>2. CASE br' = IdleBinding
  BY <1>2 DEF BindingReadInv, IdleBinding
<1>3. ASSUME NEW n \in Names, StartBinding(n)
      PROVE  BindingReadInv'
  <2>1. /\ SeenBinding(n) \in Binding /\ SeenBinding(n).exists
        /\ BindingCopy(n, SeenBinding(n)) /\ SeenFluentPVC.uid \in Nat
    BY <1>3, SeenTypes DEF StartBinding, TypeOK, CopiesInv, FluentPVC
  <2>2. /\ br'.n = n /\ br'.pc \in {"pod", "adopt"}
        /\ \/ br'.b = SeenBinding(n)
           \/ br'.b = [SeenBinding(n) EXCEPT !.owner = SeenFluentPVC.uid]
    BY <1>3 DEF StartBinding, IdleBinding
  <2> DEFINE w == [SeenBinding(n) EXCEPT !.owner = SeenFluentPVC.uid]
  <2>3. /\ w.exists /\ w.finalizer = SeenBinding(n).finalizer
        /\ w.podUID = SeenBinding(n).podUID /\ w.conds = SeenBinding(n).conds
    BY <2>1, WriteFields
  <2>4. br'.b = SeenBinding(n) \/ br'.b = w
    BY <2>2
  <2> HIDE DEF w
  <2>5. BindingCopy(n, br'.b) /\ br'.b.exists
    BY <2>1, <2>3, <2>4, CopyOfCopy
  <2> QED BY <2>2, <2>5, CopyKeep DEF BindingReadInv
<1>4. ASSUME br'.n = br.n, br.pc # "idle", br'.pc # "idle",
             BindingCopy(br.n, br'.b), br'.b.exists,
             br'.pc = "decide" => IF br'.found THEN "PodMissing" \notin br'.b.conds
                                  ELSE br.n \in aged => PodGone(br.n),
             br'.pc \in {"unfinalize", "delete"} => GivenUp(br.n)
      PROVE  BindingReadInv'
  BY <1>0, <1>aged, <1>4, CopyKeep, FactsLast DEF BindingReadInv
<1>5. CASE MissPod
  <2>1. /\ br.n \in Names /\ BindingCopy(br.n, br.b) /\ Honest(br.n, br.b) /\ br.b.exists
        /\ br' = [br EXCEPT !.pc = "decide", !.found = FALSE]
    BY <1>0, <1>5 DEF MissPod, BindingPassInv
  <2>2. SeenPod(br.n) = NoPod
    <3>1. CASE PodFor(br.n) = {}
      BY <2>1, <3>1 DEF PodFor
    <3>2. CASE br.b.podUID # NoUID /\ \E m \in PodFor(br.n) : ~IsBindingPod(br.b, m)
      BY <2>1, <3>2 DEF PodFor, IsBindingPod, Honest, PodsInv
    <3> QED BY <1>5, <3>1, <3>2 DEF MissPod
  <2>3. br.n \in aged => PodGone(br.n)
    BY <2>1, <2>2 DEF AgedInv, PodSeen, PodGone
  <2>4. br'.n = br.n /\ br'.pc = "decide" /\ br'.b = br.b /\ ~br'.found
    BY <1>0, <2>1
  <2> QED BY <1>0, <1>4, <1>5, <2>1, <2>3, <2>4 DEF MissPod
<1>6. CASE FindPod
  <2>1. PICK m \in PodFor(br.n) :
            /\ IsBindingPod(br.b, m) /\ br.b.podUID # NoUID /\ br.pc = "pod"
            /\ br' = [br EXCEPT !.pc = "decide", !.found = TRUE, !.phase = SeenPod(m)]
    BY <1>6 DEF FindPod
  <2>2. m = br.n /\ SeenPod(br.n) # NoPod
    BY <1>0, <2>1 DEF PodFor, IsBindingPod, Honest, BindingPassInv
  <2>3. "PodMissing" \notin br.b.conds
    BY <1>0, <2>1, <2>2 DEF BindingCopy, PodGone
  <2>4. br'.n = br.n /\ br'.pc = "decide" /\ br'.b = br.b /\ br'.found
    BY <1>0, <2>1
  <2> QED BY <1>0, <1>4, <2>1, <2>3, <2>4
<1>7. CASE FillPodUID
  <2>1. PICK m \in PodFor(br.n) :
            /\ PodHasPVC(m, br.n) /\ br.pc = "pod"
            /\ br' = [br EXCEPT !.pc = "decide",
                                !.b = Stored(br.b, [br.b EXCEPT !.podUID = m]),
                                !.found = TRUE, !.phase = SeenPod(m)]
    BY <1>7 DEF FillPodUID
  <2>2. m = br.n /\ SeenPod(br.n) # NoPod /\ br.n \in Names
    BY <1>0, <2>1 DEF PodHasPVC, PodFor
  <2>3. "PodMissing" \notin br.b.conds
    BY <1>0, <2>1, <2>2 DEF BindingCopy, PodGone
  <2> DEFINE w == [br.b EXCEPT !.podUID = br.n]
  <2>4. /\ w \in Binding /\ w.exists /\ w.podUID = br.n
        /\ w.finalizer = br.b.finalizer /\ w.conds = br.b.conds
    BY <1>0, <2>1, <2>2, WriteFields
  <2>5. /\ br'.n = br.n /\ br'.pc = "decide" /\ br'.found
        /\ br'.b = Stored(br.b, w)
    BY <1>0, <2>1, <2>2
  <2> HIDE DEF w
  <2>6. /\ br'.b.exists /\ br'.b.podUID = br.n
        /\ br'.b.finalizer = br.b.finalizer /\ br'.b.conds = br.b.conds
    BY <1>0, <2>4, <2>5, WriteFields
  <2>7. BindingCopy(br.n, br'.b)
    BY <1>0, <2>1, <2>6, CopyOfCopy
  <2> QED BY <1>4, <2>1, <2>3, <2>5, <2>6, <2>7
<1>8. ASSUME NEW conds \in SUBSET ConditionType, SetConditions(conds), br.pc = "decide",
             BindingCopy(br.n, [br.b EXCEPT !.conds = conds])
      PROVE  BindingReadInv'
  <2>1. br' = [br EXCEPT !.pc = "status", !.b = [br.b EXCEPT !.conds = conds]]
    BY <1>8 DEF SetConditions
  <2>2. br'.n = br.n /\ br'.pc = "status" /\ br'.b = [br.b EXCEPT !.conds = conds]
    BY <1>0, <2>1
  <2>3. br'.b.exists
    BY <1>0, <1>8, <2>2, WriteFields
  <2> QED BY <1>4, <1>8, <2>2, <2>3
<1> DEFINE Set(conds) == [br.b EXCEPT !.conds = conds]
<1>9. \A conds \in SUBSET ConditionType :
          /\ Set(conds).exists = br.b.exists /\ Set(conds).finalizer = br.b.finalizer
          /\ Set(conds).podUID = br.b.podUID /\ Set(conds).conds = conds
  BY <1>0, WriteFields
<1>10. /\ br.b.conds \in SUBSET ConditionType
       /\ \A c \in ConditionType : br.b.conds \cup {c} \in SUBSET ConditionType
       /\ JobConditions(br.b.conds, SeenJobs(br.n)) \in SUBSET ConditionType
  BY <1>0 DEF Binding, JobConditions, ConditionType
<1> HIDE DEF Set
<1>11. CASE DecideLost \/ DecideUnknown
  <2>1. SetConditions(br.b.conds \cup {"Unknown"}) /\ br.pc = "decide"
    BY <1>11 DEF DecideLost, DecideUnknown, SetCondition
  <2>2. BindingCopy(br.n, Set(br.b.conds \cup {"Unknown"}))
    BY <1>0, <1>9, <1>10, <2>1 DEF BindingCopy, InOrder, ConditionType
  <2> QED BY <1>8, <1>10, <2>1, <2>2 DEF Set, ConditionType
<1>12. CASE DecidePodMissing
  <2>1. /\ SetConditions(br.b.conds \cup {"PodMissing"}) /\ br.pc = "decide"
        /\ ~br.found /\ "Ready" \notin br.b.conds /\ br.n \in aged
    BY <1>12 DEF DecidePodMissing, SetCondition, Waiting, Has
  <2>2. PodGone(br.n) /\ ClaimSeen(br.n)
    BY <1>0, <2>1 DEF BindingReadInv, AgedInv
  <2>3. BindingCopy(br.n, Set(br.b.conds \cup {"PodMissing"}))
    BY <1>0, <1>9, <1>10, <2>1, <2>2 DEF BindingCopy, InOrder, ConditionType
  <2> QED BY <1>8, <1>10, <2>1, <2>3 DEF Set, ConditionType
<1>13. CASE DecideReady
  <2>1. /\ SetConditions(br.b.conds \cup {"Ready"}) /\ br.pc = "decide" /\ br.found
        /\ pvcFound
    BY <1>13 DEF DecideReady, SetCondition
  <2>2. /\ "PodMissing" \notin br.b.conds /\ br.b.podUID = br.n
        /\ ClaimSeen(br.n)
    BY <1>0, <2>1 DEF BindingReadInv, BindingPassInv, pvcFound, IsBindingPVC, ClaimSeen,
                      ClaimsInv, ClaimCopy
  <2>3. BindingCopy(br.n, Set(br.b.conds \cup {"Ready"}))
    BY <1>0, <1>9, <1>10, <2>1, <2>2 DEF BindingCopy, InOrder, ConditionType
  <2> QED BY <1>8, <1>10, <2>1, <2>3 DEF Set, ConditionType
<1>14. CASE DecideOutOfUse
  <2>1. /\ SetConditions(br.b.conds \cup {"OutOfUse"}) /\ br.pc = "decide"
        /\ "Ready" \in br.b.conds
    BY <1>14 DEF DecideOutOfUse, SetCondition, podDone, Early, Waiting, Has
  <2>2. BindingCopy(br.n, Set(br.b.conds \cup {"OutOfUse"}))
    BY <1>0, <1>9, <1>10, <2>1 DEF BindingCopy, InOrder, ConditionType
  <2> QED BY <1>8, <1>10, <2>1, <2>2 DEF Set, ConditionType
<1>15. CASE DecideByJobs
  <2> DEFINE conds == JobConditions(br.b.conds, SeenJobs(br.n))
  <2>1. /\ SetConditions(conds) /\ br.pc = "decide"
        /\ "OutOfUse" \in br.b.conds /\ "FinalizerJobSucceeded" \notin br.b.conds
    BY <1>15 DEF DecideByJobs, Early, Has
  <2>2. /\ \A c \in {"Ready", "PodMissing", "OutOfUse"} : c \in conds <=> c \in br.b.conds
        /\ conds \cap {"FinalizerJobSucceeded", "FinalizerJobFailed"} # {}
              => "FinalizerJobApplied" \in conds
        /\ "FinalizerJobSucceeded" \in conds => Processed(br.n)
    BY <1>0, <2>1 DEF JobConditions, BindingCopy, InOrder, JobsInv
  <2>3. conds \in SUBSET ConditionType
    BY <1>10
  <2> HIDE DEF conds
  <2>4. BindingCopy(br.n, Set(conds))
    BY <1>0, <1>9, <2>1, <2>2, <2>3 DEF BindingCopy, InOrder
  <2> QED BY <1>8, <2>1, <2>3, <2>4 DEF Set
<1>16. CASE DecideDelete
  <2>1. /\ br' = [br EXCEPT !.pc = IF br.b.finalizer THEN "unfinalize" ELSE "delete"]
        /\ br.pc = "decide"
        /\ ~(pvcFound /\ SeenPVC(br.n).finalizer)
        /\ Orphaned \/ Has("FinalizerJobSucceeded")
    BY <1>16 DEF DecideDelete, Orphaned
  <2>2. /\ br'.n = br.n /\ br'.b = br.b /\ br'.pc # "decide"
        /\ br'.pc # "idle"
    BY <1>0, <2>1
  <2>3. ClaimSeen(br.n)
    BY <1>0, <2>1 DEF Orphaned, Has, BindingCopy, InOrder
  <2>4. GivenUp(br.n)
    BY <1>0, <2>1, <2>3 DEF ClaimSeen, GivenUp, pvcFound, IsBindingPVC, ClaimsInv, ClaimCopy,
                            OwnClaim
  <2> QED BY <1>0, <1>4, <2>1, <2>2, <2>4
<1>17. CASE Unfinalize
  <2>1. /\ br' = [br EXCEPT !.pc = "delete", !.b = Stored(br.b, WithoutFinalizer(br.b))]
        /\ br.pc = "unfinalize" /\ GivenUp(br.n)
    BY <1>17 DEF Unfinalize, BindingReadInv
  <2>2. /\ br'.n = br.n /\ br'.b = Stored(br.b, WithoutFinalizer(br.b)) /\ br'.pc = "delete"
    BY <1>0, <2>1
  <2>3. WithoutFinalizer(br.b) \in Binding
    BY <1>0, WriteTypes
  <2>4. br'.b.exists /\ br'.b.podUID = br.b.podUID /\ br'.b.conds = br.b.conds
    BY <1>0, <2>1, <2>2, <2>3, WriteFields
  <2>5. BindingCopy(br.n, br'.b)
    BY <1>0, <2>1, <2>4, CopyOfCopy
  <2> QED BY <1>4, <2>1, <2>2, <2>4, <2>5
<1>18. CASE DecideNothing \/ Adopt \/ UpdateStatus \/ DeleteBoundBinding
            \/ RefuseBinding \/ ForeignPod \/ AbortBinding
  BY <1>2, <1>18 DEF DecideNothing, Adopt, UpdateStatus, DeleteBoundBinding, RefuseBinding,
                     ForeignPod, AbortBinding, Skip
<1>19. CASE BindingNext
  BY <1>3, <1>5, <1>6, <1>7, <1>11, <1>12, <1>13, <1>14, <1>15, <1>16, <1>17, <1>18, <1>19
     DEF BindingNext, ContinueBinding, Decide
<1> QED
  BY <1>1, <1>19 DEF Next, ClusterStep, MutatorStep, BindingStep, PVCStep, FluentPVCStep, vars

-----------------------------------------------------------------------------
(* Claims, the hour, jobs and the pass of the PVC reconciler.              *)

\* What a copy of a claim says stays true while nobody changes it.
LEMMA ClaimCopyKeep ==
    ASSUME TypeOK, PodsInv, [Next]_vars, NEW n \in Names, NEW c, ClaimCopy(n, c)
    PROVE  ClaimCopy(n, c)'
<1>1. CASE CreatePVC(n)
  BY <1>1, FactsLast DEF CreatePVC, Advance, ClaimCopy, Claimed
<1>2. CASE ~CreatePVC(n)
  BY <1>2, FactsLast, HeldSteps DEF ClaimCopy
<1> QED BY <1>1, <1>2

LEMMA ClaimFields ==
    /\ \A old, new \in Claim :
          LET s == Stored(old, new)
          IN  /\ s.exists = new.exists /\ s.uid = new.uid /\ s.finalizer = new.finalizer
              /\ s.phase = new.phase
    /\ \A c \in Claim :
          LET s == WithoutFinalizer(c)
          IN  /\ s \in Claim /\ s.exists = c.exists /\ s.uid = c.uid /\ ~s.finalizer
              /\ s.phase = c.phase
    /\ ~NoClaim.exists /\ NoClaim.uid = 0
<1>1. \A old, new \in Claim :
          LET s == Stored(old, new)
          IN  /\ s.exists = new.exists /\ s.uid = new.uid /\ s.finalizer = new.finalizer
              /\ s.phase = new.phase
  BY DEF Stored, Claim
<1>2. \A c \in Claim :
          LET s == WithoutFinalizer(c)
          IN  /\ s \in Claim /\ s.exists = c.exists /\ s.uid = c.uid /\ ~s.finalizer
              /\ s.phase = c.phase
  BY DEF WithoutFinalizer, Claim
<1>3. ~NoClaim.exists /\ NoClaim.uid = 0
  BY DEF NoClaim
<1> QED BY <1>1, <1>2, <1>3

\* What the PVC reconciler leaves when it gives up the claim it has read.
LEMMA ReleaseWrites ==
    ASSUME TypeOK, ClaimReadInv, RemovePVCFinalizer
    PROVE  /\ pr.n \in Names /\ pr.pc = "release"
           /\ SameClaim(pvc[pr.n], pr.claim)
           /\ pvc'[pr.n] = pr'.claim
           /\ pvc'[pr.n].exists /\ pvc'[pr.n].uid = OwnClaim /\ ~pvc'[pr.n].finalizer
           /\ pvc'[pr.n].phase = pr.claim.phase
           /\ pr'.pc = "delete" /\ pr'.n = pr.n /\ pr'.conds = pr.conds
<1> DEFINE bare == Stored(pr.claim, WithoutFinalizer(pr.claim))
<1>1. /\ pr.pc = "release" /\ SameClaim(pvc[pr.n], pr.claim)
      /\ pvc' = [pvc EXCEPT ![pr.n] = bare]
      /\ pr' = [pr EXCEPT !.pc = "delete", !.claim = bare]
  BY DEF RemovePVCFinalizer
<1>2. pr.n \in Names /\ pr.claim.exists /\ pr.claim.uid = OwnClaim
  BY <1>1 DEF ClaimReadInv
<1>3. pr.claim \in Claim
  BY DEF TypeOK, PVCTypeOK
<1>4. bare.exists /\ bare.uid = OwnClaim /\ ~bare.finalizer /\ bare.phase = pr.claim.phase
  <2>1. /\ WithoutFinalizer(pr.claim) \in Claim /\ WithoutFinalizer(pr.claim).exists
        /\ WithoutFinalizer(pr.claim).uid = OwnClaim /\ ~WithoutFinalizer(pr.claim).finalizer
        /\ WithoutFinalizer(pr.claim).phase = pr.claim.phase
    BY <1>2, <1>3, ClaimFields
  <2> QED BY <1>3, <2>1, ClaimFields
<1> HIDE DEF bare
<1>5. pvc'[pr.n] = bare
  BY <1>1, <1>2 DEF TypeOK, ClusterTypeOK
<1>6. pr'.claim = bare /\ pr'.pc = "delete" /\ pr'.n = pr.n /\ pr'.conds = pr.conds
  BY <1>1 DEF TypeOK, PVCTypeOK
<1> QED BY <1>1, <1>2, <1>4, <1>5, <1>6

\* Every step leaves claims, stored and cached, of which ClaimCopy holds, and
\* nobody deletes somebody else's.
LEMMA ClaimsKeep ==
    ASSUME TypeOK, PodsInv, ClaimsInv, CopiesInv, ClaimReadInv, [Next]_vars
    PROVE  ClaimsInv'
<1> SUFFICES ASSUME NEW n \in Names
             PROVE  /\ ClaimCopy(n, pvc[n])' /\ ClaimCopy(n, SeenPVC(n))'
                    /\ pvc'[n].uid = ForeignClaim => ~pvc'[n].deleting
  BY DEF ClaimsInv
<1>0. /\ ClaimCopy(n, pvc[n]) /\ ClaimCopy(n, SeenPVC(n))
      /\ pvc[n].uid = ForeignClaim => ~pvc[n].deleting
  BY DEF ClaimsInv
<1>1. ClaimCopy(n, pvc[n])' /\ (pvc'[n].uid = ForeignClaim => ~pvc'[n].deleting)
  <2>1. CASE pvc'[n] = pvc[n]
    BY <1>0, <2>1, ClaimCopyKeep
  <2>2. CASE CreatePVC(n)
    <3>1. pvc'[n] = [NoClaim EXCEPT !.exists = TRUE, !.rv = 1, !.uid = OwnClaim,
                                    !.finalizer = TRUE]
      BY <2>2 DEF CreatePVC, TypeOK, ClusterTypeOK
    <3>2. request'[n] = "claimed"
      BY <2>2 DEF CreatePVC, Advance, TypeOK, MutatorTypeOK
    <3>3. pvc'[n].exists /\ pvc'[n].uid = OwnClaim /\ pvc'[n].finalizer
      BY <3>1 DEF NoClaim
    <3> QED BY <3>2, <3>3 DEF ClaimCopy, Claimed, OwnClaim, ForeignClaim
  <2>3. CASE ClaimChanged(n)
    <3>1. ClaimCopy(n, pvc'[n])
      BY <1>0, <2>3 DEF ClaimChanged, ClaimCopy, Held
    <3>2. DeleteReleasedPVC /\ n = pr.n => pvc[n].uid = OwnClaim
      BY DEF DeleteReleasedPVC, ClaimReadInv, SameClaim
    <3>3. pvc'[n].uid = ForeignClaim => ~pvc'[n].deleting
      BY <1>0, <2>3, <3>2 DEF ClaimChanged, OwnClaim, ForeignClaim
    <3> QED BY <3>1, <3>3, ClaimCopyKeep
  <2>4. CASE RemovePVCFinalizer /\ n = pr.n
    <3>1. pvc'[n].exists /\ pvc'[n].uid = OwnClaim /\ ~pvc'[n].finalizer
      BY <2>4, ReleaseWrites
    <3>2. Claimed(n)'
      BY <2>4, FactsLast, ReleaseWrites DEF ClaimReadInv
    <3> QED BY <3>1, <3>2 DEF ClaimCopy, Held, OwnClaim, ForeignClaim
  <2>5. CASE ReapPVC(n) \/ ForcePVC(n)
    <3>1. pvc'[n] = NoClaim
      BY <2>5 DEF ReapPVC, ForcePVC, TypeOK, ClusterTypeOK
    <3>2. ClaimCopy(n, NoClaim)
      BY ClaimFields DEF ClaimCopy
    <3> QED BY <3>1, <3>2, ClaimCopyKeep, ClaimFields DEF ForeignClaim
  <2>6. CASE ReplacePVC(n)
    <3>1. /\ pvc'[n].exists /\ pvc'[n].uid = 2 /\ ~pvc'[n].deleting
          /\ binding[n].exists
      BY <2>6, ReplaceWrites DEF TypeOK, ForeignClaim
    <3>2. Claimed(n)'
      BY <3>1, FactsLast DEF CopiesInv, BindingCopy, Claimed
    <3> QED BY <3>1, <3>2 DEF ClaimCopy, Held, OwnClaim
  <2> QED BY <2>1, <2>2, <2>3, <2>4, <2>5, <2>6, ClaimSteps
<1>2. CASE "pvc" \in Lagging
  <2>1. ClaimCopy(n, pvcCache'[n])
    BY <1>0, <1>2, ClaimSteps DEF SeenPVC
  <2> QED BY <1>1, <1>2, <2>1, ClaimCopyKeep DEF SeenPVC
<1>3. CASE "pvc" \notin Lagging
  BY <1>1, <1>3 DEF SeenPVC
<1> QED BY <1>1, <1>2, <1>3

\* After an hour the pod and the claim have been seen.
LEMMA AgedKeep ==
    ASSUME TypeOK, PodsInv, ClaimsInv, AgedInv, [Next]_vars
    PROVE  AgedInv'
<1> SUFFICES ASSUME NEW n \in Names, n \in aged'
             PROVE  PodSeen(n)' /\ ClaimSeen(n)'
  BY DEF AgedInv
<1>1. CASE n \in aged
  BY <1>1, FactsLast DEF AgedInv
<1>2. CASE HourStep(n)
  <2>1. PodSeen(n) /\ Claimed(n)
    BY <1>2 DEF HourStep, HourPasses, PodSeen, Claimed
  <2>2. ClaimSeen(n)
    BY <1>2, <2>1 DEF HourStep, HourPasses, ClaimSeen, ClaimsInv, ClaimCopy, Held, OwnClaim
  <2> QED BY <2>1, <2>2, FactsLast
<1> QED BY <1>1, <1>2, HistorySteps

\* A job that is complete has processed the claim, unless it was given up.
LEMMA JobsInvKeep ==
    ASSUME TypeOK, PodsInv, ClaimsInv, JobsInv, [Next]_vars
    PROVE  JobsInv'
<1> SUFFICES ASSUME NEW n \in Names, NEW j \in (job[n] \cup SeenJobs(n))', IsJobSucceeded(j)
             PROVE  Processed(n)'
  BY DEF JobsInv, IsJobSucceeded
<1>1. CASE j \in job[n] \cup SeenJobs(n)
  BY <1>1, FactsLast DEF JobsInv
<1>2. CASE j \notin job[n] \cup SeenJobs(n)
  <2>1. j \in job'[n] /\ j \notin job[n]
    BY <1>2, JobSteps DEF SeenJobs
  <2>2. ASSUME NEW i \in job[n], FinishJob(n, i)
        PROVE  Processed(n)'
    <3>1. CASE pvc[n].uid = OwnClaim
      BY <2>2, <3>1 DEF FinishJob, Processed
    <3>2. CASE pvc[n].uid # OwnClaim
      <4>1. GivenUp(n)
        BY <2>2, <3>2 DEF FinishJob, ClaimsInv, ClaimCopy, GivenUp, Held
      <4> QED BY <4>1, FactsLast DEF Processed
    <3> QED BY <3>1, <3>2
  <2>3. ASSUME NEW i \in job[n], NEW s \in JobStatus,
               job'[n] = (job[n] \ {i}) \cup {[i EXCEPT !.status = s]},
               s = "Complete" => FinishJob(n, i)
        PROVE  Processed(n)'
    <3>1. i \in Job
      BY DEF TypeOK, ClusterTypeOK
    <3>2. [i EXCEPT !.status = s].status = s
      BY <3>1 DEF Job
    <3>3. j = [i EXCEPT !.status = s]
      BY <2>1, <2>3
    <3> QED BY <2>2, <2>3, <3>2, <3>3 DEF IsJobSucceeded
  <2>4. CASE AddJob(n)
    <3>1. j = [named |-> FALSE, status |-> "Active"]
      BY <2>1, <2>4 DEF AddJob, TypeOK, ClusterTypeOK
    <3> QED BY <3>1 DEF IsJobSucceeded
  <2>5. CASE ApplyJob /\ n = pr.n
    <3>1. j = [named |-> TRUE, status |-> "Active"]
      BY <2>1, <2>5 DEF ApplyJob, TypeOK, ClusterTypeOK
    <3> QED BY <3>1 DEF IsJobSucceeded
  <2> QED BY <2>1, <2>3, <2>4, <2>5, JobSteps
<1> QED BY <1>1, <1>2

\* The PVC reconciler works on the binding's own claim, and gives it up before
\* it deletes it.
LEMMA ClaimReadKeeps ==
    ASSUME TypeOK, PodsInv, ClaimsInv, ClaimReadInv, [Next]_vars
    PROVE  ClaimReadInv'
<1>0. pr \in [ pc : PVCPC, n : Names \cup {NoUID}, claim : Claim, conds : SUBSET ConditionType ]
  BY DEF TypeOK, PVCTypeOK
<1>1. CASE pr' = pr
  BY <1>1, FactsLast DEF ClaimReadInv
<1>2. CASE pr' = IdlePVC
  BY <1>2 DEF ClaimReadInv, IdlePVC
<1>3. ASSUME NEW n \in Names, StartAbandoned(n) \/ StartFinalizing(n)
      PROVE  ClaimReadInv'
  <2>1. /\ pr'.n = n /\ pr'.claim = SeenPVC(n) /\ pr'.pc \in {"apply", "release"}
        /\ SeenPVC(n).exists /\ SeenPVC(n).uid = OwnClaim
    BY <1>3 DEF StartAbandoned, StartFinalizing, Read, Concerned, IsBindingPVC
  <2>2. Claimed(n)
    BY <2>1 DEF ClaimsInv, ClaimCopy
  <2> QED BY <2>1, <2>2, FactsLast DEF ClaimReadInv
<1>4. CASE ListJobs \/ ApplyJob
  <2>1. \/ pr' = IdlePVC
        \/ pr.pc # "idle" /\ \E pc \in {"create", "release"} : pr' = [pr EXCEPT !.pc = pc]
    BY <1>4 DEF ListJobs, ApplyJob
  <2>2. CASE pr.pc # "idle" /\ \E pc \in {"create", "release"} : pr' = [pr EXCEPT !.pc = pc]
    <3>1. /\ pr'.n = pr.n /\ pr'.claim = pr.claim /\ pr'.pc \in {"create", "release"}
          /\ pr.pc # "idle"
      BY <1>0, <2>2
    <3> QED BY <3>1, FactsLast DEF ClaimReadInv
  <2> QED BY <1>2, <2>1, <2>2
<1>5. CASE RemovePVCFinalizer
  <2>1. /\ pr'.n = pr.n /\ pr'.claim = pvc'[pr.n] /\ pr'.pc = "delete" /\ pr.pc # "idle"
        /\ pvc'[pr.n].exists /\ pvc'[pr.n].uid = OwnClaim /\ ~pvc'[pr.n].finalizer
    BY <1>5, ReleaseWrites
  <2>2. pr.n \in Names /\ Claimed(pr.n)
    BY <2>1 DEF ClaimReadInv
  <2> QED BY <2>1, <2>2, FactsLast DEF ClaimReadInv, GivenUp, Held
<1>6. CASE PVCNext
  BY <1>2, <1>3, <1>4, <1>5, <1>6
     DEF PVCNext, ContinuePVC, RefuseJob, DeleteReleasedPVC, RefusePVC, AbortPVC
<1> QED
  BY <1>1, <1>6 DEF Next, ClusterStep, MutatorStep, BindingStep, PVCStep, FluentPVCStep, vars

\* A binding is there as long as its claim is held.
LEMMA BindingKeptKeeps ==
    ASSUME TypeOK, PodsInv, BindingPassInv, CopiesInv, BindingReadInv, BindingKept,
           [Next]_vars
    PROVE  BindingKept'
<1> DEFINE Due(n) == \/ request[n] \in {"bound", "allowed"}
                     \/ request[n] = "closed" /\ "admissionFails" \notin FaultKinds
<1> SUFFICES ASSUME NEW n \in Names, Held(n)', Due(n)'
             PROVE  binding'[n].exists
  BY DEF BindingKept
<1>0. request \in [Names -> {"none", "started", "claimed", "bound", "allowed", "closed"}]
  BY DEF TypeOK, MutatorTypeOK
<1>1. Held(n) /\ ~CreatePVC(n)
  <2>1. ~CreatePVC(n)
    BY <1>0 DEF CreatePVC, Advance
  <2> QED BY <2>1, HeldSteps
<1>2. CASE binding[n].exists
  BY <1>2, BindingStays DEF GivenUp
<1>3. CASE ~binding[n].exists
  <2>1. ~Due(n)
    BY <1>1, <1>3 DEF BindingKept
  <2>2. ReceivePod(n) \/ ContinueRequest(n)
    BY <2>1, RequestSteps
  <2>3. CASE CreateBinding(n)
    <3>1. binding'[n] = [NoBinding EXCEPT !.exists = TRUE, !.rv = 1, !.finalizer = TRUE,
                                          !.owner = decoded[n].owner]
      BY <2>3 DEF CreateBinding, TypeOK, ClusterTypeOK
    <3> QED BY <3>1 DEF NoBinding
  <2>4. ~ReceivePod(n)
    BY <1>0 DEF ReceivePod, Advance
  <2>5. ~FailRequest(n)
    BY <1>0, <2>1 DEF FailRequest, Advance, Fault
  <2>6. ~(SetPhasePending(n) \/ PersistPod(n) \/ RejectPod(n))
    BY <1>0, <2>1 DEF SetPhasePending, PersistPod, RejectPod, Advance
  <2> QED BY <1>1, <2>2, <2>3, <2>4, <2>5, <2>6 DEF ContinueRequest
<1> QED BY <1>2, <1>3

-----------------------------------------------------------------------------
(* The invariant and what it says.                                         *)

\* KeepInv holds initially.
LEMMA KeepInit == Init => KeepInv
<1> SUFFICES ASSUME Init PROVE KeepInv
  OBVIOUS
<1>1. /\ \A n \in Names : /\ binding[n] = NoBinding /\ SeenBinding(n) = NoBinding
                          /\ pvc[n] = NoClaim /\ SeenPVC(n) = NoClaim
                          /\ job[n] = {} /\ SeenJobs(n) = {}
                          /\ request[n] = "none"
      /\ aged = {} /\ br.pc = "idle" /\ pr.pc = "idle"
  BY DEF Init, ClusterInit, MutatorInit, BindingInit, PVCInit, IdleBinding, IdlePVC,
         SeenBinding, SeenPVC, SeenJobs
<1>2. ClaimsInv
  BY <1>1, ClaimFields DEF ClaimsInv, ClaimCopy, ForeignClaim
<1>3. CopiesInv
  BY <1>1, CopyOfNothing DEF CopiesInv
<1> QED BY <1>1, <1>2, <1>3
        DEF KeepInv, AgedInv, JobsInv, BindingReadInv, ClaimReadInv, BindingKept

\* Every step keeps it, with the invariants before it.
LEMMA KeepStep ==
    ASSUME TypeOK, UseInv, KeepInv, [Next]_vars
    PROVE  KeepInv'
BY ClaimsKeep, AgedKeep, CopiesKeep, JobsInvKeep, BindingReadKeeps, ClaimReadKeeps,
   BindingKeptKeeps DEF KeepInv, UseInv

\* KeepInv holds in every state the operator reaches.
THEOREM KeepInvariant == Spec => []KeepInv
<1>1. Init => KeepInv
  BY KeepInit
<1>2. TypeOK /\ UseInv /\ KeepInv /\ [Next]_vars => KeepInv'
  BY KeepStep
<1> QED BY <1>1, <1>2, TypeCorrect, UseInvariant, PTL DEF Spec

\* Conditions are only ever reached in their order.
THEOREM ConditionsOrdered == Spec => []ConditionsInOrder
<1>1. KeepInv => ConditionsInOrder
  BY DEF KeepInv, CopiesInv, BindingCopy, ConditionsInOrder
<1> QED BY <1>1, KeepInvariant, PTL

\* A binding is not deleted before its claim has been released.
THEOREM BindingsOutliveClaims == Spec => []BindingOutlivesClaim
<1>1. KeepInv => BindingOutlivesClaim
  BY DEF KeepInv, CopiesInv, BindingCopy, BindingKept, BindingOutlivesClaim, GivenUp
<1> QED BY <1>1, KeepInvariant, PTL

\* A claim that another owner made is not deleted by the operator, nor given up.
LEMMA ForeignClaimKept ==
    ASSUME TypeOK, KeepInv, [Next]_vars, NEW n \in Names, pvc[n].uid = ForeignClaim
    PROVE  /\ pvc'[n].uid = ForeignClaim
           /\ pvc'[n].finalizer = pvc[n].finalizer
           /\ ~pvc'[n].deleting
<1> USE DEF KeepInv
<1>0. pvc[n].exists /\ Claimed(n) /\ ~pvc[n].deleting
  BY DEF ClaimsInv, ClaimCopy, ForeignClaim
<1>1. CASE pvc'[n] = pvc[n]
  BY <1>0, <1>1
<1>2. CASE ClaimChanged(n)
  <2>1. DeleteReleasedPVC /\ n = pr.n => pvc[n].uid = OwnClaim
    BY DEF DeleteReleasedPVC, ClaimReadInv, SameClaim
  <2> QED BY <1>0, <1>2, <2>1 DEF ClaimChanged, OwnClaim, ForeignClaim
<1>3. ~(RemovePVCFinalizer /\ n = pr.n)
  BY DEF RemovePVCFinalizer, ClaimReadInv, SameClaim, OwnClaim, ForeignClaim
<1>4. ~(ReapPVC(n) \/ ForcePVC(n) \/ ReplacePVC(n) \/ CreatePVC(n))
  BY <1>0 DEF ReapPVC, ForcePVC, ReplacePVC, CreatePVC, Advance, Claimed, OwnClaim, ForeignClaim
<1> QED BY <1>1, <1>2, <1>3, <1>4, ClaimSteps

\* No step deletes a claim that another owner made under the name of a binding,
\* or takes a finalizer off it, whatever a pass has read of the claim before it.
THEOREM ForeignClaimsUntouched == Spec => ForeignClaimUntouched
<1>1. TypeOK /\ KeepInv /\ [Next]_vars =>
         [\A n \in Names :
             pvc[n].uid = ForeignClaim =>
                 /\ pvc'[n].uid = ForeignClaim
                 /\ pvc'[n].finalizer = pvc[n].finalizer
                 /\ ~pvc'[n].deleting]_vars
  BY ForeignClaimKept
<1> QED BY <1>1, TypeCorrect, KeepInvariant, PTL DEF Spec, ForeignClaimUntouched
=============================================================================
