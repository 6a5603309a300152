------------------------- MODULE FinalizationProofs -------------------------
(***************************************************************************)
(* Proofs about Finalization, for every set of names, every choice of      *)
(* lagging informers, every set of faults and every number of them.        *)
(***************************************************************************)
EXTENDS FinalizationInvariants, TLAPS

-----------------------------------------------------------------------------
(* Type correctness, one component at a time.                              *)

\* What a reader sees has the type of what is stored.
LEMMA SeenTypes ==
    ASSUME ClusterTypeOK, NEW n \in Names
    PROVE  /\ SeenBinding(n) \in Binding
           /\ SeenPVC(n) \in Claim
           /\ SeenJobs(n) \in SUBSET Job
           /\ SeenPod(n) \in PodPhase \cup {NoPod}
           /\ SeenFluentPVC \in FluentPVC
BY DEF ClusterTypeOK, SeenBinding, SeenPVC, SeenJobs, SeenPod, SeenFluentPVC

\* Constants of the model have their types.
LEMMA ConstantTypes ==
    /\ NoBinding \in Binding
    /\ NoClaim \in Claim
    /\ FirstFluentPVC \in FluentPVC
BY DEF NoBinding, Binding, NoClaim, Claim, FirstFluentPVC, FluentPVC

\* Writes keep the types.
LEMMA WriteTypes ==
    /\ \A old, new \in Binding : Stored(old, new) \in Binding
    /\ \A old, new \in Claim : Stored(old, new) \in Claim
    /\ \A old, new \in FluentPVC : Stored(old, new) \in FluentPVC
    /\ \A b \in Binding : Marked(b) \in Binding /\ WithoutFinalizer(b) \in Binding
    /\ \A c \in Claim : Marked(c) \in Claim /\ WithoutFinalizer(c) \in Claim
    /\ \A f \in FluentPVC : Marked(f) \in FluentPVC
<1>1. \A old, new \in Binding : Stored(old, new) \in Binding
  BY DEF Stored, Binding
<1>2. \A old, new \in Claim : Stored(old, new) \in Claim
  BY DEF Stored, Claim
<1>3. \A old, new \in FluentPVC : Stored(old, new) \in FluentPVC
  BY DEF Stored, FluentPVC
<1>4. \A b \in Binding : Marked(b) \in Binding /\ WithoutFinalizer(b) \in Binding
  BY DEF Marked, WithoutFinalizer, Binding
<1>5. \A c \in Claim : Marked(c) \in Claim /\ WithoutFinalizer(c) \in Claim
  BY DEF Marked, WithoutFinalizer, Claim
<1>6. \A f \in FluentPVC : Marked(f) \in FluentPVC
  BY DEF Marked, FluentPVC
<1> QED BY <1>1, <1>2, <1>3, <1>4, <1>5, <1>6

\* The claim of another owner, and that it takes the place of none.
LEMMA AnotherClaimFields ==
    \A copied \in BOOLEAN :
        /\ AnotherClaim(copied) \in Claim
        /\ AnotherClaim(copied).exists /\ AnotherClaim(copied).uid = ForeignClaim
        /\ ~AnotherClaim(copied).deleting /\ AnotherClaim(copied).phase = "Pending"
BY DEF AnotherClaim, NoClaim, Claim, ForeignClaim

LEMMA ReplaceWrites ==
    ASSUME ClusterTypeOK, NEW n \in Names, ReplacePVC(n)
    PROVE  /\ pvc'[n].exists /\ pvc'[n].uid = ForeignClaim
           /\ ~pvc'[n].deleting /\ pvc'[n].phase = "Pending"
           /\ ~pvc[n].exists /\ binding[n].exists
<1>1. PICK copied \in BOOLEAN : pvc' = [pvc EXCEPT ![n] = AnotherClaim(copied)]
  BY DEF ReplacePVC
<1>2. pvc'[n] = AnotherClaim(copied)
  BY <1>1 DEF ClusterTypeOK
<1> QED BY <1>2, AnotherClaimFields DEF ReplacePVC

\* Every step of the cluster keeps the types of its variables.
LEMMA ClusterTypes ==
    ASSUME ClusterTypeOK, ClusterNext \/ \E n \in Names : HourStep(n)
    PROVE  ClusterTypeOK'
<1> USE DEF ClusterTypeOK, stored, caches, history
<1>1. CASE SyncFluentPVC
  BY <1>1 DEF SyncFluentPVC
<1>2. CASE DeleteFluentPVC
  <2>1. fluentpvc' \in FluentPVC
    BY <1>2, WriteTypes DEF DeleteFluentPVC, FluentPVC
  <2> QED BY <1>2, <2>1 DEF DeleteFluentPVC, Fault
<1>3. CASE RecreateFluentPVC
  <2>1. fluentpvc' \in FluentPVC
    <3>1. fluentpvc.uid + 1 \in Nat
      BY DEF FluentPVC
    <3>2. \A k \in Nat : [FirstFluentPVC EXCEPT !.uid = k] \in FluentPVC
      BY DEF FirstFluentPVC, FluentPVC
    <3> QED BY <1>3, <3>1, <3>2 DEF RecreateFluentPVC
  <2> QED BY <1>3, <2>1 DEF RecreateFluentPVC, Fault
<1>4. CASE \E n \in Names : HourStep(n)
  BY <1>4 DEF HourStep, HourPasses
<1>5. ASSUME NEW n \in Names,
             SyncBinding(n) \/ SyncPVC(n) \/ SyncJob(n) \/ SyncPod(n)
      PROVE  ClusterTypeOK'
  BY <1>5 DEF SyncBinding, SyncPVC, SyncJob, SyncPod
<1>6. ASSUME NEW n \in Names, StartPod(n) \/ CompletePod(n) \/ FailPod(n) \/ RemovePod(n)
      PROVE  ClusterTypeOK'
  BY <1>6 DEF StartPod, CompletePod, FailPod, ClaimInTime, Fault, RemovePod, PodPhase, Completed
<1>7. ASSUME NEW n \in Names,
             \/ BindVolume(n) \/ ReapPVC(n) \/ LoseVolume(n) \/ TouchPVC(n)
             \/ DeletePVC(n) \/ ForcePVC(n) \/ ReplacePVC(n)
      PROVE  ClusterTypeOK'
  <2>1. \A c \in Claim :
            /\ [c EXCEPT !.phase = "Bound"] \in Claim
            /\ [c EXCEPT !.phase = "Lost"] \in Claim
            /\ [c EXCEPT !.rv = @ + 1] \in Claim
    BY DEF Claim
  <2>2. \A copied \in BOOLEAN : AnotherClaim(copied) \in Claim
    BY AnotherClaimFields
  <2>3. \E c \in Claim : pvc' = [pvc EXCEPT ![n] = c]
    BY <1>7, <2>1, <2>2, WriteTypes, ConstantTypes
       DEF BindVolume, ReapPVC, LoseVolume, TouchPVC, DeletePVC, ForcePVC, ReplacePVC
  <2> QED BY <1>7, <2>3
       DEF BindVolume, ReapPVC, LoseVolume, TouchPVC, DeletePVC, ForcePVC, ReplacePVC, Fault
<1>8. ASSUME NEW n \in Names, CollectBinding(n) \/ DeleteBinding(n)
      PROVE  ClusterTypeOK'
  <2>1. \E b \in Binding : binding' = [binding EXCEPT ![n] = b]
    BY <1>8, WriteTypes, ConstantTypes DEF CollectBinding, DeleteBinding
  <2> QED BY <1>8, <2>1 DEF CollectBinding, DeleteBinding, Fault
<1>9. ASSUME NEW n \in Names, CollectJobs(n) \/ AddJob(n)
      PROVE  ClusterTypeOK'
  <2>1. [named |-> FALSE, status |-> "Active"] \in Job
    BY DEF Job, JobStatus
  <2>2. \E js \in SUBSET Job : job' = [job EXCEPT ![n] = js]
    BY <1>9, <2>1 DEF CollectJobs, AddJob
  <2> QED BY <1>9, <2>2 DEF CollectJobs, AddJob, Fault
<1>10. ASSUME NEW n \in Names, NEW j \in job[n],
              FinishJob(n, j) \/ FailJob(n, j) \/ ReplaceJob(n, j) \/ RemoveJob(n, j)
       PROVE  ClusterTypeOK'
  <2>1. \A s \in JobStatus : [j EXCEPT !.status = s] \in Job
    BY DEF Job
  <2>2. \E js \in SUBSET Job : job' = [job EXCEPT ![n] = js]
    BY <1>10, <2>1 DEF FinishJob, FailJob, ReplaceJob, RemoveJob, JobStatus
  <2> QED BY <1>10, <2>2 DEF FinishJob, FailJob, ReplaceJob, RemoveJob, Fault
<1> QED
  BY <1>1, <1>2, <1>3, <1>4, <1>5, <1>6, <1>7, <1>8, <1>9, <1>10 DEF ClusterNext

\* Every step of the webhook keeps the types.
LEMMA MutatorTypes ==
    ASSUME ClusterTypeOK, MutatorTypeOK, MutatorNext
    PROVE  ClusterTypeOK' /\ MutatorTypeOK'
<1> USE DryRunAssumption DEF ClusterTypeOK, MutatorTypeOK, stored, caches, history,
                             clusterVars, Advance
<1>1. ASSUME NEW n \in Names, ReceivePod(n)
      PROVE  ClusterTypeOK' /\ MutatorTypeOK'
  <2>1. SeenFluentPVC.uid \in Nat
    BY SeenTypes DEF FluentPVC
  <2> QED BY <1>1, <2>1 DEF ReceivePod
<1>2. ASSUME NEW n \in Names, CreatePVC(n)
      PROVE  ClusterTypeOK' /\ MutatorTypeOK'
  <2>1. [NoClaim EXCEPT !.exists = TRUE, !.rv = 1, !.uid = OwnClaim,
                        !.finalizer = TRUE] \in Claim
    BY DEF NoClaim, Claim, OwnClaim
  <2> QED BY <1>2, <2>1 DEF CreatePVC
<1>3. ASSUME NEW n \in Names, CreateBinding(n)
      PROVE  ClusterTypeOK' /\ MutatorTypeOK'
  <2>1. \A k \in Nat : [NoBinding EXCEPT !.exists = TRUE, !.rv = 1,
                           !.finalizer = TRUE, !.owner = k] \in Binding
    BY DEF NoBinding, Binding
  <2> QED BY <1>3, <2>1 DEF CreateBinding
<1>4. ASSUME NEW n \in Names, SetPhasePending(n)
      PROVE  ClusterTypeOK' /\ MutatorTypeOK'
  <2>1. \A b \in Binding : b.rv + 1 \in Nat
    BY DEF Binding
  <2>2. \A b \in Binding : \A k \in Nat : [b EXCEPT !.rv = k] \in Binding
    BY DEF Binding
  <2>3. binding' = [binding EXCEPT ![n] = [binding[n] EXCEPT !.rv = @ + 1]]
    BY <1>4 DEF SetPhasePending
  <2> QED BY <1>4, <2>1, <2>2, <2>3 DEF SetPhasePending
<1>5. ASSUME NEW n \in Names, PersistPod(n)
      PROVE  ClusterTypeOK' /\ MutatorTypeOK'
  BY <1>5 DEF PersistPod, PodPhase
<1>6. ASSUME NEW n \in Names, RejectPod(n) \/ FailRequest(n)
      PROVE  ClusterTypeOK' /\ MutatorTypeOK'
  <2>1. faults' \in Nat
    BY <1>6 DEF RejectPod, FailRequest, Fault
  <2>2. request' = [request EXCEPT ![n] = "closed"]
    BY <1>6 DEF RejectPod, FailRequest
  <2> QED BY <1>6, <2>1, <2>2 DEF RejectPod, FailRequest
<1> QED BY <1>1, <1>2, <1>3, <1>4, <1>5, <1>6 DEF MutatorNext, ContinueRequest

\* Every step of the binding reconciler keeps the types.
LEMMA BindingTypes ==
    ASSUME ClusterTypeOK, BindingTypeOK, BindingNext
    PROVE  ClusterTypeOK' /\ BindingTypeOK'
<1> USE DEF ClusterTypeOK, BindingTypeOK, stored, caches, history, clusterVars
<1>0. IdleBinding \in [ pc : BindingPC, n : Names \cup {NoUID}, b : Binding,
                        found : BOOLEAN, phase : PodPhase \cup {NoPod} ]
  BY ConstantTypes DEF IdleBinding, BindingPC
<1>1. ASSUME NEW n \in Names, StartBinding(n)
      PROVE  ClusterTypeOK' /\ BindingTypeOK'
  <2>1. SeenFluentPVC.uid \in Nat /\ SeenBinding(n) \in Binding
    BY SeenTypes DEF FluentPVC
  <2>2. [SeenBinding(n) EXCEPT !.owner = SeenFluentPVC.uid] \in Binding
    BY <2>1 DEF Binding
  <2>3. br' \in [ pc : BindingPC, n : Names \cup {NoUID}, b : Binding,
                  found : BOOLEAN, phase : PodPhase \cup {NoPod} ]
    BY <1>1, <2>1, <2>2, <1>0 DEF StartBinding, IdleBinding, BindingPC
  <2> QED BY <1>1, <2>3 DEF StartBinding
<1>2. CASE MissPod \/ DecideDelete
  BY <1>2 DEF MissPod, DecideDelete, BindingPC
<1>3. CASE FindPod
  <2>1. \A m \in Names : SeenPod(m) \in PodPhase \cup {NoPod}
    BY SeenTypes
  <2> QED BY <1>3, <2>1 DEF FindPod, PodFor, BindingPC
<1>4. CASE DecideLost \/ DecidePodMissing \/ DecideUnknown \/ DecideReady
             \/ DecideOutOfUse \/ DecideByJobs
  <2>1. br.b.conds \in SUBSET ConditionType
    BY DEF Binding
  <2>2. ASSUME NEW conds \in SUBSET ConditionType, SetConditions(conds)
        PROVE  BindingTypeOK' /\ UNCHANGED clusterVars
    <3>1. [br.b EXCEPT !.conds = conds] \in Binding
      BY DEF Binding
    <3>2. br' = [br EXCEPT !.pc = "status", !.b = [br.b EXCEPT !.conds = conds]]
      BY <2>2 DEF SetConditions
    <3> QED BY <2>2, <3>1, <3>2 DEF SetConditions, BindingPC
  <2>3. JobConditions(br.b.conds, SeenJobs(br.n)) \in SUBSET ConditionType
    BY <2>1 DEF JobConditions, ConditionType
  <2>4. \E conds \in SUBSET ConditionType : SetConditions(conds)
    BY <1>4, <2>1, <2>3
       DEF DecideLost, DecidePodMissing, DecideUnknown, DecideReady,
           DecideOutOfUse, DecideByJobs, SetCondition, ConditionType
  <2> QED BY <2>2, <2>4
<1>5. CASE DecideNothing \/ RefuseBinding \/ ForeignPod \/ AbortBinding
  BY <1>5, <1>0 DEF DecideNothing, RefuseBinding, ForeignPod, AbortBinding, Skip, Fault
<1>6. CASE Adopt \/ UpdateStatus \/ DeleteBoundBinding
  <2>1. br.n \in Names => \E b \in Binding : binding' = [binding EXCEPT ![br.n] = b]
    BY <1>6, WriteTypes, ConstantTypes
       DEF Adopt, UpdateStatus, DeleteBoundBinding, WriteBinding
  <2>2. br.n \notin Names => binding' = binding
    BY <1>6 DEF Adopt, UpdateStatus, DeleteBoundBinding, WriteBinding
  <2> QED BY <1>6, <1>0, <2>1, <2>2 DEF Adopt, UpdateStatus, DeleteBoundBinding
<1>7. CASE FillPodUID
  <2>1. PICK m \in PodFor(br.n) :
            LET filled == Stored(br.b, [br.b EXCEPT !.podUID = m])
            IN  /\ binding' = [binding EXCEPT ![br.n] = filled]
                /\ br' = [br EXCEPT !.pc = "decide", !.b = filled,
                                    !.found = TRUE, !.phase = SeenPod(m)]
    BY <1>7 DEF FillPodUID
  <2>2. m \in Names /\ SeenPod(m) \in PodPhase \cup {NoPod}
    BY SeenTypes DEF PodFor
  <2>3. [br.b EXCEPT !.podUID = m] \in Binding
    BY <2>2 DEF Binding
  <2>4. Stored(br.b, [br.b EXCEPT !.podUID = m]) \in Binding
    BY <2>3, WriteTypes
  <2> QED BY <1>7, <2>1, <2>2, <2>4 DEF FillPodUID, BindingPC
<1>8. CASE Unfinalize
  <2>1. Stored(br.b, WithoutFinalizer(br.b)) \in Binding
    BY WriteTypes
  <2> QED BY <1>8, <2>1, ConstantTypes DEF Unfinalize, BindingPC
<1> QED
  BY <1>1, <1>2, <1>3, <1>4, <1>5, <1>6, <1>7, <1>8
     DEF BindingNext, ContinueBinding, Decide

\* Every step of the PVC reconciler keeps the types.
LEMMA PVCTypes ==
    ASSUME ClusterTypeOK, PVCTypeOK, PVCNext
    PROVE  ClusterTypeOK' /\ PVCTypeOK'
<1> USE DEF ClusterTypeOK, PVCTypeOK, stored, caches, history, clusterVars
<1>0. IdlePVC \in [ pc : PVCPC, n : Names \cup {NoUID}, claim : Claim,
                    conds : SUBSET ConditionType ]
  BY ConstantTypes DEF IdlePVC, PVCPC
<1>1. ASSUME NEW n \in Names, StartAbandoned(n) \/ StartFinalizing(n)
      PROVE  ClusterTypeOK' /\ PVCTypeOK'
  <2>1. SeenPVC(n) \in Claim /\ SeenBinding(n).conds \in SUBSET ConditionType
    BY SeenTypes DEF Binding
  <2> QED BY <1>1, <2>1 DEF StartAbandoned, StartFinalizing, Read, PVCPC
<1>2. CASE ListJobs \/ RefuseJob \/ RefusePVC \/ AbortPVC
  BY <1>2, <1>0 DEF ListJobs, RefuseJob, RefusePVC, AbortPVC, PVCPC, Fault
<1>3. CASE ApplyJob
  <2>1. [named |-> TRUE, status |-> "Active"] \in Job
    BY DEF Job, JobStatus
  <2>2. job' \in [Names -> SUBSET Job]
    BY <1>3, <2>1 DEF ApplyJob
  <2> QED BY <1>3, <1>0, <2>2 DEF ApplyJob, PVCPC
<1>4. CASE RemovePVCFinalizer \/ DeleteReleasedPVC
  <2>1. Stored(pr.claim, WithoutFinalizer(pr.claim)) \in Claim
    BY WriteTypes
  <2>2. pr.n \in Names => \E c \in Claim : pvc' = [pvc EXCEPT ![pr.n] = c]
    BY <1>4, <2>1, WriteTypes DEF RemovePVCFinalizer, DeleteReleasedPVC
  <2>3. pr.n \notin Names => pvc' = pvc
    BY <1>4 DEF RemovePVCFinalizer, DeleteReleasedPVC
  <2>4. pvc' \in [Names -> Claim]
    BY <2>2, <2>3
  <2>5. PVCTypeOK'
    BY <1>4, <1>0, <2>1 DEF RemovePVCFinalizer, DeleteReleasedPVC, PVCPC
  <2> QED BY <1>4, <2>4, <2>5 DEF RemovePVCFinalizer, DeleteReleasedPVC
<1> QED BY <1>1, <1>2, <1>3, <1>4 DEF PVCNext, ContinuePVC

\* Every step of the FluentPVC reconciler keeps the types.
LEMMA FluentPVCTypes ==
    ASSUME ClusterTypeOK, FluentPVCTypeOK, FluentPVCNext
    PROVE  ClusterTypeOK' /\ FluentPVCTypeOK'
<1> USE DEF ClusterTypeOK, FluentPVCTypeOK, stored, caches, history, clusterVars
<1>0. IdleFluentPVC \in [ pc : {"idle", "update"}, fpvc : FluentPVC ]
  BY ConstantTypes DEF IdleFluentPVC
<1>1. CASE StartFluentPVC
  <2>1. SeenFluentPVC \in FluentPVC
    BY DEF SeenFluentPVC
  <2>2. AllBindingsFinalized \in BOOLEAN
    BY DEF AllBindingsFinalized
  <2>3. [SeenFluentPVC EXCEPT !.finalizer = ~AllBindingsFinalized] \in FluentPVC
    BY <2>1, <2>2 DEF FluentPVC
  <2> QED BY <1>1, <2>3 DEF StartFluentPVC
<1>2. CASE UpdateFluentPVC
  <2>1. fluentpvc' \in FluentPVC
    BY <1>2, WriteTypes DEF UpdateFluentPVC, FluentPVC
  <2> QED BY <1>2, <1>0, <2>1 DEF UpdateFluentPVC
<1>3. CASE RefuseFluentPVC \/ AbortFluentPVC
  BY <1>3, <1>0 DEF RefuseFluentPVC, AbortFluentPVC, Fault
<1> QED BY <1>1, <1>2, <1>3 DEF FluentPVCNext

\* Every step keeps the state well typed.
LEMMA TypeStep ==
    ASSUME TypeOK, [Next]_vars
    PROVE  TypeOK'
<1> USE DEF TypeOK, mutatorVars
<1>1. CASE ClusterStep
  BY <1>1, ClusterTypes
     DEF ClusterStep, MutatorTypeOK, BindingTypeOK, PVCTypeOK, FluentPVCTypeOK
<1>2. CASE MutatorStep
  BY <1>2, MutatorTypes
     DEF MutatorStep, BindingTypeOK, PVCTypeOK, FluentPVCTypeOK
<1>3. CASE BindingStep
  BY <1>3, BindingTypes DEF BindingStep, MutatorTypeOK, PVCTypeOK, FluentPVCTypeOK
<1>4. CASE PVCStep
  BY <1>4, PVCTypes DEF PVCStep, MutatorTypeOK, BindingTypeOK, FluentPVCTypeOK
<1>5. CASE FluentPVCStep
  BY <1>5, FluentPVCTypes DEF FluentPVCStep, MutatorTypeOK, BindingTypeOK, PVCTypeOK
<1>6. CASE UNCHANGED vars
  BY <1>6 DEF vars, clusterVars, stored, caches, history, ClusterTypeOK,
              MutatorTypeOK, BindingTypeOK, PVCTypeOK, FluentPVCTypeOK
<1> QED BY <1>1, <1>2, <1>3, <1>4, <1>5, <1>6 DEF Next

\* TypeOK holds initially.
LEMMA TypeInit == Init => TypeOK
BY ConstantTypes
   DEF Init, ClusterInit, MutatorInit, BindingInit, PVCInit, FluentPVCInit, TypeOK,
       ClusterTypeOK, MutatorTypeOK, BindingTypeOK, PVCTypeOK, FluentPVCTypeOK,
       IdleBinding, IdlePVC, IdleFluentPVC, BindingPC, PVCPC

\* The types hold of every state of the operator.
THEOREM TypeCorrect == Spec => []TypeOK
<1>1. Init => TypeOK
  BY TypeInit
<1>2. TypeOK /\ [Next]_vars => TypeOK'
  BY TypeStep
<1> QED BY <1>1, <1>2, PTL DEF Spec

-----------------------------------------------------------------------------
(* No finalization while the claim is in use.                              *)

\* Which steps change pods, their cache or the admission of a pod.
LEMMA PodSteps ==
    ASSUME [Next]_vars
    PROVE  \/ UNCHANGED <<pod, podCache, request>>
           \/ \E n \in Names :
                 \/ (SyncPod(n) \/ StartPod(n) \/ CompletePod(n) \/ FailPod(n) \/ RemovePod(n))
                       /\ request' = request
                 \/ PersistPod(n)
                 \/ /\ request[n] # "closed" /\ UNCHANGED <<pod, podCache>>
                    /\ \E to : request' = [request EXCEPT ![n] = to]
<1> USE DEF stored, caches, history, clusterVars, mutatorVars
<1>1. CASE ClusterStep
  <2>1. CASE \E n \in Names : \/ SyncPod(n) \/ StartPod(n) \/ CompletePod(n)
                             \/ FailPod(n) \/ RemovePod(n)
    BY <1>1, <2>1 DEF ClusterStep
  <2>2. CASE \E n \in Names :
                 \/ HourStep(n) \/ SyncBinding(n) \/ SyncPVC(n) \/ SyncJob(n)
                 \/ BindVolume(n) \/ ReapPVC(n) \/ CollectJobs(n) \/ CollectBinding(n)
    BY <1>1, <2>2 DEF ClusterStep, HourStep, HourPasses, SyncBinding, SyncPVC, SyncJob,
                      BindVolume, ReapPVC, CollectJobs, CollectBinding
  <2>3. CASE \E n \in Names :
                 \/ LoseVolume(n) \/ TouchPVC(n) \/ DeletePVC(n) \/ ForcePVC(n)
                 \/ ReplacePVC(n) \/ DeleteBinding(n) \/ AddJob(n)
    BY <1>1, <2>3 DEF ClusterStep, LoseVolume, TouchPVC, DeletePVC, ForcePVC,
                      ReplacePVC, DeleteBinding, AddJob
  <2>4. CASE \E n \in Names : \E j \in job[n] :
                 FinishJob(n, j) \/ FailJob(n, j) \/ ReplaceJob(n, j) \/ RemoveJob(n, j)
    BY <1>1, <2>4 DEF ClusterStep, FinishJob, FailJob, ReplaceJob, RemoveJob
  <2>5. CASE SyncFluentPVC \/ DeleteFluentPVC \/ RecreateFluentPVC
    BY <1>1, <2>5 DEF ClusterStep, SyncFluentPVC, DeleteFluentPVC, RecreateFluentPVC
  <2> QED BY <1>1, <2>1, <2>2, <2>3, <2>4, <2>5 DEF ClusterStep, ClusterNext
<1>2. CASE MutatorStep
  BY <1>2 DEF MutatorStep, MutatorNext, ContinueRequest, ReceivePod, CreatePVC, CreateBinding,
              SetPhasePending, RejectPod, FailRequest, Advance
<1>3. CASE BindingStep
  <2>1. UNCHANGED <<pod, podCache>>
    BY <1>3 DEF BindingStep, BindingNext, ContinueBinding, Decide, StartBinding, Adopt,
                MissPod, FindPod, FillPodUID, DecideLost, DecideDelete, DecidePodMissing,
                DecideUnknown, DecideReady, DecideOutOfUse, DecideByJobs, DecideNothing,
                SetCondition, SetConditions, Skip, UpdateStatus, Unfinalize,
                DeleteBoundBinding, RefuseBinding, ForeignPod, AbortBinding
  <2> QED BY <1>3, <2>1 DEF BindingStep
<1>4. CASE PVCStep
  <2>1. UNCHANGED <<pod, podCache>>
    BY <1>4 DEF PVCStep, PVCNext, ContinuePVC, StartAbandoned, StartFinalizing, ListJobs,
                ApplyJob, RefuseJob, RemovePVCFinalizer, DeleteReleasedPVC, RefusePVC, AbortPVC
  <2> QED BY <1>4, <2>1 DEF PVCStep
<1>5. CASE FluentPVCStep
  BY <1>5 DEF FluentPVCStep, FluentPVCNext, StartFluentPVC, UpdateFluentPVC,
              RefuseFluentPVC, AbortFluentPVC
<1>6. CASE UNCHANGED vars
  BY <1>6 DEF vars
<1> QED BY <1>1, <1>2, <1>3, <1>4, <1>5, <1>6 DEF Next

\* A pod that is over stays over, and what the operator knows it keeps knowing.
LEMMA PodsKeep ==
    ASSUME TypeOK, PodsInv, [Next]_vars
    PROVE  /\ PodsInv'
           /\ \A n \in Names : /\ PodOver(n) => PodOver(n)'
                               /\ Known(n) => Known(n)'
<1> USE DEF TypeOK, ClusterTypeOK, MutatorTypeOK, PodsInv, PodOver, Known, SeenPod,
            Completed, NoPod, PodPhase
<1>1. CASE UNCHANGED <<pod, podCache, request>>
  BY <1>1
<1>2. ASSUME NEW n \in Names, SyncPod(n), request' = request
      PROVE  /\ PodsInv'
             /\ \A k \in Names : /\ PodOver(k) => PodOver(k)'
                                 /\ Known(k) => Known(k)'
  <2>1. pod' = pod /\ "pod" \in Lagging
    BY <1>2 DEF SyncPod, stored
  <2>2. \A k \in Names : podCache'[k] = podCache[k] \/ podCache'[k] = pod[k]
    BY <1>2 DEF SyncPod
  <2>3. \A k, m \in NamedPods : m # k =>
            podCache'[k] = NoPod \/ podCache'[m] = NoPod
    <3>1. CASE n \in NamedPods
      BY <1>2, <3>1, NamesAssumption DEF SyncPod
    <3>2. CASE n \notin NamedPods
      BY <1>2, <3>2, <2>1, NamesAssumption DEF SyncPod
    <3> QED BY <3>1, <3>2
  <2> QED BY <1>2, <2>1, <2>2, <2>3, NamesAssumption
<1>3. ASSUME NEW n \in Names, StartPod(n) \/ CompletePod(n) \/ FailPod(n) \/ RemovePod(n),
             request' = request
      PROVE  /\ PodsInv'
             /\ \A k \in Names : /\ PodOver(k) => PodOver(k)'
                                 /\ Known(k) => Known(k)'
  <2>1. podCache' = podCache /\ pod[n] # NoPod
    BY <1>3 DEF StartPod, CompletePod, FailPod, RemovePod, caches
  <2>2. /\ \A k \in Names : k # n => pod'[k] = pod[k]
        /\ pod[n] \in Completed => pod'[n] \in Completed \cup {NoPod}
    BY <1>3 DEF StartPod, CompletePod, FailPod, RemovePod
  <2> QED BY <1>3, <2>1, <2>2, NamesAssumption
<1>4. ASSUME NEW n \in Names, PersistPod(n)
      PROVE  /\ PodsInv'
             /\ \A k \in Names : /\ PodOver(k) => PodOver(k)'
                                 /\ Known(k) => Known(k)'
  <2>1. /\ podCache' = podCache /\ request[n] = "allowed"
        /\ pod' = [pod EXCEPT ![n] = "Pending"]
        /\ request' = [request EXCEPT ![n] = "closed"]
        /\ n \in NamedPods => \A m \in NamedPods : pod[m] = NoPod
    BY <1>4 DEF PersistPod, Advance, caches
  <2> QED BY <2>1, NamesAssumption
<1>5. ASSUME NEW n \in Names, request[n] # "closed", UNCHANGED <<pod, podCache>>,
             NEW to, request' = [request EXCEPT ![n] = to]
      PROVE  /\ PodsInv'
             /\ \A k \in Names : /\ PodOver(k) => PodOver(k)'
                                 /\ Known(k) => Known(k)'
  BY <1>5
<1> QED BY <1>1, <1>2, <1>3, <1>4, <1>5, PodSteps

\* A copy of a binding stays honest while nobody changes it.
LEMMA HonestKeep ==
    ASSUME TypeOK, PodsInv, [Next]_vars, NEW n \in Names, NEW b, Honest(n, b)
    PROVE  Honest(n, b)'
BY PodsKeep DEF Honest

\* A write is as honest as the copy it stores.
LEMMA HonestStored ==
    ASSUME NEW n, NEW old \in Binding, NEW new \in Binding, Honest(n, new)
    PROVE  /\ Honest(n, Stored(old, new))
           /\ Honest(n, Marked(new))
           /\ Honest(n, WithoutFinalizer(new))
BY DEF Honest, Stored, Marked, WithoutFinalizer, Binding

LEMMA HonestNoBinding == ASSUME NEW n \in Names PROVE Honest(n, NoBinding)
BY NamesAssumption DEF Honest, NoBinding

\* Every step leaves honest bindings in the API server and in the cache.
LEMMA BindingsKeep ==
    ASSUME TypeOK, PodsInv, BindingsInv, BindingPassInv, [Next]_vars
    PROVE  BindingsInv'
<1> USE DEF stored, caches, history, clusterVars
<1>1. SUFFICES \A n \in Names : /\ Honest(n, binding'[n])
                                /\ bindingCache'[n] = bindingCache[n] \/ bindingCache'[n] = binding[n]
  BY HonestKeep DEF BindingsInv, SeenBinding
<1>2. \A n \in Names : /\ Honest(n, binding[n]) /\ binding[n] \in Binding
                       /\ Honest(n, NoBinding)
  BY HonestNoBinding DEF BindingsInv, TypeOK, ClusterTypeOK
<1>3. ASSUME NEW k \in Names, NEW b, Honest(k, b), bindingCache' = bindingCache,
             binding' = [binding EXCEPT ![k] = b]
      PROVE  \A n \in Names : /\ Honest(n, binding'[n])
                              /\ bindingCache'[n] = bindingCache[n]
  BY <1>2, <1>3 DEF TypeOK, ClusterTypeOK
<1>4. CASE UNCHANGED <<binding, bindingCache>>
  BY <1>2, <1>4
<1>5. CASE \E k \in Names : SyncBinding(k)
  BY <1>2, <1>5 DEF SyncBinding, TypeOK, ClusterTypeOK
<1>6. ASSUME NEW k \in Names, CollectBinding(k) \/ DeleteBinding(k)
      PROVE  \A n \in Names : /\ Honest(n, binding'[n])
                              /\ bindingCache'[n] = bindingCache[n]
  <2>1. \E b \in {NoBinding, Stored(binding[k], Marked(binding[k]))} :
            binding' = [binding EXCEPT ![k] = b]
    BY <1>6 DEF CollectBinding, DeleteBinding
  <2>2. Honest(k, Stored(binding[k], Marked(binding[k])))
    BY <1>2, HonestStored, WriteTypes
  <2> QED BY <1>2, <1>3, <1>6, <2>1, <2>2 DEF CollectBinding, DeleteBinding
<1>7. CASE ClusterStep
  <2>1. CASE \E k \in Names : SyncBinding(k) \/ CollectBinding(k) \/ DeleteBinding(k)
    BY <2>1, <1>5, <1>6
  <2>2. CASE \E k \in Names :
                 \/ HourStep(k) \/ SyncPVC(k) \/ SyncJob(k) \/ SyncPod(k)
                 \/ BindVolume(k) \/ StartPod(k) \/ CompletePod(k) \/ FailPod(k) \/ RemovePod(k)
                 \/ ReapPVC(k) \/ CollectJobs(k)
    BY <1>4, <2>2 DEF HourStep, HourPasses, SyncPVC, SyncJob, SyncPod, BindVolume,
                      StartPod, CompletePod, FailPod, RemovePod, ReapPVC, CollectJobs
  <2>3. CASE \E k \in Names :
                 \/ LoseVolume(k) \/ TouchPVC(k) \/ DeletePVC(k) \/ ForcePVC(k)
                 \/ ReplacePVC(k) \/ AddJob(k)
    BY <1>4, <2>3 DEF LoseVolume, TouchPVC, DeletePVC, ForcePVC, ReplacePVC, AddJob
  <2>4. CASE \E k \in Names : \E j \in job[k] :
                 FinishJob(k, j) \/ FailJob(k, j) \/ ReplaceJob(k, j) \/ RemoveJob(k, j)
    BY <1>4, <2>4 DEF FinishJob, FailJob, ReplaceJob, RemoveJob
  <2>5. CASE SyncFluentPVC \/ DeleteFluentPVC \/ RecreateFluentPVC
    BY <1>4, <2>5 DEF SyncFluentPVC, DeleteFluentPVC, RecreateFluentPVC
  <2> QED BY <1>7, <2>1, <2>2, <2>3, <2>4, <2>5 DEF ClusterStep, ClusterNext
<1>8. CASE MutatorStep
  <2>1. CASE \E k \in Names : \/ ReceivePod(k) \/ CreatePVC(k) \/ PersistPod(k)
                              \/ RejectPod(k) \/ FailRequest(k)
    BY <1>4, <2>1 DEF ReceivePod, CreatePVC, PersistPod, RejectPod, FailRequest
  <2>2. ASSUME NEW k \in Names, CreateBinding(k)
        PROVE  \A n \in Names : /\ Honest(n, binding'[n])
                                /\ bindingCache'[n] = bindingCache[n]
    <3>1. \A o \in Nat : Honest(k, [NoBinding EXCEPT !.exists = TRUE, !.rv = 1,
                                       !.finalizer = TRUE, !.owner = o])
      BY NamesAssumption DEF Honest, NoBinding
    <3>2. decoded[k].owner \in Nat
      BY DEF TypeOK, MutatorTypeOK
    <3> QED BY <1>3, <2>2, <3>1, <3>2 DEF CreateBinding
  <2>3. ASSUME NEW k \in Names, SetPhasePending(k)
        PROVE  \A n \in Names : /\ Honest(n, binding'[n])
                                /\ bindingCache'[n] = bindingCache[n]
    <3>1. Honest(k, [binding[k] EXCEPT !.rv = @ + 1])
      BY <1>2 DEF Honest, Binding
    <3> QED BY <1>3, <2>3, <3>1 DEF SetPhasePending
  <2> QED BY <1>8, <2>1, <2>2, <2>3 DEF MutatorStep, MutatorNext, ContinueRequest
<1>9. CASE BindingStep
  <2>0. /\ br.b \in Binding
        /\ br.pc # "idle" => br.n \in Names /\ Honest(br.n, br.b)
    BY DEF TypeOK, BindingTypeOK, BindingPassInv
  <2>1. CASE (\E k \in Names : StartBinding(k)) \/ MissPod \/ FindPod \/ Decide
             \/ RefuseBinding \/ ForeignPod \/ AbortBinding
    BY <1>4, <2>1
       DEF StartBinding, MissPod, FindPod, Decide, DecideLost, DecideDelete,
           DecidePodMissing, DecideUnknown, DecideReady, DecideOutOfUse, DecideByJobs,
           DecideNothing, SetCondition, SetConditions, Skip, RefuseBinding, ForeignPod,
           AbortBinding
  <2>2. CASE Adopt \/ UpdateStatus
    <3>1. /\ br.n \in Names /\ bindingCache' = bindingCache
          /\ binding' = [binding EXCEPT ![br.n] = Stored(binding[br.n], br.b)]
      BY <2>0, <2>2 DEF Adopt, UpdateStatus, WriteBinding
    <3>2. Honest(br.n, Stored(binding[br.n], br.b))
      BY <1>2, <2>0, <2>2, <3>1, HonestStored DEF Adopt, UpdateStatus
    <3> QED BY <1>3, <3>1, <3>2
  <2>3. CASE FillPodUID
    <3>1. PICK m \in PodFor(br.n) :
              /\ PodHasPVC(m, br.n)
              /\ binding' = [binding EXCEPT ![br.n] =
                                Stored(br.b, [br.b EXCEPT !.podUID = m])]
      BY <2>3 DEF FillPodUID
    <3>2. m = br.n /\ br.n \in Names /\ SeenPod(m) # NoPod
      BY <2>0, <2>3, <3>1 DEF FillPodUID, PodHasPVC, PodFor
    <3>3. [br.b EXCEPT !.podUID = m] \in Binding
      BY <2>0, <3>2 DEF Binding
    <3>4. Honest(br.n, [br.b EXCEPT !.podUID = m])
      BY <2>0, <2>3, <3>2 DEF FillPodUID, Honest, Known, Binding
    <3>5. Honest(br.n, Stored(br.b, [br.b EXCEPT !.podUID = m]))
      BY <2>0, <3>3, <3>4, HonestStored
    <3> QED BY <1>3, <2>3, <3>1, <3>2, <3>5 DEF FillPodUID
  <2>4. CASE Unfinalize
    <3>1. /\ br.n \in Names /\ bindingCache' = bindingCache
          /\ \E b \in {NoBinding, Stored(br.b, WithoutFinalizer(br.b))} :
                 binding' = [binding EXCEPT ![br.n] = b]
      BY <2>0, <2>4 DEF Unfinalize
    <3>2. Honest(br.n, Stored(br.b, WithoutFinalizer(br.b)))
      BY <2>0, <2>4, HonestStored, WriteTypes DEF Unfinalize
    <3> QED BY <1>2, <1>3, <3>1, <3>2
  <2>5. CASE DeleteBoundBinding
    <3>1. /\ br.n \in Names /\ bindingCache' = bindingCache
          /\ \E b \in {NoBinding, Stored(binding[br.n], Marked(binding[br.n]))} :
                 binding' = [binding EXCEPT ![br.n] = b]
      BY <2>0, <2>5 DEF DeleteBoundBinding
    <3>2. Honest(br.n, Stored(binding[br.n], Marked(binding[br.n])))
      BY <1>2, <3>1, HonestStored, WriteTypes
    <3> QED BY <1>2, <1>3, <3>1, <3>2
  <2> QED BY <1>9, <2>1, <2>2, <2>3, <2>4, <2>5 DEF BindingStep, BindingNext, ContinueBinding
<1>10. CASE PVCStep
  BY <1>4, <1>10 DEF PVCStep, PVCNext, ContinuePVC, StartAbandoned, StartFinalizing, ListJobs,
                ApplyJob, RefuseJob, RemovePVCFinalizer, DeleteReleasedPVC, RefusePVC, AbortPVC
<1>11. CASE FluentPVCStep
  BY <1>4, <1>11 DEF FluentPVCStep, FluentPVCNext, StartFluentPVC, UpdateFluentPVC,
              RefuseFluentPVC, AbortFluentPVC
<1>12. CASE UNCHANGED vars
  BY <1>4, <1>12 DEF vars
<1> QED BY <1>7, <1>8, <1>9, <1>10, <1>11, <1>12 DEF Next

\* What the binding reconciler holds stays right: a pass goes on with what it
\* has found out, and a pod it has missed after Ready is over.
LEMMA BindingPassKeeps ==
    ASSUME TypeOK, UseInv, [Next]_vars
    PROVE  BindingPassInv'
<1> USE DEF UseInv
<1>0. br.b \in Binding /\ br \in [ pc : BindingPC, n : Names \cup {NoUID}, b : Binding,
                                   found : BOOLEAN, phase : PodPhase \cup {NoPod} ]
  BY DEF TypeOK, BindingTypeOK
<1>1. CASE br' = br
  BY <1>1, HonestKeep, PodsKeep DEF BindingPassInv
<1>2. CASE br' = IdleBinding
  BY <1>2 DEF BindingPassInv, IdleBinding
<1>3. ASSUME BindingNext
      PROVE  BindingPassInv'
  <2>1. ASSUME NEW k \in Names, StartBinding(k)
        PROVE  BindingPassInv'
    <3>1. SeenBinding(k) \in Binding /\ Honest(k, SeenBinding(k))
      BY SeenTypes DEF TypeOK, BindingsInv
    <3>2. \A o : Honest(k, [SeenBinding(k) EXCEPT !.owner = o])
      BY <3>1 DEF Honest, Binding
    <3>3. \/ br' = [IdleBinding EXCEPT !.pc = "pod", !.n = k, !.b = SeenBinding(k)]
          \/ br' = [IdleBinding EXCEPT !.pc = "adopt", !.n = k, !.b =
                       [SeenBinding(k) EXCEPT !.owner = SeenFluentPVC.uid]]
      BY <2>1 DEF StartBinding
    <3>4. br'.n = k /\ br'.pc # "decide"
      BY <3>3 DEF IdleBinding
    <3>5. \/ br'.b = SeenBinding(k)
          \/ br'.b = [SeenBinding(k) EXCEPT !.owner = SeenFluentPVC.uid]
      BY <3>3 DEF IdleBinding
    <3>6. Honest(k, br'.b)
      BY <3>1, <3>2, <3>5
    <3> QED BY <3>4, <3>6, HonestKeep DEF BindingPassInv
  <2>2. CASE MissPod
    <3>1. /\ br.n \in Names /\ Honest(br.n, br.b)
          /\ br' = [br EXCEPT !.pc = "decide", !.found = FALSE]
      BY <2>2 DEF MissPod, BindingPassInv
    <3>2. ASSUME br.b.podUID = br.n
          PROVE  PodOver(br.n)
      <4>1. Known(br.n)
        BY <3>1, <3>2 DEF Honest
      <4>2. CASE PodFor(br.n) = {}
        BY <3>1, <4>1, <4>2 DEF PodFor, Known
      <4>3. CASE \E m \in PodFor(br.n) : ~IsBindingPod(br.b, m)
        BY <3>1, <3>2, <4>1, <4>3 DEF PodFor, IsBindingPod, Known, PodsInv
      <4> QED BY <2>2, <4>2, <4>3 DEF MissPod
    <3> QED BY <1>0, <3>1, <3>2, HonestKeep, PodsKeep DEF BindingPassInv
  <2>3. CASE FindPod
    <3>1. PICK m \in PodFor(br.n) :
              /\ IsBindingPod(br.b, m) /\ br.b.podUID # NoUID
              /\ br' = [br EXCEPT !.pc = "decide", !.found = TRUE, !.phase = SeenPod(m)]
      BY <2>3 DEF FindPod
    <3>2. br.n \in Names /\ Honest(br.n, br.b)
      BY <2>3 DEF FindPod, BindingPassInv
    <3>3. m = br.n /\ br.b.podUID = br.n
      BY <3>1, <3>2 DEF IsBindingPod, Honest
    <3>4. SeenPod(br.n) \in Completed => PodOver(br.n)
      BY <3>2 DEF PodsInv
    <3> QED BY <1>0, <3>1, <3>2, <3>3, <3>4, HonestKeep, PodsKeep DEF BindingPassInv
  <2>4. CASE FillPodUID
    <3>1. PICK m \in PodFor(br.n) :
              /\ PodHasPVC(m, br.n)
              /\ br' = [br EXCEPT !.pc = "decide",
                                  !.b = Stored(br.b, [br.b EXCEPT !.podUID = m]),
                                  !.found = TRUE, !.phase = SeenPod(m)]
      BY <2>4 DEF FillPodUID
    <3>2. br.n \in Names /\ Honest(br.n, br.b) /\ m = br.n /\ SeenPod(br.n) # NoPod
      BY <2>4, <3>1 DEF FillPodUID, BindingPassInv, PodHasPVC, PodFor
    <3>3. [br.b EXCEPT !.podUID = br.n] \in Binding
      BY <1>0, <3>2 DEF Binding
    <3>4. Honest(br.n, [br.b EXCEPT !.podUID = br.n])
      BY <1>0, <2>4, <3>2 DEF FillPodUID, Honest, Known, Binding
    <3>5. Honest(br.n, Stored(br.b, [br.b EXCEPT !.podUID = br.n]))
      BY <1>0, <3>3, <3>4, HonestStored
    <3>6. Stored(br.b, [br.b EXCEPT !.podUID = br.n]).podUID = br.n
      BY <1>0, <3>3 DEF Stored, Binding
    <3>7. SeenPod(br.n) \in Completed => PodOver(br.n)
      BY <3>2 DEF PodsInv
    <3> QED BY <1>0, <3>1, <3>2, <3>5, <3>6, <3>7, HonestKeep, PodsKeep DEF BindingPassInv
  <2>5. CASE DecideOutOfUse
    <3>1. br.n \in Names /\ Honest(br.n, br.b) /\ PodOver(br.n)
      BY <2>5 DEF DecideOutOfUse, BindingPassInv, podDone, Early, Waiting, Has, Honest
    <3>2. Honest(br.n, [br.b EXCEPT !.conds = br.b.conds \cup {"OutOfUse"}])
      BY <1>0, <3>1 DEF Honest, Binding
    <3>3. br' = [br EXCEPT !.pc = "status",
                           !.b = [br.b EXCEPT !.conds = br.b.conds \cup {"OutOfUse"}]]
      BY <2>5 DEF DecideOutOfUse, SetCondition, SetConditions
    <3> QED BY <1>0, <3>1, <3>2, <3>3, HonestKeep DEF BindingPassInv
  <2>6. CASE DecideReady
    <3>1. br.n \in Names /\ Honest(br.n, br.b) /\ br.b.podUID = br.n
      BY <2>6 DEF DecideReady, BindingPassInv
    <3>2. Honest(br.n, [br.b EXCEPT !.conds = br.b.conds \cup {"Ready"}])
      BY <1>0, <3>1 DEF Honest, Binding
    <3>3. br' = [br EXCEPT !.pc = "status",
                           !.b = [br.b EXCEPT !.conds = br.b.conds \cup {"Ready"}]]
      BY <2>6 DEF DecideReady, SetCondition, SetConditions
    <3> QED BY <1>0, <3>1, <3>2, <3>3, HonestKeep DEF BindingPassInv
  <2>7. CASE DecideLost \/ DecidePodMissing \/ DecideUnknown \/ DecideByJobs
    <3>1. br.n \in Names /\ Honest(br.n, br.b)
      BY <2>7 DEF DecideLost, DecidePodMissing, DecideUnknown, DecideByJobs, BindingPassInv
    <3>2. PICK conds : /\ "Ready" \in conds => "Ready" \in br.b.conds
                       /\ "OutOfUse" \in conds => "OutOfUse" \in br.b.conds
                       /\ SetConditions(conds)
      BY <2>7 DEF DecideLost, DecidePodMissing, DecideUnknown, DecideByJobs,
                  SetCondition, JobConditions
    <3>3. Honest(br.n, [br.b EXCEPT !.conds = conds])
      BY <1>0, <3>1, <3>2 DEF Honest, Binding
    <3>4. br' = [br EXCEPT !.pc = "status", !.b = [br.b EXCEPT !.conds = conds]]
      BY <3>2 DEF SetConditions
    <3> QED BY <1>0, <3>1, <3>3, <3>4, HonestKeep DEF BindingPassInv
  <2>8. CASE DecideDelete
    <3>1. br.n \in Names /\ Honest(br.n, br.b)
      BY <2>8 DEF DecideDelete, BindingPassInv
    <3> QED BY <1>0, <2>8, <3>1, HonestKeep DEF DecideDelete, BindingPassInv
  <2>9. CASE Unfinalize
    <3>1. br.n \in Names /\ Honest(br.n, br.b)
      BY <2>9 DEF Unfinalize, BindingPassInv
    <3>2. Honest(br.n, Stored(br.b, WithoutFinalizer(br.b)))
      BY <1>0, <3>1, HonestStored, WriteTypes
    <3>3. br' = [br EXCEPT !.pc = "delete", !.b = Stored(br.b, WithoutFinalizer(br.b))]
      BY <2>9 DEF Unfinalize
    <3> QED BY <1>0, <3>1, <3>2, <3>3, HonestKeep DEF BindingPassInv
  <2>10. CASE DecideNothing \/ Adopt \/ UpdateStatus \/ DeleteBoundBinding
              \/ RefuseBinding \/ ForeignPod \/ AbortBinding
    BY <1>2, <2>10 DEF DecideNothing, Adopt, UpdateStatus, DeleteBoundBinding,
                       RefuseBinding, ForeignPod, AbortBinding, Skip
  <2> QED BY <1>3, <2>1, <2>2, <2>3, <2>4, <2>5, <2>6, <2>7, <2>8, <2>9, <2>10
          DEF BindingNext, ContinueBinding, Decide
<1> QED
  BY <1>1, <1>3 DEF Next, ClusterStep, MutatorStep, BindingStep, PVCStep, FluentPVCStep, vars

\* The PVC reconciler is about to apply a job only for a pod that is over.
LEMMA PVCPassKeeps ==
    ASSUME TypeOK, UseInv, [Next]_vars
    PROVE  PVCPassInv'
<1> USE DEF UseInv
<1>1. CASE pr' = pr
  BY <1>1, PodsKeep DEF PVCPassInv
<1>2. CASE PVCNext
  <2>1. ASSUME NEW n \in Names, StartFinalizing(n), pr'.pc = "apply"
        PROVE  pr'.n = n /\ PodOver(n)
    BY <2>1 DEF StartFinalizing, Read, Finalizing, BindingsInv, Honest
  <2>2. ASSUME pr'.pc \in {"apply", "create"}
        PROVE  pr'.n \in Names /\ PodOver(pr'.n)
    <3>1. CASE \E n \in Names : StartAbandoned(n) \/ StartFinalizing(n)
      BY <2>1, <2>2, <3>1 DEF StartAbandoned, StartFinalizing, Read
    <3>2. CASE ListJobs
      BY <2>2, <3>2 DEF ListJobs, PVCPassInv, IdlePVC, TypeOK, PVCTypeOK
    <3>3. CASE ApplyJob
      BY <2>2, <3>3 DEF ApplyJob, IdlePVC, TypeOK, PVCTypeOK
    <3>4. CASE RemovePVCFinalizer
      BY <2>2, <3>4 DEF RemovePVCFinalizer, TypeOK, PVCTypeOK
    <3>5. CASE RefuseJob \/ DeleteReleasedPVC \/ RefusePVC \/ AbortPVC
      BY <2>2, <3>5 DEF RefuseJob, DeleteReleasedPVC, RefusePVC, AbortPVC, IdlePVC
    <3> QED BY <1>2, <3>1, <3>2, <3>3, <3>4, <3>5 DEF PVCNext, ContinuePVC
  <2> QED BY <2>2, PodsKeep DEF PVCPassInv
<1> QED
  BY <1>1, <1>2 DEF Next, ClusterStep, MutatorStep, BindingStep, PVCStep, FluentPVCStep, vars

\* Only the PVC reconciler makes the job that has the binding's name.
LEMMA JobsKeep ==
    ASSUME TypeOK, UseInv, [Next]_vars
    PROVE  NoFinalizationInUse'
<1> USE DEF UseInv, stored, caches, history, clusterVars
<1>1. SUFFICES ASSUME NEW n \in Names, NEW j \in job'[n], j.named
               PROVE  PodOver(n)
  BY PodsKeep DEF NoFinalizationInUse
<1>2. ASSUME NEW i \in job[n], i.named
      PROVE  PodOver(n)
  BY <1>2 DEF NoFinalizationInUse
<1>3. CASE job' = job
  BY <1>1, <1>2, <1>3
<1>4. ASSUME NEW k \in Names, NEW i \in job[k],
             FinishJob(k, i) \/ FailJob(k, i) \/ ReplaceJob(k, i) \/ RemoveJob(k, i)
      PROVE  PodOver(n)
  <2>1. i \in Job /\ job \in [Names -> SUBSET Job]
    BY DEF TypeOK, ClusterTypeOK
  <2>2. \A s : [i EXCEPT !.status = s].named = i.named
    BY <2>1 DEF Job
  <2>3. PICK s : \/ job' = [job EXCEPT ![k] = (job[k] \ {i}) \cup {[i EXCEPT !.status = s]}]
                 \/ job' = [job EXCEPT ![k] = job[k] \ {i}]
    BY <1>4 DEF FinishJob, FailJob, ReplaceJob, RemoveJob
  <2>4. k = n \/ job'[n] = job[n]
    BY <2>1, <2>3
  <2>5. k = n => j \in job[n] \/ j = [i EXCEPT !.status = s]
    BY <1>1, <2>1, <2>3
  <2> QED BY <1>1, <1>2, <2>2, <2>4, <2>5
<1>5. ASSUME NEW k \in Names, AddJob(k) \/ CollectJobs(k)
      PROVE  PodOver(n)
  BY <1>1, <1>2, <1>5 DEF AddJob, CollectJobs, TypeOK, ClusterTypeOK
<1>6. CASE ApplyJob
  BY <1>1, <1>2, <1>6 DEF ApplyJob, PVCPassInv, TypeOK, ClusterTypeOK
<1>7. CASE ClusterStep
  <2>1. CASE \E k \in Names :
                 \/ HourStep(k) \/ SyncBinding(k) \/ SyncPVC(k) \/ SyncJob(k) \/ SyncPod(k)
                 \/ BindVolume(k) \/ StartPod(k) \/ CompletePod(k) \/ FailPod(k) \/ RemovePod(k)
                 \/ ReapPVC(k) \/ CollectBinding(k)
    BY <1>3, <2>1 DEF HourStep, HourPasses, SyncBinding, SyncPVC, SyncJob, SyncPod, BindVolume,
                      StartPod, CompletePod, FailPod, RemovePod, ReapPVC, CollectBinding
  <2>2. CASE \E k \in Names :
                 \/ LoseVolume(k) \/ TouchPVC(k) \/ DeletePVC(k) \/ ForcePVC(k)
                 \/ ReplacePVC(k) \/ DeleteBinding(k)
    BY <1>3, <2>2 DEF LoseVolume, TouchPVC, DeletePVC, ForcePVC, ReplacePVC, DeleteBinding
  <2>3. CASE SyncFluentPVC \/ DeleteFluentPVC \/ RecreateFluentPVC
    BY <1>3, <2>3 DEF SyncFluentPVC, DeleteFluentPVC, RecreateFluentPVC
  <2> QED BY <1>4, <1>5, <1>7, <2>1, <2>2, <2>3 DEF ClusterStep, ClusterNext
<1>8. CASE MutatorStep
  BY <1>3, <1>8 DEF MutatorStep, MutatorNext, ContinueRequest, ReceivePod, CreatePVC, CreateBinding,
                    SetPhasePending, PersistPod, RejectPod, FailRequest
<1>9. CASE BindingStep
  BY <1>3, <1>9 DEF BindingStep, BindingNext, ContinueBinding, Decide, StartBinding, Adopt,
                MissPod, FindPod, FillPodUID, DecideLost, DecideDelete, DecidePodMissing,
                DecideUnknown, DecideReady, DecideOutOfUse, DecideByJobs, DecideNothing,
                SetCondition, SetConditions, Skip, UpdateStatus, Unfinalize,
                DeleteBoundBinding, RefuseBinding, ForeignPod, AbortBinding
<1>10. CASE PVCStep
  BY <1>3, <1>6, <1>10 DEF PVCStep, PVCNext, ContinuePVC, StartAbandoned, StartFinalizing,
                ListJobs, RefuseJob, RemovePVCFinalizer, DeleteReleasedPVC, RefusePVC, AbortPVC
<1>11. CASE FluentPVCStep
  BY <1>3, <1>11 DEF FluentPVCStep, FluentPVCNext, StartFluentPVC, UpdateFluentPVC,
              RefuseFluentPVC, AbortFluentPVC
<1>12. CASE UNCHANGED vars
  BY <1>3, <1>12 DEF vars
<1> QED BY <1>7, <1>8, <1>9, <1>10, <1>11, <1>12 DEF Next

\* UseInv holds initially.
LEMMA UseInit == Init => UseInv
BY NamesAssumption
   DEF Init, ClusterInit, MutatorInit, BindingInit, PVCInit, UseInv, PodsInv, BindingsInv,
       BindingPassInv, PVCPassInv, NoFinalizationInUse, SeenPod, SeenBinding, Honest,
       NoBinding, IdleBinding, IdlePVC, Completed, NoPod

\* Every step keeps it, with the invariants before it.
LEMMA UseStep ==
    ASSUME TypeOK, UseInv, [Next]_vars
    PROVE  UseInv'
BY PodsKeep, BindingsKeep, BindingPassKeeps, PVCPassKeeps, JobsKeep DEF UseInv

\* The inductive invariant holds.
THEOREM UseInvariant == Spec => []UseInv
<1>1. Init => UseInv
  BY UseInit
<1>2. TypeOK /\ UseInv /\ [Next]_vars => UseInv'
  BY UseStep
<1> QED BY <1>1, <1>2, TypeCorrect, PTL DEF Spec

\* A finalizer job exists only for a claim whose pod is over: no job ever reads
\* log data that a pod is still writing, whatever the caches showed.
THEOREM NeverFinalizedInUse == Spec => []NoFinalizationInUse
<1>1. UseInv => NoFinalizationInUse
  BY DEF UseInv
<1> QED BY <1>1, UseInvariant, PTL
=============================================================================
