----------------------------- MODULE LifeProofs -----------------------------
(***************************************************************************)
(* Proof that the operator implements ClaimLife, for every set of names,   *)
(* every choice of lagging informers and every number of adverse events,   *)
(* two kinds excepted.                                                     *)
(***************************************************************************)
EXTENDS ReleaseProofs

-----------------------------------------------------------------------------
(* A step is about one name.                                               *)

\* What the stage and the report of n depend on does not change.
Untouched(n) ==
    /\ pvc'[n] = pvc[n] /\ request'[n] = request[n] /\ pod'[n] = pod[n]
    /\ n \in finalized' <=> n \in finalized
    /\ binding'[n] = binding[n]

\* At most one name is touched; and either its binding is, or the rest.
LEMMA OneName ==
    ASSUME TypeOK, BindingPassInv, [Next]_vars
    PROVE  \/ UNCHANGED <<pvc, request, pod, finalized, binding>>
           \/ \E n \in Names :
                 /\ \A m \in Names : m # n => Untouched(m)
                 /\ \/ binding' = binding
                    \/ CreateBinding(n)
                    \/ UNCHANGED <<pvc, pod, finalized>>
                         /\ (request' = request \/ SetPhasePending(n))
<1> USE DEF Untouched, stored, caches, history, clusterVars, mutatorVars, TypeOK,
            ClusterTypeOK, MutatorTypeOK
<1> DEFINE Still == UNCHANGED <<pvc, request, pod, finalized, binding>>
           One(n) == /\ \A m \in Names : m # n => Untouched(m)
                     /\ \/ binding' = binding
                        \/ CreateBinding(n)
                        \/ UNCHANGED <<pvc, pod, finalized>>
                             /\ (request' = request \/ SetPhasePending(n))
<1>1. CASE ClusterStep
  <2>0. request' = request
    BY <1>1 DEF ClusterStep
  <2>1. CASE \E n \in Names :
                 \/ HourStep(n) \/ SyncBinding(n) \/ SyncPVC(n) \/ SyncJob(n) \/ SyncPod(n)
                 \/ CollectJobs(n) \/ AddJob(n)
    BY <2>0, <2>1 DEF HourStep, HourPasses, SyncBinding, SyncPVC, SyncJob, SyncPod,
                CollectJobs, AddJob
  <2>2. CASE \E n \in Names : \E j \in job[n] :
                 FailJob(n, j) \/ ReplaceJob(n, j) \/ RemoveJob(n, j)
    BY <2>0, <2>2 DEF FailJob, ReplaceJob, RemoveJob
  <2>3. CASE SyncFluentPVC \/ DeleteFluentPVC \/ RecreateFluentPVC
    BY <2>0, <2>3 DEF SyncFluentPVC, DeleteFluentPVC, RecreateFluentPVC
  <2>4. ASSUME NEW n \in Names,
               \/ BindVolume(n) \/ ReapPVC(n) \/ LoseVolume(n) \/ TouchPVC(n)
               \/ DeletePVC(n) \/ ForcePVC(n) \/ ReplacePVC(n)
        PROVE  One(n)
    BY <2>0, <2>4 DEF BindVolume, ReapPVC, LoseVolume, TouchPVC, DeletePVC, ForcePVC,
                      ReplacePVC
  <2>5. ASSUME NEW n \in Names,
               \/ StartPod(n) \/ CompletePod(n) \/ FailPod(n) \/ RemovePod(n)
               \/ \E j \in job[n] : FinishJob(n, j)
        PROVE  One(n)
    BY <2>0, <2>5 DEF StartPod, CompletePod, FailPod, RemovePod, FinishJob
  <2>6. ASSUME NEW n \in Names, CollectBinding(n) \/ DeleteBinding(n)
        PROVE  One(n)
    BY <2>0, <2>6 DEF CollectBinding, DeleteBinding
  <2> QED BY <1>1, <2>1, <2>2, <2>3, <2>4, <2>5, <2>6 DEF ClusterStep, ClusterNext
<1>2. CASE MutatorStep
  <2>1. ASSUME NEW n \in Names,
               ReceivePod(n) \/ CreatePVC(n) \/ PersistPod(n) \/ RejectPod(n) \/ FailRequest(n)
        PROVE  One(n)
    BY <2>1 DEF ReceivePod, CreatePVC, PersistPod, RejectPod, FailRequest, Advance
  <2>2. ASSUME NEW n \in Names, CreateBinding(n)
        PROVE  One(n)
    BY <2>2 DEF CreateBinding, Advance
  <2>3. ASSUME NEW n \in Names, SetPhasePending(n)
        PROVE  One(n)
    BY <2>3 DEF SetPhasePending, Advance
  <2> QED BY <1>2, <2>1, <2>2, <2>3 DEF MutatorStep, MutatorNext, ContinueRequest
<1>3. CASE BindingStep
  <2>1. CASE (\E n \in Names : StartBinding(n)) \/ MissPod \/ FindPod \/ Decide
             \/ RefuseBinding \/ ForeignPod \/ AbortBinding
    BY <1>3, <2>1
       DEF BindingStep, StartBinding, MissPod, FindPod, Decide, DecideLost, DecideDelete,
           DecidePodMissing, DecideUnknown, DecideReady, DecideOutOfUse, DecideByJobs,
           DecideNothing, SetCondition, SetConditions, Skip, RefuseBinding, ForeignPod,
           AbortBinding
  <2>2. CASE Adopt \/ UpdateStatus \/ FillPodUID \/ Unfinalize \/ DeleteBoundBinding
    <3>1. UNCHANGED <<request, pvc, pod, finalized>>
      BY <1>3, <2>2 DEF BindingStep, Adopt, UpdateStatus, FillPodUID, Unfinalize,
                        DeleteBoundBinding
    <3>2. \A m \in Names : m # br.n => binding'[m] = binding[m]
      BY <2>2 DEF Adopt, UpdateStatus, WriteBinding, FillPodUID, Unfinalize,
                  DeleteBoundBinding
    <3>3. br.n \in Names
      BY <2>2 DEF BindingPassInv, Adopt, UpdateStatus, FillPodUID, Unfinalize,
                  DeleteBoundBinding
    <3> QED BY <3>1, <3>2, <3>3
  <2> QED BY <1>3, <2>1, <2>2 DEF BindingStep, BindingNext, ContinueBinding
<1>4. CASE PVCStep
  <2>1. CASE (\E n \in Names : StartAbandoned(n) \/ StartFinalizing(n)) \/ ListJobs
             \/ ApplyJob \/ RefuseJob \/ RefusePVC \/ AbortPVC
    BY <1>4, <2>1 DEF PVCStep, StartAbandoned, StartFinalizing, ListJobs, ApplyJob,
                      RefuseJob, RefusePVC, AbortPVC
  <2>2. CASE RemovePVCFinalizer \/ DeleteReleasedPVC
    BY <1>4, <2>2 DEF PVCStep, RemovePVCFinalizer, DeleteReleasedPVC
  <2> QED BY <1>4, <2>1, <2>2 DEF PVCStep, PVCNext, ContinuePVC
<1>5. CASE FluentPVCStep
  BY <1>5 DEF FluentPVCStep, FluentPVCNext, StartFluentPVC, UpdateFluentPVC,
              RefuseFluentPVC, AbortFluentPVC
<1>6. CASE UNCHANGED vars
  BY <1>6 DEF vars
<1> QED BY <1>1, <1>2, <1>3, <1>4, <1>5, <1>6 DEF Next

-----------------------------------------------------------------------------
(* The stage of a claim, and the report of its binding.                    *)

\* The operator's own part of the assumption: claims are not forced away, and the
\* only jobs are those it applies.
Undisturbed == FaultKinds \cap {"claimForced", "extraJob"} = {}

LifeInv ==
    TypeOK /\ UseInv /\ KeepInv /\ ReleaseInv /\ ReasonInv /\ ProcessedInv

Reported(n) == "Ready" \in binding[n].conds

\* The stage of a claim changes as ClaimLife says.
LEMMA StageSteps ==
    ASSUME Undisturbed, LifeInv, [Next]_vars, NEW n \in Names
    PROVE  \/ Stage(n)' = Stage(n)
           \/ Stage(n) = "none" /\ Stage(n)' \in {"held", "gone"}
           \/ Stage(n) = "held" /\ Stage(n)' = "over"
           \/ Stage(n) = "over" /\ Stage(n)' = "finalized"
           \/ Stage(n) \in {"over", "finalized"} /\ Stage(n)' = "released"
                 /\ (Stage(n) = "over" => ~Reported(n))
           \/ Stage(n) = "released" /\ Stage(n)' = "gone"
<1> USE DEF LifeInv, UseInv, KeepInv, ReleaseInv
<1>0. /\ ClaimCopy(n, pvc[n])
      /\ PodOver(n) => PodOver(n)'
      /\ Claimed(n) => Claimed(n)'
      /\ n \in finalized => n \in finalized' /\ Claimed(n)
  BY FactsLast, PodsKeep, HistorySteps
     DEF ClaimsInv, ProcessedInv, Undisturbed, Spared, Kept, GivenUp, CopiesInv, BindingCopy, Claimed
<1>1. CASE pvc'[n].uid = pvc[n].uid /\ pvc'[n].finalizer = pvc[n].finalizer
  <2>1. CASE pvc[n].uid # OwnClaim
    BY <1>0, <1>1, <2>1 DEF Stage, Claimed
  <2>2. CASE pvc[n].uid = OwnClaim /\ ~pvc[n].finalizer
    BY <1>1, <2>2 DEF Stage
  <2>3. CASE Held(n) /\ n \notin finalized /\ n \in finalized'
    <3>1. PICK j \in job[n] : FinishJob(n, j)
      BY <2>3, HistorySteps
    <3>2. PodOver(n)
      BY <3>1 DEF NoFinalizationInUse, ProcessedInv, Undisturbed, Spared
    <3> QED BY <1>1, <2>3, <3>2 DEF Stage, Held
  <2>4. CASE Held(n) /\ (n \notin finalized => n \notin finalized')
    BY <1>0, <1>1, <2>4 DEF Stage, Held
  <2> QED BY <2>1, <2>2, <2>3, <2>4 DEF Held
<1>2. CASE CreatePVC(n)
  <2>1. pvc'[n] = [NoClaim EXCEPT !.exists = TRUE, !.rv = 1, !.uid = OwnClaim,
                                  !.finalizer = TRUE]
    BY <1>2 DEF CreatePVC, TypeOK, ClusterTypeOK
  <2>2. pvc'[n].uid = OwnClaim /\ pvc'[n].finalizer
    BY <2>1 DEF NoClaim
  <2>3. /\ request[n] = "started" /\ request'[n] = "claimed" /\ finalized' = finalized
    BY <1>2 DEF CreatePVC, Advance, TypeOK, MutatorTypeOK, history
  <2>4. pvc[n].uid # OwnClaim /\ n \notin finalized
    BY <1>0, <2>3 DEF ClaimCopy, Claimed, OwnClaim
  <2> QED BY <2>2, <2>3, <2>4 DEF Stage, PodOver
<1>3. CASE RemovePVCFinalizer /\ n = pr.n
  <2>1. /\ pvc'[n].uid = OwnClaim /\ ~pvc'[n].finalizer
        /\ pvc[n].uid = OwnClaim
    BY <1>3, ReleaseWrites DEF SameClaim, ClaimReadInv
  <2>2. CASE Held(n)
    BY <1>3, <2>1, <2>2, ReleaseReason DEF Stage, Held, Reported
  <2>3. CASE ~Held(n)
    BY <2>1, <2>3 DEF Stage, Held
  <2> QED BY <2>2, <2>3
<1>4. CASE ReapPVC(n)
  <2>1. pvc'[n] = NoClaim /\ pvc[n].exists /\ ~pvc[n].finalizer
    BY <1>4 DEF ReapPVC, TypeOK, ClusterTypeOK
  <2>2. Claimed(n) /\ Claimed(n)' /\ pvc'[n].uid # OwnClaim
    BY <1>0, <2>1, ClaimFields DEF ClaimCopy, OwnClaim
  <2> QED BY <2>1, <2>2 DEF Stage, Claimed
<1>5. CASE ReplacePVC(n)
  <2>1. pvc'[n].uid = ForeignClaim /\ ~pvc[n].exists /\ binding[n].exists
    BY <1>5, ReplaceWrites DEF TypeOK
  <2>2. Claimed(n)
    BY <2>1 DEF CopiesInv, BindingCopy, Claimed
  <2> QED BY <1>0, <2>1, <2>2 DEF Stage, Claimed, ClaimCopy, OwnClaim, ForeignClaim
<1>6. ~ForcePVC(n)
  BY DEF Undisturbed, ForcePVC, Fault
<1> QED BY <1>1, <1>2, <1>3, <1>4, <1>5, <1>6, ClaimSteps DEF ClaimChanged

\* Ready is reported of a claim that is held and not processed, and forgotten
\* with the binding, when the claim has been given up.
LEMMA ReportSteps ==
    ASSUME Undisturbed, LifeInv, [Next]_vars, NEW n \in Names
    PROVE  \/ Reported(n)' = Reported(n)
           \/ ~Reported(n) /\ Stage(n) \in {"held", "over"}
           \/ Reported(n) /\ Stage(n) \in {"released", "gone"}
<1> USE DEF LifeInv, UseInv, KeepInv, ReleaseInv
<1>0. BindingCopy(n, binding[n]) /\ (binding[n].exists => Claimed(n))
  BY DEF CopiesInv, BindingCopy, Claimed
<1>1. GivenUp(n) => Stage(n) \in {"released", "gone"}
  BY DEF GivenUp, Held, Stage, Claimed
<1>2. CASE ~binding[n].exists
  BY <1>2, VersionSteps, WriteFields DEF VersionsInv, Reported
<1>3. CASE binding[n].exists /\ ~binding'[n].exists
  <2>1. BindingRemoved(n) \/ (Unfinalize /\ n = br.n)
    BY <1>0, <1>3, BindingSteps, PassWrites DEF BindingTouched, CreateBinding, Advance,
       CopiesInv, BindingCopy
  <2>2. GivenUp(n)
    BY <1>0, <2>1 DEF BindingRemoved, BindingCopy, Unfinalize, BindingReadInv
  <2>3. ~Reported(n)'
    BY <1>3, VersionSteps, WriteFields DEF Reported
  <2> QED BY <1>1, <2>2, <2>3 DEF Reported
<1>4. CASE binding[n].exists /\ binding'[n].exists
  <2>1. binding[n].conds \cap Lasting \subseteq binding'[n].conds
    BY <1>4, VersionSteps
  <2>2. BindingCopy(n, binding[n])'
    BY CopiesKeep DEF CopiesInv
  <2>3. CASE GivenUp(n)
    <3>1. "PodMissing" \in binding[n].conds \/ "FinalizerJobSucceeded" \in binding[n].conds
      BY <1>4, <2>3 DEF ReasonInv, Undisturbed, Spared
    <3> QED BY <1>0, <2>1, <2>2, <3>1, LastingConditions DEF Reported, BindingCopy, InOrder
  <2>4. CASE ~GivenUp(n) /\ ~Reported(n)
    <3>1. n \notin finalized
      BY <2>4 DEF ProcessedInv, Undisturbed, Spared, Kept, Reported
    <3> QED BY <1>0, <1>4, <2>4, <3>1 DEF Stage, GivenUp, Held
  <2>5. CASE Reported(n)
    BY <2>1, <2>5, LastingConditions DEF Reported
  <2> QED BY <2>3, <2>4, <2>5
<1> QED BY <1>2, <1>3, <1>4

-----------------------------------------------------------------------------
(* The refinement.                                                         *)

life  == [n \in Names |-> Stage(n)]
ready == {n \in Names : "Ready" \in binding[n].conds}

\* Nothing of a name changes that is not touched.
LEMMA UntouchedKeeps ==
    ASSUME NEW n \in Names, Untouched(n)
    PROVE  Stage(n)' = Stage(n) /\ Reported(n)' = Reported(n)
BY DEF Untouched, Stage, PodOver, Reported

\* Every step of the operator is one of ClaimLife, or changes nothing of it.
LEMMA LifeStep ==
    ASSUME Undisturbed, LifeInv, [Next]_vars
    PROVE  [Life!Next]_<<life, ready>>
<1>1. CASE UNCHANGED <<pvc, request, pod, finalized, binding>>
  <2>1. \A n \in Names : Stage(n)' = Stage(n)
    BY <1>1 DEF Stage, PodOver
  <2>2. life' = life
    BY <2>1 DEF life
  <2>3. ready' = ready
    BY <1>1 DEF ready
  <2> QED BY <2>2, <2>3
<1>2. ASSUME NEW n \in Names, \A m \in Names : m # n => Untouched(m),
             Reported(n)' = Reported(n)
      PROVE  [Life!Next]_<<life, ready>>
  <2>1. \A m \in Names : m # n => Stage(m)' = Stage(m) /\ Reported(m)' = Reported(m)
    BY <1>2, UntouchedKeeps
  <2>2. ready' = ready
    BY <1>2, <2>1 DEF ready, Reported
  <2>3. life' = [life EXCEPT ![n] = Stage(n)'] /\ life[n] = Stage(n)
    BY <2>1 DEF life
  <2>4. n \in ready <=> Reported(n)
    BY DEF ready, Reported
  <2>5. CASE Stage(n)' = Stage(n)
    <3>1. life' = life
      BY <2>1, <2>5 DEF life
    <3> QED BY <2>2, <3>1
  <2>6. ASSUME NEW from, NEW to, Stage(n) = from, Stage(n)' = to
        PROVE  Life!Advance(n, from, to)
    BY <2>2, <2>3, <2>6 DEF Life!Advance, life, ready
  <2>7. CASE Stage(n)' # Stage(n)
    <3>1. life'[n] # life[n]
      BY <2>7 DEF life
    <3> QED BY <2>4, <2>6, <2>7, <3>1, StageSteps
       DEF Life!Next, Life!Admit, Life!Refuse, Life!PodEnds, Life!Process, Life!Release,
           Life!Abandon, Life!Reap, ready
  <2> QED BY <2>5, <2>7
<1>3. ASSUME NEW n \in Names, \A m \in Names : m # n => Untouched(m),
             Stage(n)' = Stage(n), Reported(n)' # Reported(n)
      PROVE  [Life!Next]_<<life, ready>>
  <2>1. \A m \in Names : m # n => Stage(m)' = Stage(m) /\ Reported(m)' = Reported(m)
    BY <1>3, UntouchedKeeps
  <2>2. life' = life /\ life[n] = Stage(n)
    BY <1>3, <2>1 DEF life
  <2>3. \A m \in Names : (m \in ready <=> Reported(m)) /\ (m \in ready' <=> Reported(m)')
    BY DEF ready, Reported
  <2>4. ready \subseteq Names /\ ready' \subseteq Names
    BY DEF ready
  <2>5. CASE ~Reported(n) /\ Stage(n) \in {"held", "over"}
    <3>1. ready' = ready \cup {n} /\ n \notin ready
      BY <1>3, <2>1, <2>3, <2>4, <2>5 DEF Reported
    <3>2. Life!Report(n)
      BY <2>2, <2>5, <3>1 DEF Life!Report, life, ready
    <3>3. ready' # ready
      BY <3>1
    <3> QED BY <3>2, <3>3 DEF Life!Next, ready
  <2>6. CASE Reported(n) /\ Stage(n) \in {"released", "gone"}
    <3>1. ready' = ready \ {n} /\ n \in ready
      BY <1>3, <2>1, <2>3, <2>4, <2>6 DEF Reported
    <3>2. Life!Forget(n)
      BY <2>2, <2>6, <3>1 DEF Life!Forget, life, ready
    <3>3. ready' # ready
      BY <3>1
    <3> QED BY <3>2, <3>3 DEF Life!Next, ready
  <2> QED BY <1>3, <2>5, <2>6, ReportSteps
<1>4. ASSUME NEW n \in Names, \A m \in Names : m # n => Untouched(m),
             \/ binding' = binding
             \/ CreateBinding(n)
             \/ UNCHANGED <<pvc, pod, finalized>> /\ (request' = request \/ SetPhasePending(n))
      PROVE  [Life!Next]_<<life, ready>>
  <2>1. CASE binding' = binding
    BY <1>2, <1>4, <2>1 DEF Reported
  <2>2. CASE CreateBinding(n)
    <3>1. ~binding[n].exists
      BY <2>2 DEF CreateBinding, Advance, LifeInv, KeepInv, CopiesInv, BindingCopy
    <3>2. ~Reported(n) /\ ~Reported(n)'
      BY <3>1, VersionSteps, WriteFields
         DEF LifeInv, UseInv, KeepInv, ReleaseInv, VersionsInv, Reported
    <3> QED BY <1>2, <1>4, <3>2 DEF Reported
  <2>3. CASE UNCHANGED <<pvc, pod, finalized>> /\ (request' = request \/ SetPhasePending(n))
    <3>1. CASE request' = request
      BY <1>2, <1>3, <1>4, <2>3, <3>1 DEF Stage, PodOver
    <3>2. CASE SetPhasePending(n)
      <4>1. request[n] = "bound" /\ request'[n] = "allowed"
        BY <3>2 DEF SetPhasePending, Advance, LifeInv, TypeOK, MutatorTypeOK
      <4> QED BY <1>2, <1>3, <1>4, <2>3, <4>1 DEF Stage, PodOver
    <3> QED BY <2>3, <3>1, <3>2
  <2> QED BY <1>4, <2>1, <2>2, <2>3
<1> QED BY <1>1, <1>4, OneName DEF LifeInv, UseInv

\* Without forced claims and foreign jobs the operator implements ClaimLife: a
\* claim is kept until its pod is over, processed and then given up, or given up
\* unprocessed if it was never reported to be used.
THEOREM ImplementsClaimLife ==
    ASSUME Undisturbed
    PROVE  Spec => ClaimLifeSpec
<1>1. Init => Life!Init
  <2> SUFFICES ASSUME Init PROVE Life!Init
    OBVIOUS
  <2>1. \A n \in Names : /\ pvc[n] = NoClaim /\ binding[n] = NoBinding
                         /\ request[n] = "none"
    BY DEF Init, ClusterInit, MutatorInit
  <2>2. \A n \in Names : Stage(n) = "none" /\ "Ready" \notin binding[n].conds
    BY <2>1, ClaimFields, WriteFields DEF Stage, OwnClaim
  <2> QED BY <2>2 DEF Life!Init
<1>2. LifeInv /\ [Next]_vars => [Life!Next]_<<life, ready>>
  BY LifeStep
<1>3. Spec => []LifeInv
  BY TypeCorrect, UseInvariant, KeepInvariant, ReleaseInvariant, ReasonInvariant,
     ProcessedInvariant, PTL DEF LifeInv
<1> QED BY <1>1, <1>2, <1>3, PTL DEF Spec, ClaimLifeSpec, Life!Spec, life, ready
=============================================================================
