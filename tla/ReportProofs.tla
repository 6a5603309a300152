---------------------------- MODULE ReportProofs ----------------------------
(***************************************************************************)
(* Proof that Unknown is reported only for a cause: a lost volume, a claim *)
(* forced away or a second job, and never because caches disagree, a pass  *)
(* stopped, a job failed or somebody deleted or replaced an object.        *)
(***************************************************************************)
EXTENDS ReleaseProofs

-----------------------------------------------------------------------------
(* Pods that have started, volumes and jobs.                               *)

\* A claim in the cache has been seen.
LEMMA CachedClaimSeen ==
    ASSUME ClaimsInv, NEW n \in Names, SeenPVC(n).exists
    PROVE  ClaimSeen(n)
BY DEF ClaimsInv, ClaimCopy, ClaimSeen

\* A pod starts only when the operator can see its claim.
LEMMA StartedKeep ==
    ASSUME ~Fault("claimLate"), TypeOK, UseInv, ClaimsInv, StartedInv, [Next]_vars
    PROVE  StartedInv'
<1> USE DEF UseInv
<1>1. ASSUME NEW n \in Names
      PROVE  ({pod[n], SeenPod(n)} \subseteq {"Pending", NoPod} \/ ClaimSeen(n))'
  <2>0. {pod[n], SeenPod(n)} \subseteq {"Pending", NoPod} \/ ClaimSeen(n)
    BY DEF StartedInv
  <2>1. ClaimSeen(n) => ClaimSeen(n)'
    BY FactsLast
  <2> USE DEF TypeOK, ClusterTypeOK, SeenPod
  <2>2. CASE UNCHANGED <<pod, podCache>>
    BY <2>0, <2>1, <2>2
  <2>3. CASE \E m \in Names : SyncPod(m)
    BY <2>0, <2>1, <2>3 DEF SyncPod, stored
  <2>4. CASE StartPod(n) \/ CompletePod(n) \/ FailPod(n)
    <3>1. pod[n] = "Pending" => ClaimSeen(n)
      BY <2>4, CachedClaimSeen DEF StartPod, CompletePod, FailPod, ClaimInTime
    <3>2. pod[n] \in {"Pending", "Running"}
      BY <2>4 DEF StartPod, CompletePod, FailPod
    <3>3. ClaimSeen(n)
      BY <2>0, <3>1, <3>2 DEF NoPod
    <3> QED BY <2>1, <3>3
  <2>5. ASSUME NEW m \in Names,
               (m # n /\ (StartPod(m) \/ CompletePod(m) \/ FailPod(m))) \/ RemovePod(m) \/ PersistPod(m)
        PROVE  /\ pod'[n] \in {pod[n], "Pending", NoPod}
               /\ podCache' = podCache
    BY <2>5 DEF StartPod, CompletePod, FailPod, RemovePod, PersistPod, caches
  <2>6. CASE \E m \in Names : \/ m # n /\ (StartPod(m) \/ CompletePod(m) \/ FailPod(m))
                              \/ RemovePod(m) \/ PersistPod(m)
    BY <2>0, <2>1, <2>5, <2>6
  <2> QED BY <2>2, <2>3, <2>4, <2>6, PodSteps
<1>2. (br.pc = "decide" /\ br.found => br.phase = "Pending" \/ ClaimSeen(br.n))'
  <2>0. /\ br \in [ pc : BindingPC, n : Names \cup {NoUID}, b : Binding,
                    found : BOOLEAN, phase : PodPhase \cup {NoPod} ]
        /\ br.pc # "idle" => br.n \in Names
    BY DEF TypeOK, BindingTypeOK, BindingPassInv
  <2>1. CASE br' = br
    BY <2>0, <2>1, FactsLast DEF StartedInv
  <2>2. CASE FindPod \/ FillPodUID
    <3>1. PICK m \in PodFor(br.n) :
              /\ \/ IsBindingPod(br.b, m) /\ br.b.podUID # NoUID
                 \/ PodHasPVC(m, br.n)
              /\ br.pc = "pod" /\ br'.n = br.n /\ br'.phase = SeenPod(m)
      BY <2>0, <2>2 DEF FindPod, FillPodUID
    <3>2. m = br.n /\ SeenPod(br.n) # NoPod /\ br.n \in Names
      BY <2>0, <3>1 DEF PodFor, IsBindingPod, Honest, BindingPassInv, PodHasPVC
    <3>3. br'.phase = "Pending" \/ ClaimSeen(br.n)
      BY <3>1, <3>2 DEF StartedInv
    <3> QED BY <3>1, <3>2, <3>3, FactsLast
  <2>3. CASE MissPod
    BY <2>0, <2>3 DEF MissPod
  <2>4. DecideDelete => br'.pc # "decide"
    BY <2>0 DEF DecideDelete
  <2> QED BY <2>1, <2>2, <2>3, <2>4, PassSteps
<1> QED BY <1>1, <1>2 DEF StartedInv

\* Nobody loses a volume or adds a job.
LEMMA SoundKeep ==
    ASSUME ~Fault("volumeLost"), ~Fault("extraJob"), Spared({"extraJob"}),
           TypeOK, KeepInv, ProcessedInv, SoundInv, [Next]_vars
    PROVE  SoundInv'
<1> USE DEF KeepInv
<1>0. pr \in [ pc : PVCPC, n : Names \cup {NoUID}, claim : Claim, conds : SUBSET ConditionType ]
  BY DEF TypeOK, PVCTypeOK
<1>1. ASSUME NEW n \in Names
      PROVE  pvc'[n].phase # "Lost"
  <2>0. pvc[n].phase # "Lost"
    BY DEF SoundInv
  <2>1. CASE CreatePVC(n)
    <3>1. pvc'[n] = [NoClaim EXCEPT !.exists = TRUE, !.rv = 1, !.uid = OwnClaim,
                                    !.finalizer = TRUE]
      BY <2>1 DEF CreatePVC, TypeOK, ClusterTypeOK
    <3> QED BY <3>1 DEF NoClaim
  <2>2. CASE RemovePVCFinalizer /\ n = pr.n
    BY <2>2, ReleaseWrites DEF SoundInv
  <2>3. CASE ReapPVC(n) \/ ForcePVC(n)
    <3>1. pvc'[n] = NoClaim
      BY <2>3 DEF ReapPVC, ForcePVC, TypeOK, ClusterTypeOK
    <3> QED BY <3>1 DEF NoClaim
  <2>4. CASE ReplacePVC(n)
    BY <2>4, ReplaceWrites DEF TypeOK
  <2> QED BY <2>0, <2>1, <2>2, <2>3, <2>4, ClaimSteps DEF ClaimChanged
<1>2. \A n \in Names : (SeenPVC(n).phase # "Lost")'
  BY <1>1, ClaimSteps DEF SeenPVC, SoundInv
<1>3. pr'.claim.phase # "Lost"
  <2>1. CASE pr' = pr
    BY <2>1 DEF SoundInv
  <2>2. CASE pr' = IdlePVC
    BY <2>2 DEF IdlePVC, NoClaim
  <2>3. CASE \E n \in Names : StartAbandoned(n) \/ StartFinalizing(n)
    BY <2>3 DEF StartAbandoned, StartFinalizing, Read, SoundInv
  <2>4. CASE ListJobs \/ ApplyJob
    <3>1. pr' = IdlePVC \/ pr'.claim = pr.claim
      BY <1>0, <2>4 DEF ListJobs, ApplyJob
    <3> QED BY <2>2, <3>1 DEF SoundInv
  <2>5. CASE RemovePVCFinalizer
    BY <1>1, <2>5, ReleaseWrites
  <2>6. CASE PVCNext
    BY <2>2, <2>3, <2>4, <2>5, <2>6
       DEF PVCNext, ContinuePVC, RefuseJob, DeleteReleasedPVC, RefusePVC, AbortPVC
  <2> QED
    BY <2>1, <2>6 DEF Next, ClusterStep, MutatorStep, BindingStep, PVCStep, FluentPVCStep, vars
<1>4. ASSUME NEW n \in Names
      PROVE  \A i, j \in job'[n] : i = j
  <2>1. CASE ApplyJob /\ n = pr.n
    <3>1. /\ job'[n] = job[n] \cup {[named |-> TRUE, status |-> "Active"]}
          /\ ~JobNamed(job[n])
      BY <2>1 DEF ApplyJob, TypeOK, ClusterTypeOK
    <3>2. job[n] = {}
      BY <3>1 DEF JobNamed, ProcessedInv
    <3> QED BY <3>1, <3>2
  <2>2. ~AddJob(n)
    BY DEF AddJob
  <2> QED BY <2>1, <2>2, JobSteps DEF SoundInv
<1>5. \A n \in Names : (\A i, j \in SeenJobs(n) : i = j)'
  BY <1>4, JobSteps DEF SeenJobs, SoundInv
<1> QED BY <1>1, <1>2, <1>3, <1>4, <1>5 DEF SoundInv

-----------------------------------------------------------------------------
(* Unknown.                                                                *)

\* A pass that finds no claim has read an old binding: the claim has been seen
\* before, so it was given up, and the stored binding says why.
LEMMA UnknownIsStale ==
    ASSUME Spared({"claimForced"}),
           TypeOK, UseInv, KeepInv, ReleaseInv, ReasonInv, StartedInv, DecideUnknown
    PROVE  ~SameBinding(binding[br.n], br.b)
<1> USE DEF UseInv, KeepInv, ReleaseInv
<1> SUFFICES ASSUME SameBinding(binding[br.n], br.b) PROVE FALSE
  OBVIOUS
<1>1. /\ br.pc = "decide" /\ ~Early /\ ~pvcFound
      /\ ~br.found \/ br.phase # "Pending"
      /\ br.n \in Names /\ BindingCopy(br.n, br.b) /\ Versioned(br.n, br.b)
  BY DEF DecideUnknown, BindingReadInv, BindingPassInv, VersionsInv
<1>2. ClaimSeen(br.n)
  <2>1. CASE br.found
    BY <1>1, <2>1 DEF StartedInv
  <2>2. CASE ~br.found
    BY <1>1, <2>2 DEF Early, Waiting, Has, BindingCopy
  <2> QED BY <2>1, <2>2
<1>3. GivenUp(br.n)
  BY <1>1, <1>2 DEF ClaimSeen, GivenUp, pvcFound, IsBindingPVC, ClaimsInv, ClaimCopy, OwnClaim
<1>4. "PodMissing" \in binding[br.n].conds \/ "FinalizerJobSucceeded" \in binding[br.n].conds
  BY <1>1, <1>3 DEF ReasonInv, SameBinding
<1>5. "PodMissing" \in br.b.conds \/ "FinalizerJobSucceeded" \in br.b.conds
  BY <1>1, <1>4, LastingConditions DEF Versioned, SameBinding
<1> QED BY <1>1, <1>5 DEF Early, Orphaned, Has

\* A version that is not the stored one never is again.
LEMMA StaleLasts ==
    ASSUME TypeOK, UseInv, KeepInv, ReleaseInv, [Next]_vars,
           br.pc # "idle", ~SameBinding(binding[br.n], br.b)
    PROVE  ~SameBinding(binding'[br.n], br.b)
<1> USE DEF UseInv, KeepInv, ReleaseInv
<1>1. /\ br.n \in Names /\ BindingCopy(br.n, br.b) /\ br.b.exists /\ Versioned(br.n, br.b)
  BY DEF BindingReadInv, BindingPassInv, VersionsInv
<1>2. br.b.rv \in Nat /\ binding[br.n].rv \in Nat
  BY <1>1 DEF TypeOK, ClusterTypeOK, BindingTypeOK, Binding
<1>3. CASE binding[br.n].exists /\ binding'[br.n].exists
  <2>1. br.b.rv < binding[br.n].rv
    BY <1>1, <1>2, <1>3 DEF SameBinding, Versioned
  <2>2. br.b.rv # binding'[br.n].rv
    BY <1>1, <1>2, <1>3, <2>1, VersionSteps
  <2> QED BY <2>2 DEF SameBinding
<1>4. CASE ~binding[br.n].exists
  <2>1. ~CreateBinding(br.n)
    BY <1>1 DEF BindingCopy, CreateBinding, Advance
  <2> QED BY <1>1, <1>4, <2>1, VersionSteps DEF SameBinding
<1> QED BY <1>3, <1>4 DEF SameBinding

\* Every step leaves Unknown unreported.
LEMMA UnknownKeep ==
    ASSUME Spared({"claimForced"}),
           TypeOK, UseInv, KeepInv, ReleaseInv, ReasonInv, StartedInv, SoundInv, UnknownInv,
           [Next]_vars
    PROVE  UnknownInv'
<1> USE DEF UseInv, KeepInv, ReleaseInv
<1>1. ASSUME NEW n \in Names
      PROVE  "Unknown" \notin binding'[n].conds
  <2>0. "Unknown" \notin binding[n].conds
    BY DEF UnknownInv
  <2>1. CASE CreateBinding(n)
    <3>1. binding'[n] = [NoBinding EXCEPT !.exists = TRUE, !.rv = 1, !.finalizer = TRUE,
                                          !.owner = decoded[n].owner]
      BY <2>1 DEF CreateBinding, TypeOK, ClusterTypeOK
    <3> QED BY <3>1 DEF NoBinding
  <2>2. CASE BindingTouched(n) \/ BindingRemoved(n)
    BY <2>0, <2>2, WriteFields DEF BindingTouched, BindingRemoved
  <2>3. CASE n = br.n /\ (Adopt \/ UpdateStatus \/ FillPodUID \/ Unfinalize)
    <3>1. br.pc # "idle" /\ SameBinding(binding[br.n], br.b)
      BY <2>3, PassWrites DEF Adopt, UpdateStatus, FillPodUID, Unfinalize
    <3>2. "Unknown" \notin br.b.conds
      BY <3>1 DEF UnknownInv
    <3> QED BY <2>3, <3>2, PassWrites, WriteFields
  <2> QED BY <2>0, <2>1, <2>2, <2>3, BindingSteps
<1>2. \A n \in Names : "Unknown" \notin (SeenBinding(n)').conds
  BY <1>1, BindingSteps DEF SeenBinding, UnknownInv
<1>3. ASSUME br'.pc # "idle", "Unknown" \in br'.b.conds
      PROVE  br'.pc = "status" /\ ~SameBinding(binding'[br'.n], br'.b)
  <2>1. CASE br' = br
    BY <1>3, <2>1, StaleLasts DEF UnknownInv
  <2>2. CASE "Unknown" \in br.b.conds /\ br.pc \in {"pod", "decide", "unfinalize"}
    BY <2>2 DEF UnknownInv
  <2>3. CASE DecideUnknown /\ br'.pc = "status" /\ br'.n = br.n /\ br'.b.rv = br.b.rv
    <3>1. ~SameBinding(binding[br.n], br.b) /\ binding' = binding
      BY <2>3, UnknownIsStale DEF DecideUnknown, SetCondition, SetConditions, clusterVars, stored
    <3> QED BY <2>3, <3>1 DEF SameBinding
  <2>4. ASSUME DecideByJobs, SeenJobs(br.n) # {}
        PROVE  Cardinality(SeenJobs(br.n)) = 1
    <3>1. br.n \in Names
      BY <2>4 DEF DecideByJobs, BindingPassInv
    <3>2. PICK j \in SeenJobs(br.n) : SeenJobs(br.n) = {j}
      BY <2>4, <3>1 DEF SoundInv
    <3> QED BY <3>2, FS_Singleton
  <2>5. ~DecideLost
    BY DEF DecideLost, pvcLost, SoundInv, BindingPassInv
  <2> QED
    BY <1>3, <2>1, <2>2, <2>3, <2>4, <2>5, PassSteps
       DEF UnknownInv, MissPod, FindPod, DecideDelete, FillPodUID, Unfinalize
<1> QED BY <1>1, <1>2, <1>3 DEF UnknownInv

\* ReportInv holds initially.
LEMMA ReportInit == Init => ReportInv
<1> SUFFICES ASSUME Init PROVE ReportInv
  OBVIOUS
<1>1. /\ \A n \in Names : /\ binding[n] = NoBinding /\ SeenBinding(n) = NoBinding
                          /\ pvc[n] = NoClaim /\ SeenPVC(n) = NoClaim
                          /\ job[n] = {} /\ SeenJobs(n) = {}
                          /\ pod[n] = NoPod /\ SeenPod(n) = NoPod
      /\ br.pc = "idle" /\ pr.claim = NoClaim
  BY DEF Init, ClusterInit, BindingInit, PVCInit, IdleBinding, IdlePVC, SeenBinding,
         SeenPVC, SeenJobs, SeenPod
<1>2. NoClaim.phase = "Pending"
  BY DEF NoClaim
<1> QED BY <1>1, <1>2, WriteFields DEF ReportInv, StartedInv, SoundInv, UnknownInv

\* Every step keeps it, with the invariants before it.
LEMMA ReportStep ==
    ASSUME TypeOK, UseInv, KeepInv, ReleaseInv, ReasonInv, ProcessedInv, ReportInv, [Next]_vars
    PROVE  ReportInv'
<1> DEFINE Causes == {"volumeLost", "claimForced", "extraJob", "claimLate"}
<1>1. ASSUME Spared({"claimLate"})'
      PROVE  StartedInv'
  <2>1. Spared({"claimLate"}) /\ ~Fault("claimLate")
    BY <1>1, SparedSteps
  <2> QED BY <2>1, StartedKeep DEF ReportInv, KeepInv
<1>2. ASSUME Spared(Causes)'
      PROVE  SoundInv' /\ UnknownInv'
  <2>1. Spared(Causes) /\ ~Fault("volumeLost") /\ ~Fault("extraJob")
    BY <1>2, SparedSteps
  <2>2. Spared({"claimForced"}) /\ Spared({"extraJob"}) /\ Spared({"claimLate"})
    BY <2>1 DEF Spared
  <2> QED BY <2>1, <2>2, SoundKeep, UnknownKeep DEF ReportInv
<1> QED BY <1>1, <1>2 DEF ReportInv

\* What the passes see of started pods, sound volumes and single jobs, and that
\* none reports Unknown, holds in every state the operator reaches.
THEOREM ReportInvariant == Spec => []ReportInv
<1>1. Init => ReportInv
  BY ReportInit
<1>2. /\ TypeOK /\ UseInv /\ KeepInv /\ ReleaseInv /\ ReasonInv /\ ProcessedInv
      /\ ReportInv /\ [Next]_vars
      => ReportInv'
  BY ReportStep
<1> QED
  BY <1>1, <1>2, TypeCorrect, UseInvariant, KeepInvariant, ReleaseInvariant,
     ReasonInvariant, ProcessedInvariant, PTL DEF Spec

\* The operator reports Unknown only when something is wrong with the cluster.
THEOREM NeverSpuriouslyUnknown == Spec => []NoSpuriousUnknown
<1>1. ReportInv => NoSpuriousUnknown
  BY DEF ReportInv, UnknownInv, NoSpuriousUnknown
<1> QED BY <1>1, ReportInvariant, PTL
=============================================================================
