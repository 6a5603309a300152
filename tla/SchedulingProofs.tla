-------------------------- MODULE SchedulingProofs --------------------------
(***************************************************************************)
(* Proofs that the PVC reconciler forgets no claim, though nothing tells   *)
(* it of bindings and jobs, and that a restart of the operator at any step *)
(* takes none of the other safety properties away.                         *)
(***************************************************************************)
EXTENDS Scheduling, ReportProofs

\* A restart ends the admission requests in flight, so where the operator may be
\* restarted an admission may fail.
RestartsFailAdmissions == "restart" \in FaultKinds => "admissionFails" \in FaultKinds

-----------------------------------------------------------------------------
(* Restarts.                                                               *)

\* What a restart leaves: stored objects are as they were, and seen as they are.
LEMMA RestartSteps ==
    ASSUME TypeOK, Restart
    PROVE  /\ UNCHANGED <<stored, decoded, aged, finalized, ran, fr>>
           /\ br'.pc = "idle" /\ pr'.pc = "idle" /\ pr'.claim = NoClaim
           /\ \A n \in Names :
                 /\ SeenBinding(n)' = binding[n] /\ SeenPVC(n)' = pvc[n]
                 /\ SeenJobs(n)' = job[n] /\ SeenPod(n)' = pod[n]
                 /\ IF request[n] \in {"started", "claimed", "bound"}
                    THEN request'[n] = "closed" ELSE request'[n] = request[n]
BY DEF Restart, stored, SeenBinding, SeenPVC, SeenJobs, SeenPod, IdleBinding, IdlePVC

LEMMA RestartTypes ==
    ASSUME TypeOK, Restart
    PROVE  TypeOK'
<1> USE DEF TypeOK
<1>1. ClusterTypeOK'
  BY DEF Restart, Fault, stored, ClusterTypeOK
<1>2. MutatorTypeOK'
  BY DEF Restart, MutatorTypeOK
<1>3. BindingTypeOK'
  BY ConstantTypes DEF Restart, BindingTypeOK, IdleBinding, BindingPC
<1>4. PVCTypeOK'
  BY ConstantTypes DEF Restart, PVCTypeOK, IdlePVC, PVCPC
<1>5. FluentPVCTypeOK'
  BY DEF Restart, FluentPVCTypeOK
<1> QED BY <1>1, <1>2, <1>3, <1>4, <1>5

\* What is true of a name for good stays true when the operator is restarted.
LEMMA RestartFacts ==
    ASSUME TypeOK, PodsInv, Restart, NEW n \in Names
    PROVE  /\ Held(n)' = Held(n)
           /\ Claimed(n) => Claimed(n)'
           /\ GivenUp(n) => GivenUp(n)'
           /\ ClaimSeen(n) => ClaimSeen(n)'
           /\ PodSeen(n) => PodSeen(n)'
           /\ PodGone(n) => PodGone(n)'
           /\ Processed(n) => Processed(n)'
           /\ PodOver(n) => PodOver(n)'
           /\ Known(n) => Known(n)'
<1>1. /\ UNCHANGED <<pvc, pod, finalized>>
      /\ SeenPVC(n)' = pvc[n] /\ SeenPod(n)' = pod[n]
      /\ IF request[n] \in {"started", "claimed", "bound"}
         THEN request'[n] = "closed" ELSE request'[n] = request[n]
  BY RestartSteps DEF stored
<1>2. Held(n)' = Held(n)
  BY <1>1 DEF Held
<1>3. Claimed(n) => Claimed(n)'
  BY <1>1 DEF Claimed
<1>4. PodOver(n) => PodOver(n)'
  BY <1>1 DEF PodOver
<1>5. Known(n) => Known(n)'
  BY <1>1, <1>4 DEF Known, PodOver, PodsInv
<1>6. GivenUp(n) => GivenUp(n)'
  BY <1>2, <1>3 DEF GivenUp
<1>7. ClaimSeen(n) => ClaimSeen(n)'
  BY <1>1, <1>2, <1>3 DEF ClaimSeen, Held
<1>8. Processed(n) => Processed(n)'
  BY <1>1, <1>6 DEF Processed
<1>9. (PodSeen(n) => PodSeen(n)') /\ (PodGone(n) => PodGone(n)')
  BY <1>1 DEF PodSeen, PodGone
<1> QED BY <1>2, <1>3, <1>4, <1>5, <1>6, <1>7, <1>8, <1>9

\* Pods and bindings say as much as before, and no pass has read anything.
LEMMA RestartUse ==
    ASSUME TypeOK, UseInv, Restart
    PROVE  UseInv'
<1> USE DEF UseInv
<1>1. PodsInv'
  BY NamesAssumption, RestartSteps DEF PodsInv, PodOver, stored
<1>2. BindingsInv'
  <2> SUFFICES ASSUME NEW n \in Names
               PROVE  Honest(n, binding[n])' /\ Honest(n, SeenBinding(n))'
    BY DEF BindingsInv
  <2>1. binding' = binding /\ SeenBinding(n)' = binding[n] /\ Honest(n, binding[n])
    BY RestartSteps DEF BindingsInv, stored
  <2> QED BY <2>1, RestartFacts DEF Honest
<1>3. BindingPassInv' /\ PVCPassInv'
  BY RestartSteps DEF BindingPassInv, PVCPassInv
<1>4. NoFinalizationInUse'
  BY RestartSteps, RestartFacts DEF NoFinalizationInUse, stored
<1> QED BY <1>1, <1>2, <1>3, <1>4

\* A copy of a binding says what it said.
LEMMA RestartCopies ==
    ASSUME TypeOK, PodsInv, Restart, NEW n \in Names, NEW b, BindingCopy(n, b)
    PROVE  BindingCopy(n, b)'
<1>1. binding' = binding
  BY RestartSteps DEF stored
<1>2. request[n] \in {"bound", "allowed", "closed"}
         => request'[n] \in {"bound", "allowed", "closed"}
  BY RestartSteps
<1> QED BY <1>1, <1>2, RestartFacts DEF BindingCopy, InOrder

LEMMA RestartKeep ==
    ASSUME RestartsFailAdmissions, TypeOK, UseInv, KeepInv, Restart
    PROVE  KeepInv'
<1> USE DEF UseInv, KeepInv
<1>0. UNCHANGED <<binding, pvc, job, pod, aged>>
  BY RestartSteps DEF stored
<1>1. ClaimsInv'
  <2> SUFFICES ASSUME NEW n \in Names
               PROVE  /\ ClaimCopy(n, pvc[n])' /\ ClaimCopy(n, SeenPVC(n))'
                      /\ pvc'[n].uid = ForeignClaim => ~pvc'[n].deleting
    BY DEF ClaimsInv
  <2> QED BY <1>0, RestartSteps, RestartFacts DEF ClaimsInv, ClaimCopy
<1>2. AgedInv'
  BY <1>0, RestartFacts DEF AgedInv
<1>3. CopiesInv'
  <2> SUFFICES ASSUME NEW n \in Names
               PROVE  BindingCopy(n, binding[n])' /\ BindingCopy(n, SeenBinding(n))'
    BY DEF CopiesInv
  <2>1. /\ BindingCopy(n, binding[n])
        /\ binding'[n] = binding[n] /\ SeenBinding(n)' = binding[n]
    BY <1>0, RestartSteps DEF CopiesInv
  <2>2. PICK b : b = binding[n]
    OBVIOUS
  <2>3. BindingCopy(n, b)'
    BY <2>1, <2>2, RestartCopies
  <2> QED BY <2>1, <2>2, <2>3 DEF BindingCopy, InOrder
<1>4. JobsInv'
  BY <1>0, RestartSteps, RestartFacts DEF JobsInv, IsJobSucceeded
<1>5. BindingReadInv' /\ ClaimReadInv'
  BY RestartSteps DEF BindingReadInv, ClaimReadInv
<1>6. BindingKept'
  <2>1. "admissionFails" \in FaultKinds
    BY DEF Restart, Fault, RestartsFailAdmissions
  <2> QED BY <1>0, <2>1, RestartSteps, RestartFacts DEF BindingKept
<1> QED BY <1>1, <1>2, <1>3, <1>4, <1>5, <1>6

LEMMA RestartRelease ==
    ASSUME TypeOK, UseInv, KeepInv, ReleaseInv, Restart
    PROVE  ReleaseInv'
<1> USE DEF UseInv
<1>0. binding' = binding
  BY RestartSteps DEF stored
<1>1. VersionsInv'
  <2> SUFFICES ASSUME NEW n \in Names
               PROVE  /\ binding[n].exists \/ binding[n] = NoBinding
                      /\ Versioned(n, SeenBinding(n))'
                      /\ \A c \in binding[n].conds \cap Lasting : Kept(n, c)'
    BY <1>0, RestartSteps DEF VersionsInv
  <2>1. binding[n].exists \/ binding[n] = NoBinding
    BY DEF ReleaseInv, VersionsInv
  <2>2. Versioned(n, SeenBinding(n))'
    <3>1. binding[n].rv \in Nat
      BY DEF TypeOK, ClusterTypeOK, Binding
    <3> QED BY <1>0, <3>1, RestartSteps DEF Versioned
  <2>3. \A c \in binding[n].conds \cap Lasting : Kept(n, c)'
    BY <1>0, <2>1, WriteFields DEF Kept, NoBinding
  <2> QED BY <2>1, <2>2, <2>3
<1>2. ReleaseReadInv'
  BY RestartSteps DEF ReleaseReadInv
<1> QED BY <1>1, <1>2 DEF ReleaseInv

\* A request that is cut off has made no binding that could say otherwise.
LEMMA RestartReport ==
    ASSUME TypeOK, UseInv, KeepInv, ReleaseInv, ReasonInv, ProcessedInv, ReportInv, Restart
    PROVE  ReasonInv' /\ ProcessedInv' /\ ReportInv'
<1> USE DEF UseInv
<1>0. UNCHANGED <<binding, pvc, job, pod, finalized>>
  BY RestartSteps DEF stored
<1>sp. ASSUME NEW kinds, Spared(kinds)'
       PROVE  Spared(kinds)
  <2>1. faults' # 0
    BY DEF Restart, Fault, TypeOK, ClusterTypeOK
  <2> QED BY <1>sp, <2>1 DEF Spared
<1>1. ReasonInv'
  <2> SUFFICES ASSUME Spared({"claimForced"})', NEW n \in Names, GivenUp(n)', ~GivenUp(n)
               PROVE  request'[n] # "claimed" /\ ~binding'[n].exists
    BY <1>sp, <1>0, RestartSteps DEF ReasonInv
  <2>1. request[n] \in {"none", "started"}
    BY RestartFacts DEF GivenUp, Claimed
  <2> QED BY <1>0, <2>1, RestartSteps DEF KeepInv, CopiesInv, BindingCopy
<1>2. ProcessedInv'
  <2>1. ASSUME NEW n \in Names, Kept(n, "Ready") PROVE Kept(n, "Ready")'
    BY <1>0, <2>1, RestartFacts DEF Kept
  <2> QED BY <1>sp, <1>0, <2>1 DEF ProcessedInv
<1>3. StartedInv => StartedInv'
  BY <1>0, RestartSteps, RestartFacts DEF StartedInv
<1>4. SoundInv => SoundInv'
  <2>1. NoClaim.phase = "Pending"
    BY DEF NoClaim
  <2> QED BY <1>0, <2>1, RestartSteps DEF SoundInv
<1>5. UnknownInv => UnknownInv'
  BY <1>0, RestartSteps DEF UnknownInv
<1> QED BY <1>sp, <1>1, <1>2, <1>3, <1>4, <1>5 DEF ReportInv

\* Every step but a restart is one of Finalization, or leaves its variables alone.
LEMMA SchedulingSteps ==
    ASSUME [SchedulingNext]_schedulingVars, ~Restart
    PROVE  [Next]_vars
BY DEF SchedulingNext, Environment, WorkClaim, TakeClaim, DropClaim, schedulingVars, Next,
       PVCStep

\* The invariants of Finalization hold through restarts as well.
LEMMA SafeStep ==
    ASSUME RestartsFailAdmissions, SafeInv, [SchedulingNext]_schedulingVars
    PROVE  SafeInv'
<1> USE DEF SafeInv
<1>1. CASE Restart
  BY <1>1, RestartTypes, RestartUse, RestartKeep, RestartRelease, RestartReport
<1>2. CASE ~Restart
  <2>1. [Next]_vars
    BY <1>2, SchedulingSteps
  <2> QED BY <2>1, TypeStep, UseStep, KeepStep, ReleaseStep, ReasonKeep, ProcessedKeep, ReportStep
<1> QED BY <1>1, <1>2

\* A restart of the operator, at any step, breaks none of the invariants: what is in
\* memory is lost, and nothing in memory was needed.
THEOREM RestartsAreSafe ==
    ASSUME RestartsFailAdmissions
    PROVE  SchedulingSpec => []SafeInv
<1>1. SchedulingInit => SafeInv
  BY TypeInit, UseInit, KeepInit, ReleaseInit, ReasonInit, ProcessedInit, ReportInit
     DEF SchedulingInit, SafeInv
<1>2. SafeInv /\ [SchedulingNext]_schedulingVars => SafeInv'
  BY SafeStep
<1> QED BY <1>1, <1>2, PTL DEF SchedulingSpec

\* Nor is a claim given up early because the operator was restarted.
THEOREM RestartsReleaseNothing ==
    ASSUME RestartsFailAdmissions
    PROVE  SchedulingSpec => ReleaseAfterFinalization
<1>1. SafeInv /\ [SchedulingNext]_schedulingVars =>
         [\A n \in Names :
             (Held(n) /\ (~pvc[n].finalizer)' /\ pvc'[n].exists) =>
                 /\ PodOver(n)
                 /\ \/ n \in finalized
                    \/ /\ "PodMissing" \in binding[n].conds
                       /\ "Ready" \notin binding[n].conds]_vars
  <2> SUFFICES ASSUME SafeInv, [SchedulingNext]_schedulingVars,
                      NEW n \in Names, Held(n), ~pvc'[n].finalizer, pvc'[n].exists
               PROVE  /\ PodOver(n)
                      /\ \/ n \in finalized
                         \/ /\ "PodMissing" \in binding[n].conds
                            /\ "Ready" \notin binding[n].conds
    OBVIOUS
  <2>1. ~Restart
    BY RestartSteps DEF SafeInv, Held, stored
  <2> QED BY <2>1, SchedulingSteps, ReleaseDue DEF SafeInv
<1> QED BY <1>1, RestartsAreSafe, PTL DEF SchedulingSpec, ReleaseAfterFinalization

-----------------------------------------------------------------------------
(* The queue.                                                              *)

\* A change of a held claim in the cache is an event.
LEMMA EventsCome ==
    ASSUME TypeOK, ClaimsInv', [Next]_vars, NEW n \in Names,
           Held(n)', SeenPVC(n)' # SeenPVC(n)
    PROVE  SeenPVC(n)' = pvc'[n] /\ n \in ClaimEvents
<1>1. SeenPVC(n)' = pvc'[n]
  BY ClaimSteps DEF SeenPVC
<1>2. pvc'[n].exists
  BY DEF ClaimsInv, ClaimCopy, Held, OwnClaim
<1> QED BY <1>1, <1>2 DEF ClaimEvents

\* What changes of a claim that stays held.
LEMMA HeldChanges ==
    ASSUME TypeOK, ClaimsInv, ClaimReadInv, [Next]_vars, NEW n \in Names, Held(n), Held(n)'
    PROVE  pvc'[n] = pvc[n] \/ ClaimChanged(n)
<1>1. ~CreatePVC(n)
  BY DEF CreatePVC, Advance, ClaimsInv, ClaimCopy, Held, Claimed, OwnClaim
<1>2. ~(RemovePVCFinalizer /\ n = pr.n)
  BY ReleaseWrites DEF Held
<1>3. ~ReapPVC(n) /\ ~ForcePVC(n) /\ ~ReplacePVC(n)
  <2>1. CASE ReapPVC(n) \/ ReplacePVC(n)
    BY <2>1 DEF ReapPVC, ReplacePVC, ClaimsInv, ClaimCopy, Held, OwnClaim
  <2>2. CASE ForcePVC(n)
    BY <2>2, ClaimFields DEF ForcePVC, TypeOK, ClusterTypeOK, Held, OwnClaim
  <2> QED BY <2>1, <2>2
<1> QED BY <1>1, <1>2, <1>3, ClaimSteps

\* A new claim is not in the cache yet.
LEMMA NewClaimUnseen ==
    ASSUME ClaimsInv, NEW n \in Names, CreatePVC(n)
    PROVE  ~SeenPVC(n).exists
BY DEF CreatePVC, Advance, ClaimsInv, ClaimCopy, Claimed

\* Caches of claims do not run ahead.
LEMMA ClaimVersionsKeep ==
    ASSUME TypeOK, TypeOK', ClaimsInv, ClaimsInv', ClaimReadInv, ClaimVersionsInv, [Next]_vars
    PROVE  ClaimVersionsInv'
<1> SUFFICES ASSUME NEW n \in Names, Held(n)', SeenPVC(n)'.exists
             PROVE  SeenPVC(n)'.rv <= pvc'[n].rv
  BY DEF ClaimVersionsInv
<1>0. pvc[n].rv \in Nat /\ pvc'[n].rv \in Nat /\ SeenPVC(n).rv \in Nat
  BY SeenTypes DEF TypeOK, ClusterTypeOK, Claim
<1>1. CASE SeenPVC(n)' # SeenPVC(n)
  BY <1>0, <1>1, EventsCome
<1>2. CASE SeenPVC(n)' = SeenPVC(n)
  <2>1. Held(n)
    BY <1>2, HeldSteps, NewClaimUnseen
  <2>2. SeenPVC(n).rv <= pvc[n].rv
    BY <1>2, <2>1 DEF ClaimVersionsInv
  <2> QED BY <1>0, <1>2, <2>1, <2>2, HeldChanges DEF ClaimChanged
<1> QED BY <1>1, <1>2

\* What a step of a pass leaves of it.
LEMMA PassGoesOn ==
    ASSUME TypeOK, ContinuePVC \/ AbortPVC
    PROVE  /\ pr.pc # "idle"
           /\ pr'.pc # "idle" => /\ pr'.n = pr.n
                                 /\ \/ pr'.claim = pr.claim /\ UNCHANGED <<pvc, pvcCache>>
                                    \/ RemovePVCFinalizer
<1>1. pr \in [ pc : PVCPC, n : Names \cup {NoUID}, claim : Claim, conds : SUBSET ConditionType ]
  BY DEF TypeOK, PVCTypeOK
<1>2. IdlePVC.pc = "idle"
  BY DEF IdlePVC
<1>3. CASE ListJobs
  BY <1>1, <1>2, <1>3 DEF ListJobs, clusterVars, stored, caches
<1>4. CASE ApplyJob
  BY <1>1, <1>2, <1>4 DEF ApplyJob, caches
<1>5. CASE RemovePVCFinalizer
  BY <1>1, <1>5 DEF RemovePVCFinalizer
<1>6. CASE RefuseJob \/ DeleteReleasedPVC \/ RefusePVC \/ AbortPVC
  BY <1>2, <1>6 DEF RefuseJob, DeleteReleasedPVC, RefusePVC, AbortPVC
<1> QED BY <1>3, <1>4, <1>5, <1>6 DEF ContinuePVC

\* Events are queued.
LEMMA EventsAreQueued ==
    ASSUME [SchedulingNext]_schedulingVars, ~Restart, NEW n \in ClaimEvents
    PROVE  n \in claimDue'
<1>1. CASE Environment \/ WorkClaim \/ \E m \in Names : TakeClaim(m)
  BY <1>1 DEF Environment, WorkClaim, TakeClaim, Queue
<1>2. ~UNCHANGED vars
  BY DEF ClaimEvents, SeenPVC, vars, clusterVars, stored, caches
<1> QED BY <1>1, <1>2 DEF SchedulingNext, DropClaim, schedulingVars

\* A pass that has read a claim works on what the cache shows, or its name is due.
LEMMA PassDueKeeps ==
    ASSUME SafeInv, SafeInv', PassDueInv, [Next]_vars,
           [SchedulingNext]_schedulingVars, ~Restart
    PROVE  PassDueInv'
<1> USE DEF SafeInv, KeepInv
<1>0. pr'.pc # "idle" => pr'.n \in Names
  BY DEF ClaimReadInv
<1> SUFFICES ASSUME NEW n \in Names, pr'.n = n, pr'.pc # "idle", Held(n)',
                    SeenPVC(n)' = SeenPVC(n)
             PROVE  pr'.claim = SeenPVC(n) \/ n \in claimDue'
  BY <1>0, EventsCome, EventsAreQueued DEF PassDueInv, Held, SeenPVC
<1>1. CASE pr' = pr
  <2>1. Claimed(n)
    BY <1>1 DEF ClaimReadInv
  <2>2. Held(n)
    BY <2>1, HeldSteps DEF Claimed, CreatePVC, Advance
  <2>3. pr.claim = SeenPVC(n) \/ n \in claimDue
    BY <1>1, <2>2 DEF PassDueInv
  <2>4. CASE Environment \/ WorkClaim \/ UNCHANGED schedulingVars
    BY <1>1, <2>3, <2>4 DEF Environment, WorkClaim, Queue, schedulingVars
  <2>5. ASSUME NEW m \in Names PROVE ~TakeClaim(m) /\ ~DropClaim(m)
    BY <1>1 DEF TakeClaim, DropClaim, StartAbandoned, StartFinalizing
  <2> QED BY <2>4, <2>5 DEF SchedulingNext
<1>2. ASSUME NEW m \in Names, TakeClaim(m)
      PROVE  pr'.claim = SeenPVC(n)
  BY <1>2 DEF TakeClaim, StartAbandoned, StartFinalizing, Read
<1>3. CASE WorkClaim
  <2>1. ~RemovePVCFinalizer
    BY ReleaseWrites DEF Held
  <2>2. pr'.n = pr.n /\ pr'.claim = pr.claim /\ UNCHANGED pvc /\ pr.pc # "idle"
    BY <1>3, <2>1, PassGoesOn DEF WorkClaim
  <2>3. pr.claim = SeenPVC(n) \/ n \in claimDue
    BY <2>2 DEF PassDueInv, Held
  <2> QED BY <1>3, <2>2, <2>3 DEF WorkClaim, Queue
<1>4. CASE Environment \/ (\E m \in Names : DropClaim(m)) \/ UNCHANGED schedulingVars
  BY <1>1, <1>4 DEF Environment, ClusterStep, MutatorStep, BindingStep, DropClaim,
                    schedulingVars, vars
<1> QED BY <1>2, <1>3, <1>4 DEF SchedulingNext

\* A claim that is due stays due until a pass takes it, and is dropped only when
\* its binding is Unknown.
LEMMA DueStays ==
    ASSUME SafeInv, [SchedulingNext]_schedulingVars, ~Restart, NEW n \in claimDue,
           n \in Names, Held(n), "Unknown" \notin binding[n].conds, SeenPVC(n) = pvc[n]
    PROVE  n \in claimDue' \/ (pr'.pc # "idle" /\ pr'.n = n)
<1> USE DEF SafeInv, KeepInv
<1>1. CASE Environment \/ WorkClaim \/ UNCHANGED schedulingVars
  BY <1>1 DEF Environment, WorkClaim, Queue, schedulingVars
<1>2. ASSUME NEW m \in Names, TakeClaim(m)
      PROVE  n \in claimDue' \/ (pr'.pc # "idle" /\ pr'.n = n)
  BY <1>2 DEF TakeClaim, Queue, StartAbandoned, StartFinalizing, Read
<1>3. ASSUME NEW m \in Names, DropClaim(m)
      PROVE  n \in claimDue'
  <2>1. ~Settled(n)
    <3>1. IsBindingPVC(SeenPVC(n))
      BY DEF IsBindingPVC, Held, ClaimsInv, ClaimCopy, OwnClaim
    <3>2. "Unknown" \notin SeenBinding(n).conds
      BY LastingConditions DEF ReleaseInv, VersionsInv, Kept, GivenUp
    <3> QED BY <3>1, <3>2 DEF Settled
  <2> QED BY <1>3, <2>1 DEF DropClaim
<1> QED BY <1>1, <1>2, <1>3 DEF SchedulingNext

\* A pass on a held claim ends with a requeue, unless a newer version of the claim
\* has an event to come.
LEMMA PassStays ==
    ASSUME SafeInv, PassDueInv, [SchedulingNext]_schedulingVars, ~Restart, NEW n \in Names,
           pr.pc # "idle", pr.n = n, n \notin claimDue, Held(n), SeenPVC(n) = pvc[n]
    PROVE  n \in claimDue' \/ (pr'.pc # "idle" /\ pr'.n = n)
<1> USE DEF SafeInv, KeepInv
<1>1. CASE WorkClaim
  <2>1. ~DeleteReleasedPVC
    BY DEF DeleteReleasedPVC, ClaimReadInv, GivenUp
  <2>2. ~RefusePVC
    BY DEF RefusePVC, PassDueInv, SameClaim, ClaimsInv, ClaimCopy, Held, OwnClaim
  <2>3. ~Done
    BY <2>1, <2>2 DEF Done
  <2> QED BY <1>1, <2>3, PassGoesOn DEF WorkClaim, Queue
<1>2. ASSUME NEW m \in Names PROVE ~TakeClaim(m) /\ ~DropClaim(m)
  BY DEF TakeClaim, DropClaim, StartAbandoned, StartFinalizing
<1>3. CASE Environment \/ UNCHANGED schedulingVars
  BY <1>3 DEF Environment, ClusterStep, MutatorStep, BindingStep, schedulingVars, vars
<1> QED BY <1>1, <1>2, <1>3 DEF SchedulingNext

\* No step forgets a claim.
LEMMA NothingForgotten ==
    ASSUME SafeInv, SafeInv', QueueInv, NoClaimForgotten, [Next]_vars,
           [SchedulingNext]_schedulingVars, ~Restart
    PROVE  NoClaimForgotten'
<1> USE DEF SafeInv, KeepInv, QueueInv
<1> SUFFICES ASSUME NEW n \in Names, Held(n)', "Unknown" \notin binding'[n].conds,
                    SeenPVC(n)' = SeenPVC(n), SeenPVC(n) = pvc'[n]
             PROVE  n \in claimDue' \/ (pr'.pc # "idle" /\ pr'.n = n)
  BY EventsCome, EventsAreQueued DEF NoClaimForgotten
<1>1. Held(n)
  <2>1. pvc'[n].exists
    BY DEF ClaimsInv, ClaimCopy, Held, OwnClaim
  <2> QED BY <2>1, HeldSteps, NewClaimUnseen
<1>2. "Unknown" \notin binding[n].conds
  <2> SUFFICES ASSUME "Unknown" \in binding[n].conds PROVE FALSE
    OBVIOUS
  <2>1. Kept(n, "Unknown")
    BY WriteFields DEF Kept, ReleaseInv, VersionsInv, NoBinding
  <2>2. Kept(n, "Unknown")'
    BY <2>1, KeptKeep, LastingConditions DEF UseInv, ReleaseInv
  <2> QED BY <2>2 DEF Kept, GivenUp
<1>3. SeenPVC(n) = pvc[n]
  <2>1. CASE ClaimChanged(n)
    <3>1. SeenPVC(n).exists /\ SeenPVC(n).rv = pvc[n].rv + 1 /\ pvc[n].rv \in Nat
      BY <2>1 DEF ClaimChanged, TypeOK, ClusterTypeOK, Claim
    <3> QED BY <1>1, <3>1 DEF ClaimVersionsInv
  <2> QED BY <1>1, <2>1, HeldChanges
<1> QED BY <1>1, <1>2, <1>3, DueStays, PassStays DEF NoClaimForgotten

\* After a restart every claim is due.
LEMMA RestartQueues ==
    ASSUME SafeInv, SafeInv', Restart
    PROVE  QueueInv' /\ NoClaimForgotten'
<1> USE DEF SafeInv, KeepInv
<1>0. pvc' = pvc /\ pr'.pc = "idle" /\ claimDue' = {n \in Names : pvc[n].exists}
  BY RestartSteps DEF Restart, stored
<1>1. ClaimVersionsInv'
  <2>1. \A n \in Names : pvc[n].rv \in Nat
    BY DEF TypeOK, ClusterTypeOK, Claim
  <2> QED BY <1>0, <2>1, RestartSteps DEF ClaimVersionsInv
<1>2. PassDueInv'
  BY <1>0 DEF PassDueInv
<1>3. NoClaimForgotten'
  BY <1>0 DEF NoClaimForgotten, ClaimsInv, ClaimCopy, Held, OwnClaim
<1> QED BY <1>1, <1>2, <1>3 DEF QueueInv

\* What a pass works on is what the cache shows, or the claim is due again.
THEOREM QueueInvariant ==
    ASSUME RestartsFailAdmissions
    PROVE  SchedulingSpec => []QueueInv
<1>1. SchedulingInit => QueueInv
  BY DEF SchedulingInit, Init, ClusterInit, PVCInit, IdlePVC, QueueInv, ClaimVersionsInv,
         PassDueInv, Held, NoClaim, OwnClaim
<1>2. SafeInv /\ SafeInv' /\ QueueInv /\ [SchedulingNext]_schedulingVars => QueueInv'
  BY RestartQueues, SchedulingSteps, ClaimVersionsKeep, PassDueKeeps
     DEF QueueInv, SafeInv, KeepInv
<1> QED BY <1>1, <1>2, RestartsAreSafe, PTL DEF SchedulingSpec

\* The PVC reconciler forgets no claim, though it watches neither bindings nor jobs
\* and may be restarted at any step.
THEOREM NoClaimIsForgotten ==
    ASSUME RestartsFailAdmissions
    PROVE  SchedulingSpec => []NoClaimForgotten
<1>1. SchedulingInit => NoClaimForgotten
  BY DEF SchedulingInit, Init, ClusterInit, NoClaimForgotten, Held, NoClaim, OwnClaim
<1>2. /\ SafeInv /\ SafeInv' /\ QueueInv /\ NoClaimForgotten
      /\ [SchedulingNext]_schedulingVars
      => NoClaimForgotten'
  BY RestartQueues, SchedulingSteps, NothingForgotten
<1> QED BY <1>1, <1>2, RestartsAreSafe, QueueInvariant, PTL DEF SchedulingSpec
=============================================================================
