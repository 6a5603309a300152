----------------------------- MODULE Scheduling -----------------------------
(***************************************************************************)
(* What starts the passes of the PVC reconciler: a work queue, fed by the  *)
(* events of claims and by requeues.  The reconciler watches neither       *)
(* bindings nor jobs, and what it needs to know changes there: a claim     *)
(* that is not requeued is forgotten.  Here a pass starts only for a name  *)
(* that is due, the operator may stop at any time, and what Fairness       *)
(* assumes of the PVC reconciler is a property to be checked.              *)
(*                                                                         *)
(* A work queue holds a name once, takes it up again after its pass when   *)
(* it was added meanwhile, and starves no name; requeues come back after a *)
(* while.  So the names queued, delayed or added again are one set.        *)
(* The binding reconciler needs no queue here: the watcher sends it every  *)
(* binding every 5 s, whatever else there is to do.                        *)
(***************************************************************************)
EXTENDS FinalizationInvariants

VARIABLE claimDue       \* names the PVC reconciler will run for

schedulingVars == <<vars, claimDue>>

SchedulingInit == Init /\ claimDue = {}

\* Mutant of ClaimEvents: updates of the metadata are filtered out, too.
ClaimEventsByPhase ==
    {n \in Names : /\ SeenPVC(n).exists'
                   /\ \/ ~SeenPVC(n).exists
                      \/ SeenPVC(n).phase' # SeenPVC(n).phase}

\* Events, but for those of deletions, which are filtered out.
ClaimEvents ==
    {n \in Names : SeenPVC(n).exists' /\ SeenPVC(n)' # SeenPVC(n)}

\* A step adds the names of its events to what is left in the queue.
Queue(left) == claimDue' = left \cup ClaimEvents

Environment ==
    (ClusterStep \/ MutatorStep \/ BindingStep) /\ Queue(claimDue)

-----------------------------------------------------------------------------
(* Passes.                                                                 *)

TakeClaim(n) ==
    /\ n \in claimDue
    /\ (StartAbandoned(n) \/ StartFinalizing(n)) /\ PVCStep
    /\ Queue(claimDue \ {n})

\* Mutant of Settled: a binding that is not OutOfUse yet is not waited for.
SettledInUse(n) ==
    /\ SeenPVC(n).exists /\ SeenBinding(n).exists
    /\ LET conds == SeenBinding(n).conds
       IN  IsBindingPVC(SeenPVC(n)) =>
              "PodMissing" \notin conds /\ ("Unknown" \in conds \/ "OutOfUse" \notin conds)

\* The claim is not the binding's, or the binding is Unknown: the pass ends.
\* A pass that waits instead is requeued, and changes nothing.
Settled(n) ==
    /\ SeenPVC(n).exists /\ SeenBinding(n).exists
    /\ LET conds == SeenBinding(n).conds
       IN  IsBindingPVC(SeenPVC(n)) => "PodMissing" \notin conds /\ "Unknown" \in conds

DropClaim(n) ==
    /\ n \in claimDue /\ pr.pc = "idle"
    /\ Settled(n)
    /\ claimDue' = claimDue \ {n}
    /\ UNCHANGED vars

\* Mutant of Done: a pass that has created the job is over.
DoneOnceApplied == DeleteReleasedPVC \/ ApplyJob

\* A pass is over for good when the claim is gone or deleted, or after a
\* conflict on the claim of a binding that is PodMissing (the newer version of
\* the claim has an event of its own).
Done ==
    \/ DeleteReleasedPVC
    \/ RefusePVC /\ \/ ~pvc[pr.n].exists
                    \/ pr.pc = "release" /\ "PodMissing" \in pr.conds

\* Every other end is a requeue or an error, which is retried.
WorkClaim ==
    /\ (ContinuePVC \/ AbortPVC) /\ PVCStep
    /\ Queue(IF pr'.pc = "idle" /\ ~Done THEN claimDue \cup {pr.n} ELSE claimDue)

\* Mutant of Restart: the webhook's failurePolicy is ignore, so that a request
\* which is cut off has its pod.
RestartAdmitting ==
    /\ Fault("restart")
    /\ br' = IdleBinding /\ pr' = IdlePVC
    /\ request' = [n \in Names |->
                      IF request[n] \in {"started", "claimed", "bound"}
                      THEN "allowed" ELSE request[n]]
    /\ bindingCache' = binding /\ pvcCache' = pvc /\ jobCache' = job
    /\ podCache' = pod /\ fluentpvcCache' = fluentpvc
    /\ claimDue' = {n \in Names : pvc[n].exists}
    /\ UNCHANGED <<stored, decoded, aged, finalized, ran, fr>>

\* The operator stops and starts again.  Passes, admission requests and the
\* queue are lost; the caches are filled from the API server, and every object
\* found is an event.
Restart ==
    /\ Fault("restart")
    /\ br' = IdleBinding /\ pr' = IdlePVC
    /\ request' = [n \in Names |->
                      IF request[n] \in {"started", "claimed", "bound"}
                      THEN "closed" ELSE request[n]]
    /\ bindingCache' = binding /\ pvcCache' = pvc /\ jobCache' = job
    /\ podCache' = pod /\ fluentpvcCache' = fluentpvc
    /\ claimDue' = {n \in Names : pvc[n].exists}
    /\ UNCHANGED <<stored, decoded, aged, finalized, ran, fr>>

SchedulingNext ==
    \/ Environment \/ WorkClaim \/ Restart
    \/ \E n \in Names : TakeClaim(n) \/ DropClaim(n)

SchedulingSpec == SchedulingInit /\ [][SchedulingNext]_schedulingVars

-----------------------------------------------------------------------------
(* Properties.                                                             *)

\* The PVC reconciler forgets no claim: as long as a claim has the operator's
\* finalizer its name is due or in work, or an event of it is on its way; passes
\* that end without a requeue only leave claims of bindings that are Unknown.
NoClaimForgotten ==
    \A n \in Names :
        (Held(n) /\ "Unknown" \notin binding[n].conds)
            => \/ n \in claimDue
               \/ pr.pc # "idle" /\ pr.n = n
               \/ SeenPVC(n) # pvc[n]

\* An action taken by one of the others, and its events.
ByCluster(A) == A /\ UNCHANGED <<mutatorVars, br, pr, fr>> /\ Queue(claimDue)
ByMutator(A) == A /\ UNCHANGED <<br, pr, fr>> /\ Queue(claimDue)
ByBinding(A) == A /\ UNCHANGED <<mutatorVars, pr, fr>> /\ Queue(claimDue)

\* Fairness, with a queue that hands out every name in place of passes that
\* start again and again.
SchedulingFairness ==
    /\ WF_schedulingVars(ByBinding(ContinueBinding))
    /\ WF_schedulingVars(ContinuePVC /\ WorkClaim)
    /\ \A n \in Names :
          /\ SF_schedulingVars(ByBinding(StartBinding(n)))
          /\ SF_schedulingVars(TakeClaim(n) \/ DropClaim(n))
          /\ WF_schedulingVars(ByMutator(ContinueRequest(n)))
          /\ WF_schedulingVars(ByCluster(SyncBinding(n) \/ SyncPVC(n)))
          /\ WF_schedulingVars(ByCluster(SyncJob(n) \/ SyncPod(n)))
          /\ SF_schedulingVars(ByCluster(HourStep(n)))
          /\ WF_schedulingVars(ByCluster(BindVolume(n) \/ ReapPVC(n)))
          /\ WF_schedulingVars(ByCluster(\E j \in job[n] : FinishJob(n, j) /\ ~pvc[n].deleting))

FairSchedulingSpec == SchedulingSpec /\ SchedulingFairness

\* A pass that has something to do for a claim is started in the end, though
\* nothing tells the reconciler that the binding has changed: the requeues do
\* what Fairness assumes.
PassesKeepStarting ==
    \A n \in Names : SF_vars((StartAbandoned(n) \/ StartFinalizing(n)) /\ PVCStep)

\* A claim whose pod is over is given up in the end, wherever the operator was
\* stopped on the way, and its binding goes (README: delete the PVC when the Job
\* is succeeded).
ClaimsAreGivenUp ==
    \A n \in Names :
        (PodOver(n) /\ binding[n].exists) ~> ~(Held(n) \/ binding[n].exists)

-----------------------------------------------------------------------------
(* Why NoClaimForgotten holds: an inductive invariant together with it and *)
(* those of FinalizationInvariants.                                        *)

\* The cache shows no version of a held claim that is still to come: a change
\* of the claim is an event.
ClaimVersionsInv ==
    \A n \in Names :
        Held(n) /\ SeenPVC(n).exists => SeenPVC(n).rv <= pvc[n].rv

\* A pass that works on an old claim has an event of the newer one to come.
PassDueInv ==
    pr.pc # "idle" /\ Held(pr.n) =>
        pr.claim = SeenPVC(pr.n) \/ pr.n \in claimDue

QueueInv == ClaimVersionsInv /\ PassDueInv

\* A restart takes none of the invariants of Finalization away: what the operator
\* has in memory can be lost at any step.
SafeInv ==
    /\ TypeOK /\ UseInv /\ KeepInv /\ ReleaseInv
    /\ ReasonInv /\ ProcessedInv /\ ReportInv
=============================================================================
