---------------------------- MODULE PVCReconciler ----------------------------
(***************************************************************************)
(* pvcReconciler.Reconcile: one worker, one claim at a time.  A pass that  *)
(* waits ends with a requeue after 10 s, one that is done is run again by  *)
(* the next event of the claim or by the 10 h resync: either way it may    *)
(* start again, and a pass that changes nothing is not a step.             *)
(***************************************************************************)
EXTENDS Cluster

VARIABLE pr     \* the reconciler's local variables:
                \*   pc     what it does next, "idle" between passes
                \*   n      the name of the claim and of its binding
                \*   claim  the PVC it has read, conds the binding's conditions

PVCPC == {"idle", "apply", "create", "release", "delete"}

IdlePVC == [ pc |-> "idle", n |-> NoUID, claim |-> NoClaim, conds |-> {} ]

PVCTypeOK ==
    pr \in [ pc : PVCPC, n : Names \cup {NoUID}, claim : Claim,
             conds : SUBSET ConditionType ]

PVCInit == pr = IdlePVC

-----------------------------------------------------------------------------
(* What the conditions of the binding call for.                            *)

Read(n, pc) ==
    [ pc |-> pc, n |-> n, claim |-> SeenPVC(n), conds |-> SeenBinding(n).conds ]

\* Both are found, and the claim is the one the binding is about.
Concerned(n) ==
    /\ SeenPVC(n).exists /\ SeenBinding(n).exists
    /\ IsBindingPVC(SeenPVC(n))

\* Mutant of Finalizing: OutOfUse is not waited for.
FinalizingInUse(conds) == "PodMissing" \notin conds /\ "Unknown" \notin conds

Finalizing(conds) ==
    /\ "PodMissing" \notin conds /\ "Unknown" \notin conds
    /\ "OutOfUse" \in conds

\* Mutant of MayRelease: a job that has not failed is enough.
MayReleaseUnlessFailed(conds) == "FinalizerJobFailed" \notin conds

MayRelease(conds) ==
    /\ "FinalizerJobSucceeded" \in conds
    /\ "FinalizerJobFailed" \notin conds

\* Mutant of StartAbandoned: any binding that is not Ready is given up.
StartUnready(n) ==
    /\ pr.pc = "idle" /\ Concerned(n)
    /\ "Ready" \notin SeenBinding(n).conds
    /\ pr' = Read(n, "release")
    /\ UNCHANGED clusterVars

\* The pod never came: the claim goes without a finalizer job.
StartAbandoned(n) ==
    /\ pr.pc = "idle" /\ Concerned(n)
    /\ "PodMissing" \in SeenBinding(n).conds
    /\ pr' = Read(n, "release")
    /\ UNCHANGED clusterVars

StartFinalizing(n) ==
    /\ pr.pc = "idle" /\ Concerned(n)
    /\ LET conds == SeenBinding(n).conds
       IN  /\ Finalizing(conds)
           /\ IF "FinalizerJobApplied" \in conds
              THEN MayRelease(conds) /\ pr' = Read(n, "release")
              ELSE pr' = Read(n, "apply")
    /\ UNCHANGED clusterVars

-----------------------------------------------------------------------------
(* The finalizer job.                                                      *)

\* The binding says no job is applied: if some is listed nevertheless, wait.
ListJobs ==
    /\ pr.pc = "apply"
    /\ pr' = IF SeenJobs(pr.n) = {} THEN [pr EXCEPT !.pc = "create"] ELSE IdlePVC
    /\ UNCHANGED clusterVars

\* CreateOrUpdate creates the job, the binding its controller.  A job of that
\* name makes it fail: the create as it exists, the update (if the cache has it
\* by now) as the template of a job is immutable.
JobNamed(jobs) == \E j \in jobs : j.named

ApplyJob ==
    /\ pr.pc = "create"
    /\ SeenFluentPVC.exists
    /\ ~JobNamed(SeenJobs(pr.n)) /\ ~JobNamed(job[pr.n])
    /\ job' = [job EXCEPT ![pr.n] = @ \cup {[named |-> TRUE, status |-> "Active"]}]
    /\ pr' = IF MayRelease(pr.conds) THEN [pr EXCEPT !.pc = "release"] ELSE IdlePVC
    /\ UNCHANGED <<binding, pvc, pod, fluentpvc, caches, history>>

RefuseJob ==
    /\ pr.pc = "create"
    /\ ~SeenFluentPVC.exists \/ JobNamed(SeenJobs(pr.n)) \/ JobNamed(job[pr.n])
    /\ pr' = IdlePVC
    /\ UNCHANGED clusterVars

-----------------------------------------------------------------------------
(* The release of the claim.                                               *)

\* The claim stays until the PVC protection controller reaps it, so the update
\* never removes it.
RemovePVCFinalizer ==
    /\ pr.pc = "release"
    /\ SameClaim(pvc[pr.n], pr.claim)
    /\ LET bare == Stored(pr.claim, WithoutFinalizer(pr.claim))
       IN  /\ pvc' = [pvc EXCEPT ![pr.n] = bare]
           /\ pr' = [pr EXCEPT !.pc = "delete", !.claim = bare]
    /\ UNCHANGED <<binding, job, pod, fluentpvc, caches, history>>

DeleteReleasedPVC ==
    /\ pr.pc = "delete"
    /\ SameClaim(pvc[pr.n], pr.claim)
    /\ pvc' = [pvc EXCEPT ![pr.n] = Stored(@, Marked(@))]
    /\ pr' = IdlePVC
    /\ UNCHANGED <<binding, job, pod, fluentpvc, caches, history>>

\* The claim has another version or UID, or is gone.
RefusePVC ==
    /\ pr.pc \in {"release", "delete"}
    /\ ~SameClaim(pvc[pr.n], pr.claim)
    /\ pr' = IdlePVC
    /\ UNCHANGED clusterVars

\* Any call may fail, and the operator may stop, between two steps.
AbortPVC ==
    /\ pr.pc # "idle"
    /\ Fault("pvcPassFails")
    /\ pr' = IdlePVC
    /\ UNCHANGED <<stored, caches, aged, finalized, ran>>

ContinuePVC ==
    \/ ListJobs \/ ApplyJob \/ RefuseJob
    \/ RemovePVCFinalizer \/ DeleteReleasedPVC \/ RefusePVC

PVCNext ==
    \/ \E n \in Names : StartAbandoned(n) \/ StartFinalizing(n)
    \/ ContinuePVC \/ AbortPVC
=============================================================================
