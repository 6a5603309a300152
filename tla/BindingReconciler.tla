-------------------------- MODULE BindingReconciler --------------------------
(***************************************************************************)
(* fluentPVCBindingReconciler.Reconcile: one worker, one binding at a      *)
(* time, each read and each write of the API a step of its own.  It runs   *)
(* for every binding on each tick of the watcher (5 s) and after events of *)
(* the binding and of its jobs.  A pass that changes nothing (an error, or *)
(* an early return) is not a step.                                         *)
(***************************************************************************)
EXTENDS Cluster

VARIABLE br     \* the reconciler's local variables:
                \*   pc     what it does next, "idle" between passes
                \*   n      the binding's name
                \*   b      the binding it has read, with what it set since
                \*   found  podFound;  phase  pod.Status.Phase

BindingPC == {"idle", "adopt", "pod", "decide", "status", "unfinalize", "delete"}

IdleBinding == [ pc |-> "idle", n |-> NoUID, b |-> NoBinding,
                 found |-> FALSE, phase |-> NoPod ]

BindingTypeOK ==
    br \in [ pc : BindingPC, n : Names \cup {NoUID}, b : Binding,
             found : BOOLEAN, phase : PodPhase \cup {NoPod} ]

BindingInit == br = IdleBinding

Has(cond) == cond \in br.b.conds

-----------------------------------------------------------------------------
(* The binding and its FluentPVC.                                          *)

\* Nothing happens without the FluentPVC, nor once the binding is Unknown.
StartBinding(n) ==
    /\ br.pc = "idle"
    /\ SeenBinding(n).exists /\ SeenFluentPVC.exists
    /\ IF IsControlledBy(SeenBinding(n), SeenFluentPVC)
       THEN /\ "Unknown" \notin SeenBinding(n).conds
            /\ br' = [IdleBinding EXCEPT !.pc = "pod", !.n = n, !.b = SeenBinding(n)]
       ELSE br' = [IdleBinding EXCEPT !.pc = "adopt", !.n = n, !.b =
                      [SeenBinding(n) EXCEPT !.owner = SeenFluentPVC.uid]]
    /\ UNCHANGED clusterVars

\* An accepted write of br.b; the reconciler then holds what the server returns.
WriteBinding ==
    /\ SameBinding(binding[br.n], br.b)
    /\ binding' = [binding EXCEPT ![br.n] = Stored(@, br.b)]

\* updateControllerFluentPVC.  The pass ends here.
Adopt ==
    /\ br.pc = "adopt"
    /\ WriteBinding
    /\ br' = IdleBinding
    /\ UNCHANGED <<pvc, job, pod, fluentpvc, caches, history>>

-----------------------------------------------------------------------------
(* fulfillFluentPVCBindingPod.  The lookup is by the fixed name for a      *)
(* NamedPods binding, by the label that carries the binding's name for     *)
(* another (later by its generated name, which no other pod has).  Users   *)
(* leave the pods' labels alone: no two pods have one binding's name in    *)
(* that label ("Illegal number of pods"), and a pod that has the claim has *)
(* the FluentPVC's label, too.                                             *)

PodFor(n) ==
    {m \in Names : /\ m = n \/ {m, n} \subseteq NamedPods
                   /\ SeenPod(m) # NoPod}

\* Not found, or found and not the binding's: its UID differs.
MissPod ==
    /\ br.pc = "pod"
    /\ \/ PodFor(br.n) = {}
       \/ br.b.podUID # NoUID /\ \E m \in PodFor(br.n) : ~IsBindingPod(br.b, m)
    /\ br' = [br EXCEPT !.pc = "decide", !.found = FALSE]
    /\ UNCHANGED clusterVars

FindPod ==
    /\ br.pc = "pod"
    /\ br.b.podUID # NoUID
    /\ \E m \in PodFor(br.n) :
          /\ IsBindingPod(br.b, m)
          /\ br' = [br EXCEPT !.pc = "decide", !.found = TRUE, !.phase = SeenPod(m)]
    /\ UNCHANGED clusterVars

\* Mutant of PodHasPVC: any pod of the name will do.
AnyPodHasPVC(m, n) == TRUE

\* The volume of pod m has the claim of binding n: the webhook put it there.
PodHasPVC(m, n) == m = n

\* Mutant of FillPodUID: SetPod is forgotten.
FillNothing ==
    /\ br.pc = "pod"
    /\ br.b.podUID = NoUID
    /\ \E m \in PodFor(br.n) :
          /\ PodHasPVC(m, br.n)
          /\ br' = [br EXCEPT !.pc = "decide", !.found = TRUE, !.phase = SeenPod(m)]
    /\ UNCHANGED clusterVars

\* fillPodUID.  The first pod found is the target, if it mounts the claim (and has
\* its label); a pod that does not is an error.  The pass goes on with the updated
\* binding.
FillPodUID ==
    /\ br.pc = "pod"
    /\ br.b.podUID = NoUID
    /\ \E m \in PodFor(br.n) :
          /\ PodHasPVC(m, br.n)
          /\ SameBinding(binding[br.n], br.b)
          /\ LET filled == Stored(br.b, [br.b EXCEPT !.podUID = m])
             IN  /\ binding' = [binding EXCEPT ![br.n] = filled]
                 /\ br' = [br EXCEPT !.pc = "decide", !.b = filled,
                                     !.found = TRUE, !.phase = SeenPod(m)]
    /\ UNCHANGED <<pvc, job, pod, fluentpvc, caches, history>>

-----------------------------------------------------------------------------
(* The decision.  Every action below reads the PVC; its guard excludes the *)
(* cases that return earlier.                                              *)

pvcFound == IsBindingPVC(SeenPVC(br.n))
pvcLost  == pvcFound /\ SeenPVC(br.n).phase = "Lost"

WaitingEvenIfReady == ~br.found     \* mutant of Waiting: Ready is not looked at

Orphaned == ~pvcFound /\ Has("PodMissing")
Waiting  == ~br.found /\ ~Has("Ready")

Early == Orphaned \/ pvcLost \/ Has("FinalizerJobSucceeded") \/ Waiting

SetConditions(conds) ==
    /\ br' = [br EXCEPT !.pc = "status", !.b.conds = conds]
    /\ UNCHANGED clusterVars

SetCondition(cond) == SetConditions(br.b.conds \cup {cond})

Skip == br' = IdleBinding /\ UNCHANGED clusterVars

DecideLost ==
    /\ br.pc = "decide" /\ pvcLost
    /\ SetCondition("Unknown")

\* Mutant of DecideDelete: the claim's finalizer is not looked at.
DeleteUnreleased ==
    /\ br.pc = "decide"
    /\ Orphaned \/ (~pvcLost /\ Has("FinalizerJobSucceeded"))
    /\ br' = [br EXCEPT !.pc = IF br.b.finalizer THEN "unfinalize" ELSE "delete"]
    /\ UNCHANGED clusterVars

\* The binding goes when its claim is gone after PodMissing, or when the claim
\* no longer has the operator's finalizer after the finalizer job succeeded.
DecideDelete ==
    /\ br.pc = "decide"
    /\ \/ Orphaned
       \/ /\ ~pvcLost /\ Has("FinalizerJobSucceeded")
          /\ ~(pvcFound /\ SeenPVC(br.n).finalizer)
    /\ br' = [br EXCEPT !.pc = IF br.b.finalizer THEN "unfinalize" ELSE "delete"]
    /\ UNCHANGED clusterVars

DecidePodMissing ==
    /\ br.pc = "decide"
    /\ Waiting /\ ~(Orphaned \/ pvcLost \/ Has("FinalizerJobSucceeded"))
    /\ br.n \in aged
    /\ SetCondition("PodMissing")

\* Mutant of DecideUnknown: a pod that is still pending is not excepted.
UnknownWhilePending ==
    /\ br.pc = "decide" /\ ~Early /\ ~pvcFound
    /\ SetCondition("Unknown")

DecideUnknown ==
    /\ br.pc = "decide" /\ ~Early /\ ~pvcFound
    /\ ~br.found \/ br.phase # "Pending"
    /\ SetCondition("Unknown")

DecideReady ==
    /\ br.pc = "decide" /\ ~Early /\ pvcFound
    /\ br.found /\ ~Has("Ready")
    /\ SetCondition("Ready")

\* Mutant of podDone: a pod that does not run is done.
podDoneUnlessRunning == ~br.found \/ (Has("Ready") /\ br.phase # "Running")

podDone == ~br.found \/ (Has("Ready") /\ br.phase \in Completed)

DecideOutOfUse ==
    /\ br.pc = "decide" /\ ~Early /\ pvcFound
    /\ podDone /\ ~Has("OutOfUse")
    /\ SetCondition("OutOfUse")

\* Mutants of JobConditions: the condition is misspelt; no job is not told from
\* several; FinalizerJobApplied is not taken back when the job is gone.
JobConditionsMisspelt(conds, jobs) ==
    conds \cup {"FinalizerJobFound"}

JobConditionsOneOrUnknown(conds, jobs) ==
    IF Cardinality(jobs) # 1 THEN conds \cup {"Unknown"}
    ELSE conds \cup {"FinalizerJobApplied"}

JobConditionsKept(conds, jobs) ==
    IF jobs = {} THEN conds
    ELSE conds \cup {"FinalizerJobApplied"}
               \cup {c \in {"FinalizerJobSucceeded"} : \E j \in jobs : IsJobSucceeded(j)}

\* updateConditionByFinalizerJobStatus.
JobConditions(conds, jobs) ==
    IF jobs = {} THEN conds \ {"FinalizerJobApplied", "FinalizerJobFailed"}
    ELSE IF Cardinality(jobs) # 1 THEN conds \cup {"Unknown"}
    ELSE conds \cup {"FinalizerJobApplied"}
               \cup {c \in {"FinalizerJobSucceeded"} : \E j \in jobs : IsJobSucceeded(j)}
               \cup {c \in {"FinalizerJobFailed"} : \E j \in jobs : IsJobFailed(j)}

DecideByJobs ==
    /\ br.pc = "decide" /\ ~Early /\ pvcFound
    /\ podDone /\ Has("OutOfUse")
    /\ SetConditions(JobConditions(br.b.conds, SeenJobs(br.n)))

\* The cases that only log.
DecideNothing ==
    /\ br.pc = "decide"
    /\ \/ /\ Has("FinalizerJobSucceeded") /\ ~pvcLost
          /\ pvcFound /\ SeenPVC(br.n).finalizer
       \/ /\ Waiting /\ ~(Orphaned \/ pvcLost \/ Has("FinalizerJobSucceeded"))
          /\ br.n \notin aged
       \/ /\ ~Early /\ ~pvcFound /\ br.found /\ br.phase = "Pending"
       \/ /\ ~Early /\ pvcFound /\ Has("Ready") /\ ~podDone
    /\ Skip

-----------------------------------------------------------------------------
(* The writes a decision leads to.                                         *)

UpdateStatus ==
    /\ br.pc = "status"
    /\ WriteBinding
    /\ br' = IdleBinding
    /\ UNCHANGED <<pvc, job, pod, fluentpvc, caches, history>>

\* deleteFluentPVCBinding, first call: the server removes a binding that was
\* being deleted with its last finalizer.
Unfinalize ==
    /\ br.pc = "unfinalize"
    /\ SameBinding(binding[br.n], br.b)
    /\ LET bare == Stored(br.b, WithoutFinalizer(br.b))
       IN  /\ binding' = [binding EXCEPT ![br.n] =
                             IF bare.deleting THEN NoBinding ELSE bare]
           /\ br' = [br EXCEPT !.pc = "delete", !.b = bare]
    /\ UNCHANGED <<pvc, job, pod, fluentpvc, caches, history>>

\* Second call, with the preconditions of deleteOptionsBackground.
DeleteBoundBinding ==
    /\ br.pc = "delete"
    /\ SameBinding(binding[br.n], br.b)
    /\ binding' = [binding EXCEPT ![br.n] =
                      IF @.finalizer THEN Stored(@, Marked(@)) ELSE NoBinding]
    /\ br' = IdleBinding
    /\ UNCHANGED <<pvc, job, pod, fluentpvc, caches, history>>

\* A write is refused: the binding has another version, or is gone.  The pass
\* ends with an error, or (gone while deleting) with nothing left to do.
RefuseBinding ==
    /\ br.pc \in {"adopt", "pod", "status", "unfinalize", "delete"}
    /\ ~SameBinding(binding[br.n], br.b)
    /\ br.pc = "pod" => br.b.podUID = NoUID /\ br.n \in PodFor(br.n)
    /\ Skip

\* fillPodUID finds that the pod of this name does not mount the claim.
ForeignPod ==
    /\ br.pc = "pod" /\ br.b.podUID = NoUID
    /\ \E m \in PodFor(br.n) : ~PodHasPVC(m, br.n)
    /\ Skip

\* Any call may fail, and the operator may stop, between two steps.
AbortBinding ==
    /\ br.pc # "idle"
    /\ Fault("bindingPassFails")
    /\ br' = IdleBinding
    /\ UNCHANGED <<stored, caches, aged, finalized, ran>>

Decide ==
    \/ DecideLost \/ DecideDelete \/ DecidePodMissing \/ DecideUnknown
    \/ DecideReady \/ DecideOutOfUse \/ DecideByJobs \/ DecideNothing

ContinueBinding ==
    \/ Adopt \/ MissPod \/ FindPod \/ FillPodUID \/ Decide \/ UpdateStatus
    \/ Unfinalize \/ DeleteBoundBinding \/ RefuseBinding \/ ForeignPod

BindingNext ==
    \/ \E n \in Names : StartBinding(n)
    \/ ContinueBinding \/ AbortBinding
=============================================================================
