----------------------- MODULE FinalizationInvariants -----------------------
(***************************************************************************)
(* Why the safety properties of Finalization hold: inductive invariants.   *)
(* The operator acts on copies, a cached object or what a pass has read;   *)
(* the invariants say what is true of every copy, old as it may be,        *)
(* because it can only become true and never false again.                  *)
(***************************************************************************)
EXTENDS Finalization

-----------------------------------------------------------------------------
(* Why NoFinalizationInUse holds: an inductive invariant.                  *)

\* Pods exist only after their admission, and pods of one name one at a time;
\* what a cache shows of a pod is not newer than the pod.
PodsInv ==
    \A n \in Names :
        /\ pod[n] # NoPod \/ SeenPod(n) # NoPod => request[n] = "closed"
        /\ SeenPod(n) \in Completed => PodOver(n)
        /\ \A m \in NamedPods : n \in NamedPods /\ m # n =>
              /\ pod[n] = NoPod \/ pod[m] = NoPod
              /\ SeenPod(n) = NoPod \/ SeenPod(m) = NoPod

\* The operator knows the pod of n: its cache has shown it, and shows it as long
\* as the pod is not over.
Known(n) == SeenPod(n) # NoPod \/ PodOver(n)

\* What any copy b of binding n says of its pod.
Honest(n, b) ==
    /\ b.podUID \in {n, NoUID}
    /\ "Ready" \in b.conds => b.podUID = n
    /\ b.podUID = n => Known(n)
    /\ "OutOfUse" \in b.conds => PodOver(n)

BindingsInv ==
    \A n \in Names : Honest(n, binding[n]) /\ Honest(n, SeenBinding(n))

\* What the binding reconciler has read.
BindingPassInv ==
    br.pc # "idle" =>
        /\ br.n \in Names
        /\ Honest(br.n, br.b)
        /\ br.pc = "decide" =>
              /\ br.found => br.b.podUID = br.n
              /\ br.found /\ br.phase \in Completed => PodOver(br.n)
              /\ ~br.found /\ br.b.podUID = br.n => PodOver(br.n)

\* What the PVC reconciler has read.
PVCPassInv ==
    pr.pc \in {"apply", "create"} => pr.n \in Names /\ PodOver(pr.n)

UseInv ==
    /\ PodsInv /\ BindingsInv /\ BindingPassInv /\ PVCPassInv
    /\ NoFinalizationInUse

-----------------------------------------------------------------------------
(* Why claims are kept and conditions come in their order.                 *)

\* Facts about a name that stay true once they are.

\* The request has got as far as its claim, or has failed.
Claimed(n) == request[n] \notin {"none", "started"}

\* The operator does not hold the claim, and never will again.
GivenUp(n) == Claimed(n) /\ ~Held(n)

\* The PVC reconciler and the binding reconciler see the claim while it is held.
ClaimSeen(n) == Claimed(n) /\ (Held(n) => SeenPVC(n).uid = OwnClaim)

\* The pod has been seen, or there is none any more.
PodSeen(n) == request[n] = "closed" /\ (SeenPod(n) = NoPod => pod[n] = NoPod)

PodGone(n) == request[n] = "closed" /\ pod[n] = NoPod /\ SeenPod(n) = NoPod

\* A completed job has processed the claim, or it is not held any more.
Processed(n) == n \in finalized \/ GivenUp(n)

\* What any copy c of claim n says of it.
ClaimCopy(n, c) ==
    /\ c.exists <=> c.uid # 0
    /\ c.exists => Claimed(n)
    /\ Held(n) /\ c.exists => c.uid = OwnClaim /\ c.finalizer

ClaimsInv ==
    \A n \in Names :
        /\ ClaimCopy(n, pvc[n]) /\ ClaimCopy(n, SeenPVC(n))
        /\ pvc[n].uid = ForeignClaim => ~pvc[n].deleting

\* An hour is long enough to have seen the pod and the claim.
AgedInv == \A n \in Names : n \in aged => PodSeen(n) /\ ClaimSeen(n)

\* What any copy b of binding n says of it, of its claim and of its pod.
BindingCopy(n, b) ==
    /\ InOrder(n, b)
    /\ b.exists => /\ request[n] \in {"bound", "allowed", "closed"}
                   /\ GivenUp(n) \/ (binding[n].exists /\ b.finalizer)
    /\ "Ready" \in b.conds => ClaimSeen(n)
    /\ "PodMissing" \in b.conds => PodGone(n) /\ ClaimSeen(n)
    /\ "FinalizerJobSucceeded" \in b.conds => Processed(n)

CopiesInv ==
    \A n \in Names : BindingCopy(n, binding[n]) /\ BindingCopy(n, SeenBinding(n))

JobsInv ==
    \A n \in Names : \A j \in job[n] \cup SeenJobs(n) :
        IsJobSucceeded(j) => Processed(n)

\* What the binding reconciler has read, and what it has concluded.
BindingReadInv ==
    br.pc # "idle" =>
        /\ br.b.exists /\ BindingCopy(br.n, br.b)
        /\ br.pc = "decide" => IF br.found THEN "PodMissing" \notin br.b.conds
                                          ELSE br.n \in aged => PodGone(br.n)
        /\ br.pc \in {"unfinalize", "delete"} => GivenUp(br.n)

\* What the PVC reconciler has read: the claim is the binding's.
ClaimReadInv ==
    pr.pc # "idle" =>
        /\ pr.n \in Names
        /\ pr.claim.exists /\ pr.claim.uid = OwnClaim
        /\ Claimed(pr.n)
        /\ pr.pc = "delete" => GivenUp(pr.n)

\* The binding is there as long as the claim is held.
BindingKept ==
    \A n \in Names :
        /\ Held(n)
        /\ \/ request[n] \in {"bound", "allowed"}
           \/ request[n] = "closed" /\ "admissionFails" \notin FaultKinds
        => binding[n].exists

KeepInv ==
    /\ ClaimsInv /\ AgedInv /\ CopiesInv /\ JobsInv
    /\ BindingReadInv /\ ClaimReadInv /\ BindingKept

-----------------------------------------------------------------------------
(* Why a claim is only given up when it may be, and reported as it is.     *)

\* Conditions that a binding never loses: the others go with their job.
Lasting == ConditionType \ {"FinalizerJobApplied", "FinalizerJobFailed"}

\* The binding has cond, as long as its claim is held.
Kept(n, cond) == GivenUp(n) \/ (binding[n].exists /\ cond \in binding[n].conds)

\* A copy b of binding n is as old as its version: if that is still the stored
\* one, b has every lasting condition that is stored, so writing it loses none.
Versioned(n, b) ==
    binding[n].exists =>
        /\ b.rv <= binding[n].rv
        /\ b.rv = binding[n].rv => binding[n].conds \cap Lasting \subseteq b.conds

VersionsInv ==
    /\ \A n \in Names :
          /\ binding[n].exists \/ binding[n] = NoBinding
          /\ SeenBinding(n).exists \/ SeenBinding(n) = NoBinding
          /\ Versioned(n, SeenBinding(n))
          /\ \A c \in SeenBinding(n).conds \cap Lasting : Kept(n, c)
    /\ br.pc # "idle" => Versioned(br.n, br.b)
    /\ br.pc = "unfinalize" => br.b.finalizer

\* The conditions the PVC reconciler has read, and what it does because of them.
ReleaseReadInv ==
    pr.pc # "idle" =>
        /\ \A c \in pr.conds \cap Lasting : Kept(pr.n, c)
        /\ pr.pc \in {"apply", "create"} => "OutOfUse" \in pr.conds
        /\ pr.pc = "release" => "PodMissing" \in pr.conds
                                   \/ "FinalizerJobSucceeded" \in pr.conds

ReleaseInv == VersionsInv /\ ReleaseReadInv

\* A claim that was given up had one of the two reasons, and the binding says
\* which; unless it was forced away.
ReasonInv ==
    Spared({"claimForced"}) =>
        \A n \in Names : GivenUp(n) =>
            /\ request[n] # "claimed"
            /\ binding[n].exists => "PodMissing" \in binding[n].conds
                                       \/ "FinalizerJobSucceeded" \in binding[n].conds

\* Only claims that a pod has used are processed; a second Job aside.
ProcessedInv ==
    Spared({"extraJob"}) =>
        \A n \in Names :
            /\ \A j \in job[n] : j.named
            /\ job[n] # {} \/ n \in finalized => Kept(n, "Ready")

\* The claim's job has ended, or the claim is not held any more.
JobEnded(n) ==
    GivenUp(n) \/ (job[n] # {} /\ \A j \in job[n] : j.status # "Active")

\* A job that is seen to have succeeded was the only one, and has ended; so it has
\* when a copy of the binding says that it succeeded.
EndedInv ==
    /\ \A n \in Names :
          /\ \A i, j \in job[n] : i = j
          /\ (\E j \in job[n] \cup SeenJobs(n) : IsJobSucceeded(j)) => JobEnded(n)
          /\ "FinalizerJobSucceeded" \in binding[n].conds \cup SeenBinding(n).conds
                => JobEnded(n)
    /\ br.pc # "idle" /\ "FinalizerJobSucceeded" \in br.b.conds => JobEnded(br.n)
    /\ pr.pc = "release" /\ "FinalizerJobSucceeded" \in pr.conds => JobEnded(pr.n)

\* The binding in the cache, too, has the reason for which a claim was given up.
Reasoned(conds) == "PodMissing" \in conds \/ "FinalizerJobSucceeded" \in conds

ReasonSeenInv ==
    /\ \A n \in Names :
          GivenUp(n) /\ SeenBinding(n).exists => Reasoned(SeenBinding(n).conds)
    /\ pr.pc = "release" /\ SeenBinding(pr.n).exists => Reasoned(SeenBinding(pr.n).conds)

\* Therefore no pass makes a job for a claim that was given up, old as the claim may
\* be that it has read.
NewJobInv ==
    pr.pc \in {"apply", "create"} =>
        Held(pr.n) /\ "FinalizerJobSucceeded" \notin pr.conds

\* Why ForeignClaimUnprocessed holds: no job is left of a claim that was given up.
JobsLeftInv ==
    Spared({"claimForced", "extraJob", "jobReplaced", "jobRemoved"}) =>
        /\ \A n \in Names : GivenUp(n) => \A j \in job[n] : j.status # "Active"
        /\ EndedInv /\ ReasonSeenInv /\ NewJobInv

\* Pods beyond Pending have a claim that the operator has seen, if none is late.
StartedInv ==
    /\ \A n \in Names : {pod[n], SeenPod(n)} \subseteq {"Pending", NoPod} \/ ClaimSeen(n)
    /\ br.pc = "decide" /\ br.found => br.phase = "Pending" \/ ClaimSeen(br.n)

\* Nothing is wrong with volumes and jobs.
SoundInv ==
    /\ pr.claim.phase # "Lost"
    /\ \A n \in Names :
          /\ pvc[n].phase # "Lost" /\ SeenPVC(n).phase # "Lost"
          /\ \A i, j \in job[n] : i = j
          /\ \A i, j \in SeenJobs(n) : i = j

\* Unknown is not reported; a pass that concludes it has read an old binding,
\* which it cannot write.
UnknownInv ==
    /\ \A n \in Names : /\ "Unknown" \notin binding[n].conds
                        /\ "Unknown" \notin SeenBinding(n).conds
    /\ br.pc # "idle" /\ "Unknown" \in br.b.conds =>
          br.pc = "status" /\ ~SameBinding(binding[br.n], br.b)

ReportInv ==
    /\ Spared({"claimLate"}) => StartedInv
    /\ Spared({"volumeLost", "claimForced", "extraJob", "claimLate"}) =>
          SoundInv /\ UnknownInv
=============================================================================
