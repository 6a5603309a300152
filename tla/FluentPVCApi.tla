---------------------------- MODULE FluentPVCApi ----------------------------
(***************************************************************************)
(* The objects the operator works on, reduced to the fields its code       *)
(* reads or writes, and what one write does to an object in the API        *)
(* server.  No variables: the state is in Cluster and in the modules of    *)
(* the webhook and of the reconcilers.                                     *)
(*                                                                         *)
(* Everything is indexed by a NAME: the random name the pod webhook draws  *)
(* for one admission request.  It is the name of the PVC, of the           *)
(* FluentPVCBinding and of the finalizer Job of that request, and here it  *)
(* also stands for the UID of the Pod the request admits.  Draws do not    *)
(* collide (they are 32-bit random numbers hashed with the pod).           *)
(***************************************************************************)
EXTENDS Naturals, FiniteSets

CONSTANTS
    Names,      \* the names the webhook hands out
    NamedPods,  \* those drawn for pods with one fixed name (a StatefulSet's
                \* replica); the other pods get a generated name
    NoUID       \* the empty pod UID the webhook sees

ASSUME NamesAssumption == NamedPods \subseteq Names /\ NoUID \notin Names

(***************************************************************************)
(* A binding's conditions are the set of those that are True: an absent    *)
(* condition and a False one read the same (meta.IsStatusConditionTrue).   *)
(***************************************************************************)
ConditionType ==
    { "Ready", "OutOfUse", "FinalizerJobApplied", "FinalizerJobSucceeded",
      "FinalizerJobFailed", "Unknown", "PodMissing" }

\* FluentPVCBinding: podUID is Spec.Pod.UID, owner the UID of the FluentPVC in
\* the controller reference.  Spec.PVC.UID is the UID of the PVC the webhook
\* has just created, OwnClaim for every binding, so it is not a field.
Binding == [ exists    : BOOLEAN,
             rv        : Nat,
             finalizer : BOOLEAN,
             deleting  : BOOLEAN,
             podUID    : Names \cup {NoUID},
             owner     : Nat,
             conds     : SUBSET ConditionType ]

NoBinding == [ exists |-> FALSE, rv |-> 0, finalizer |-> FALSE,
               deleting |-> FALSE, podUID |-> NoUID, owner |-> 0, conds |-> {} ]

\* PersistentVolumeClaim: finalizer is the operator's own one.
OwnClaim     == 1       \* UID of the claim the webhook created
ForeignClaim == 2       \* UID of a claim somebody else made under that name

Claim == [ exists    : BOOLEAN,
           uid       : {0, OwnClaim, ForeignClaim},
           rv        : Nat,
           finalizer : BOOLEAN,
           deleting  : BOOLEAN,
           phase     : {"Pending", "Bound", "Lost"} ]

NoClaim == [ exists |-> FALSE, uid |-> 0, rv |-> 0, finalizer |-> FALSE,
             deleting |-> FALSE, phase |-> "Pending" ]

\* Jobs whose controller is the binding: named is TRUE for the one that has
\* the binding's name, the name the operator gives to its finalizer Job.
JobStatus == {"Active", "Complete", "Failed"}
Job       == [ named : BOOLEAN, status : JobStatus ]

PodPhase == {"Pending", "Running", "Succeeded", "Failed"}
Completed == {"Succeeded", "Failed"}
NoPod    == "None"

\* FluentPVC: uid tells the re-created object from the deleted one.
FluentPVC == [ exists : BOOLEAN, uid : Nat, rv : Nat,
               finalizer : BOOLEAN, deleting : BOOLEAN ]

(***************************************************************************)
(* Writes.  Update carries the resource version it read, and so do the     *)
(* preconditions of Delete: the API server refuses both when the stored    *)
(* object has another UID or version.  An Update that changes nothing      *)
(* keeps the version.                                                      *)
(***************************************************************************)
SameBinding(stored, read) == stored.exists /\ stored.rv = read.rv

\* Mutant of SameClaim: the UID is not compared.
SameClaimVersion(stored, read) == stored.exists /\ stored.rv = read.rv

SameClaim(stored, read) ==
    stored.exists /\ stored.uid = read.uid /\ stored.rv = read.rv

SameFluentPVC(stored, read) ==
    stored.exists /\ stored.uid = read.uid /\ stored.rv = read.rv

\* The object after an accepted write of new over old.
Stored(old, new) == IF new = old THEN old ELSE [new EXCEPT !.rv = old.rv + 1]

\* The PVC without the operator's finalizer, the binding without its own.
WithoutFinalizer(o) == [o EXCEPT !.finalizer = FALSE]

\* Deletion: an object that has a finalizer is only marked.
Marked(o) == [o EXCEPT !.deleting = TRUE]

(***************************************************************************)
(* Predicates of the Go helpers.                                           *)
(***************************************************************************)
IsBindingPVCByName(claim) == claim.exists       \* mutant of IsBindingPVC: no UID

IsBindingPVC(claim) == claim.exists /\ claim.uid = OwnClaim

IsBindingPod(b, uid) == b.podUID = uid

IsControlledBy(b, fpvc) == b.owner = fpvc.uid

IsJobSucceeded(j) == j.status = "Complete"

IsJobFailed(j) == j.status = "Failed"
=============================================================================
