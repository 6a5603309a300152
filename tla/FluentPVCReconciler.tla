------------------------ MODULE FluentPVCReconciler ------------------------
(***************************************************************************)
(* fluentPVCReconciler.Reconcile: keeps a finalizer on the FluentPVC while *)
(* a binding that names it as its controller has one.                      *)
(***************************************************************************)
EXTENDS Cluster

VARIABLE fr     \* the reconciler's local variables: pc, and the FluentPVC it
                \* has read, with the finalizer it wants

IdleFluentPVC == [ pc |-> "idle", fpvc |-> FirstFluentPVC ]

FluentPVCTypeOK == fr \in [ pc : {"idle", "update"}, fpvc : FluentPVC ]

FluentPVCInit == fr = IdleFluentPVC

\* The bindings are found by the name of their controller, not by its UID.
AllBindingsFinalized ==
    \A n \in Names : ~(SeenBinding(n).exists /\ SeenBinding(n).finalizer)

\* Mutant of StartFluentPVC: an object that is being deleted is left alone.
StartLiveFluentPVC ==
    /\ fr.pc = "idle" /\ SeenFluentPVC.exists /\ ~SeenFluentPVC.deleting
    /\ SeenFluentPVC.finalizer = AllBindingsFinalized
    /\ fr' = [pc |-> "update",
              fpvc |-> [SeenFluentPVC EXCEPT !.finalizer = ~AllBindingsFinalized]]
    /\ UNCHANGED clusterVars

StartFluentPVC ==
    /\ fr.pc = "idle" /\ SeenFluentPVC.exists
    /\ SeenFluentPVC.finalizer = AllBindingsFinalized     \* else nothing to write
    /\ fr' = [pc |-> "update",
              fpvc |-> [SeenFluentPVC EXCEPT !.finalizer = ~AllBindingsFinalized]]
    /\ UNCHANGED clusterVars

\* The server removes an object that was being deleted with its last finalizer,
\* and puts no finalizer on an object that is being deleted.
UpdateFluentPVC ==
    /\ fr.pc = "update"
    /\ SameFluentPVC(fluentpvc, fr.fpvc)
    /\ fluentpvc' = IF ~fr.fpvc.deleting THEN Stored(fluentpvc, fr.fpvc)
                    ELSE IF fr.fpvc.finalizer THEN fluentpvc
                    ELSE [fluentpvc EXCEPT !.exists = FALSE]
    /\ fr' = IdleFluentPVC
    /\ UNCHANGED <<binding, pvc, job, pod, caches, history>>

RefuseFluentPVC ==
    /\ fr.pc = "update"
    /\ ~SameFluentPVC(fluentpvc, fr.fpvc)
    /\ fr' = IdleFluentPVC
    /\ UNCHANGED clusterVars

AbortFluentPVC ==
    /\ fr.pc # "idle"
    /\ Fault("fluentPVCPassFails")
    /\ fr' = IdleFluentPVC
    /\ UNCHANGED <<stored, caches, aged, finalized, ran>>

FluentPVCNext ==
    StartFluentPVC \/ UpdateFluentPVC \/ RefuseFluentPVC \/ AbortFluentPVC
=============================================================================
