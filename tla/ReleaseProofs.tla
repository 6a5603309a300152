--------------------------- MODULE ReleaseProofs ---------------------------
(***************************************************************************)
(* Proofs that a claim is given up only when it may be, and that Unknown   *)
(* is reported only for a cause, for every set of names, every choice of   *)
(* lagging informers and every number of adverse events.                   *)
(***************************************************************************)
EXTENDS ClaimProofs, FiniteSetTheorems

-----------------------------------------------------------------------------
(* Versions of bindings, and the conditions a binding keeps.               *)

\* The lasting conditions, and that the state of the jobs takes none back.
LEMMA LastingConditions ==
    /\ Lasting \subseteq ConditionType
    /\ {"Ready", "OutOfUse", "PodMissing", "FinalizerJobSucceeded", "Unknown"} \subseteq Lasting
    /\ \A conds, jobs : conds \cap Lasting \subseteq JobConditions(conds, jobs)
BY DEF Lasting, ConditionType, JobConditions

\* What a write returns: a new version, unless it changes nothing.
LEMMA WriteVersions ==
    /\ \A old, new \in Binding :
          Stored(old, new) = old \/ Stored(old, new).rv = old.rv + 1
    /\ \A b \in Binding : WithoutFinalizer(b).rv = b.rv
<1>1. ASSUME NEW old \in Binding, NEW new \in Binding
      PROVE  Stored(old, new) = old \/ Stored(old, new).rv = old.rv + 1
  BY DEF Stored, Binding
<1>2. ASSUME NEW b \in Binding
      PROVE  WithoutFinalizer(b).rv = b.rv
  BY DEF WithoutFinalizer, Binding
<1> QED BY <1>1, <1>2

\* What a pass leaves: its copy is the new version, or it changed nothing.
LEMMA PassVersions ==
    ASSUME TypeOK, BindingPassInv, BindingReadInv, VersionsInv,
           Adopt \/ UpdateStatus \/ FillPodUID \/ Unfinalize
    PROVE  /\ \/ binding'[br.n] = NoBinding
              \/ binding'[br.n] = binding[br.n]
              \/ binding'[br.n].rv = binding[br.n].rv + 1
           /\ FillPodUID \/ Unfinalize => /\ br'.n = br.n
                                          /\ \/ br'.b = binding'[br.n]
                                             \/ binding'[br.n] = NoBinding
           /\ Adopt \/ UpdateStatus => br'.pc = "idle"
<1> USE DEF TypeOK, ClusterTypeOK, BindingTypeOK
<1>0. /\ br.b \in Binding /\ br.n \in Names
      /\ binding \in [Names -> Binding] /\ binding[br.n] \in Binding
  BY PassWrites
<1>1. CASE Adopt \/ UpdateStatus
  <2>1. binding'[br.n] = Stored(binding[br.n], br.b) /\ br' = IdleBinding
    BY <1>0, <1>1 DEF Adopt, UpdateStatus, WriteBinding
  <2>2. ~FillPodUID /\ ~Unfinalize
    BY <1>1 DEF Adopt, UpdateStatus, FillPodUID, Unfinalize
  <2> QED BY <1>0, <2>1, <2>2, WriteVersions DEF IdleBinding
<1>2. CASE FillPodUID
  <2>1. PICK m \in PodFor(br.n) :
            /\ PodHasPVC(m, br.n) /\ br.pc = "pod"
            /\ SameBinding(binding[br.n], br.b)
            /\ binding' = [binding EXCEPT ![br.n] =
                              Stored(br.b, [br.b EXCEPT !.podUID = m])]
            /\ br' = [br EXCEPT !.pc = "decide",
                                !.b = Stored(br.b, [br.b EXCEPT !.podUID = m]),
                                !.found = TRUE, !.phase = SeenPod(m)]
    BY <1>2 DEF FillPodUID
  <2>2. m = br.n
    BY <2>1 DEF PodHasPVC
  <2> DEFINE w == [br.b EXCEPT !.podUID = br.n]
  <2>3. w \in Binding
    BY <1>0, WriteFields
  <2>4. /\ binding'[br.n] = Stored(br.b, w)
        /\ br'.b = Stored(br.b, w) /\ br'.n = br.n
    BY <1>0, <2>1, <2>2
  <2> HIDE DEF w
  <2>5. Stored(br.b, w) = br.b \/ Stored(br.b, w).rv = br.b.rv + 1
    BY <1>0, <2>3, WriteVersions
  <2>6. CASE Stored(br.b, w) = br.b
    <3>1. w = br.b
      BY <1>0, <2>3, <2>6 DEF Stored, Binding
    <3>2. br.b.podUID = br.n
      BY <1>0, <3>1 DEF w, Binding
    <3>3. br.b.podUID = NoUID
      BY <1>2 DEF FillPodUID
    <3> QED BY <1>0, <3>2, <3>3, NamesAssumption
  <2>7. CASE Stored(br.b, w).rv = br.b.rv + 1
    <3>1. br.b.rv = binding[br.n].rv
      BY <2>1 DEF SameBinding
    <3> QED BY <1>2, <2>1, <2>4, <2>7, <3>1 DEF Adopt, UpdateStatus
  <2> QED BY <2>5, <2>6, <2>7
<1>3. CASE Unfinalize
  <2> DEFINE bare == Stored(br.b, WithoutFinalizer(br.b))
  <2>1. /\ SameBinding(binding[br.n], br.b) /\ br.pc = "unfinalize"
        /\ \/ binding' = [binding EXCEPT ![br.n] = NoBinding]
           \/ binding' = [binding EXCEPT ![br.n] = bare]
        /\ br' = [br EXCEPT !.pc = "delete", !.b = bare]
    BY <1>3 DEF Unfinalize
  <2>2. /\ br'.b = bare /\ br'.n = br.n
        /\ binding'[br.n] = NoBinding \/ binding'[br.n] = bare
    BY <1>0, <2>1
  <2>3. bare.rv = br.b.rv + 1
    <3>1. WithoutFinalizer(br.b) # br.b
      BY <1>0, <2>1, WriteFields DEF VersionsInv
    <3>2. WithoutFinalizer(br.b) \in Binding
      BY <1>0, WriteTypes
    <3> QED BY <1>0, <3>1, <3>2 DEF Stored, Binding
  <2> QED BY <1>3, <2>1, <2>2, <2>3 DEF Adopt, UpdateStatus, SameBinding
<1> QED BY <1>1, <1>2, <1>3

\* A binding changes only to a new version, which has all the lasting conditions
\* of the old one; it is made once, and gone when it is removed.
LEMMA VersionSteps ==
    ASSUME TypeOK, BindingPassInv, CopiesInv, BindingReadInv, VersionsInv, [Next]_vars,
           NEW n \in Names
    PROVE  /\ binding'[n].exists \/ binding'[n] = NoBinding
           /\ binding[n].exists /\ binding'[n].exists =>
                 /\ binding'[n] = binding[n] \/ binding'[n].rv = binding[n].rv + 1
                 /\ binding[n].conds \cap Lasting \subseteq binding'[n].conds
           /\ ~binding[n].exists /\ binding'[n].exists =>
                 /\ CreateBinding(n)
                 /\ binding'[n].rv = 1 /\ binding'[n].conds = {}
<1>1. CASE binding'[n] = binding[n]
  BY <1>1 DEF VersionsInv
<1>2. CASE CreateBinding(n)
  <2>1. binding'[n] = [NoBinding EXCEPT !.exists = TRUE, !.rv = 1, !.finalizer = TRUE,
                                        !.owner = decoded[n].owner]
    BY <1>2 DEF CreateBinding, TypeOK, ClusterTypeOK
  <2>2. binding'[n].exists /\ binding'[n].rv = 1 /\ binding'[n].conds = {}
    BY <2>1 DEF NoBinding
  <2>3. request[n] = "claimed"
    BY <1>2 DEF CreateBinding, Advance
  <2>4. ~binding[n].exists
    BY <2>3 DEF CopiesInv, BindingCopy
  <2> QED BY <1>2, <2>2, <2>4
<1>3. CASE BindingTouched(n)
  BY <1>3 DEF BindingTouched
<1>4. CASE BindingRemoved(n)
  BY <1>4, WriteFields DEF BindingRemoved
<1>5. CASE n = br.n /\ (Adopt \/ UpdateStatus \/ FillPodUID \/ Unfinalize)
  <2>1. binding[n].exists /\ binding[n].rv = br.b.rv /\ br.pc # "idle"
    BY <1>5, PassWrites DEF SameBinding, Adopt, UpdateStatus, FillPodUID, Unfinalize
  <2>2. binding[n].conds \cap Lasting \subseteq br.b.conds
    BY <1>5, <2>1 DEF VersionsInv, Versioned
  <2> QED BY <1>5, <2>1, <2>2, PassWrites, PassVersions, WriteFields
<1> QED BY <1>1, <1>2, <1>3, <1>4, <1>5, BindingSteps

\* A lasting condition stays as long as the claim is held.
LEMMA KeptKeep ==
    ASSUME TypeOK, PodsInv, BindingPassInv, CopiesInv, BindingReadInv, VersionsInv,
           [Next]_vars, NEW n \in Names, NEW c \in Lasting, Kept(n, c)
    PROVE  Kept(n, c)'
<1>1. CASE GivenUp(n)
  BY <1>1, FactsLast DEF Kept
<1>2. CASE binding[n].exists /\ c \in binding[n].conds
  BY <1>2, BindingStays, VersionSteps DEF Kept
<1> QED BY <1>1, <1>2 DEF Kept

\* A copy stays as old as its version.
LEMMA VersionedKeep ==
    ASSUME TypeOK, BindingPassInv, CopiesInv, BindingReadInv, VersionsInv, [Next]_vars,
           NEW n \in Names, NEW b \in Binding, BindingCopy(n, b), Versioned(n, b),
           b.exists \/ b = NoBinding
    PROVE  Versioned(n, b)'
<1> SUFFICES ASSUME binding'[n].exists
             PROVE  /\ b.rv <= binding'[n].rv
                    /\ b.rv = binding'[n].rv => binding'[n].conds \cap Lasting \subseteq b.conds
  BY DEF Versioned
<1>0. binding[n].rv \in Nat /\ b.rv \in Nat
  BY DEF TypeOK, ClusterTypeOK, Binding
<1>1. CASE binding[n].exists
  BY <1>0, <1>1, VersionSteps DEF Versioned
<1>2. CASE ~binding[n].exists
  <2>1. /\ CreateBinding(n) /\ binding'[n].rv = 1 /\ binding'[n].conds = {}
        /\ request[n] = "claimed"
    BY <1>2, VersionSteps DEF CreateBinding, Advance
  <2>2. b = NoBinding
    BY <2>1 DEF BindingCopy
  <2> QED BY <1>0, <2>1, <2>2, WriteFields
<1> QED BY <1>1, <1>2

\* A pass of the binding reconciler reads a binding, keeps what it has read, sets
\* conditions on it, or writes it.
LEMMA PassSteps ==
    ASSUME TypeOK, [Next]_vars
    PROVE  \/ br' = br
           \/ br'.pc = "idle"
           \/ \E n \in Names : /\ StartBinding(n)
                               /\ br'.n = n /\ br'.pc \in {"pod", "adopt"}
                               /\ br'.b.rv = SeenBinding(n).rv
                               /\ br'.b.conds = SeenBinding(n).conds
           \/ /\ MissPod \/ FindPod \/ DecideDelete
              /\ br'.n = br.n /\ br'.b = br.b
              /\ br'.pc # "status"
              /\ br'.pc = "unfinalize" => br.b.finalizer
           \/ /\ Decide
              /\ br.pc = "decide" /\ br'.pc = "status" /\ br'.n = br.n
              /\ br'.b.rv = br.b.rv
              /\ br.b.conds \cap Lasting \subseteq br'.b.conds
              /\ "Unknown" \in br'.b.conds => \/ "Unknown" \in br.b.conds
                                              \/ DecideLost \/ DecideUnknown
                                              \/ DecideByJobs /\ Cardinality(SeenJobs(br.n)) # 1
                                                              /\ SeenJobs(br.n) # {}
              /\ "FinalizerJobSucceeded" \in br'.b.conds =>
                    \/ "FinalizerJobSucceeded" \in br.b.conds
                    \/ \E j \in SeenJobs(br.n) : IsJobSucceeded(j)
           \/ FillPodUID /\ br'.pc = "decide" /\ br'.b.conds = br.b.conds
           \/ Unfinalize /\ br'.pc = "delete" /\ br'.b.conds = br.b.conds
<1>0. /\ br.b \in Binding
      /\ br \in [ pc : BindingPC, n : Names \cup {NoUID}, b : Binding,
                  found : BOOLEAN, phase : PodPhase \cup {NoPod} ]
  BY DEF TypeOK, BindingTypeOK
<1>1. CASE br' = br
  BY <1>1
<1>2. CASE br' = IdleBinding
  BY <1>2 DEF IdleBinding
<1>3. ASSUME NEW n \in Names, StartBinding(n)
      PROVE  /\ br'.n = n /\ br'.pc \in {"pod", "adopt"}
             /\ br'.b.rv = SeenBinding(n).rv
             /\ br'.b.conds = SeenBinding(n).conds
  <2>1. SeenBinding(n) \in Binding /\ SeenFluentPVC.uid \in Nat
    BY <1>3, SeenTypes DEF TypeOK, FluentPVC
  <2>2. /\ br'.n = n /\ br'.pc \in {"pod", "adopt"}
        /\ \/ br'.b = SeenBinding(n)
           \/ br'.b = [SeenBinding(n) EXCEPT !.owner = SeenFluentPVC.uid]
    BY <1>3 DEF StartBinding, IdleBinding
  <2> DEFINE w == [SeenBinding(n) EXCEPT !.owner = SeenFluentPVC.uid]
  <2>3. w.rv = SeenBinding(n).rv /\ w.conds = SeenBinding(n).conds
    BY <2>1, WriteFields
  <2>4. br'.b = SeenBinding(n) \/ br'.b = w
    BY <2>2
  <2> HIDE DEF w
  <2> QED BY <2>2, <2>3, <2>4
<1>4. CASE MissPod \/ FindPod
  <2>1. br'.n = br.n /\ br'.b = br.b /\ br'.pc = "decide"
    BY <1>0, <1>4 DEF MissPod, FindPod
  <2> QED BY <1>4, <2>1
<1>5. CASE DecideDelete
  <2>1. br' = [br EXCEPT !.pc = IF br.b.finalizer THEN "unfinalize" ELSE "delete"]
    BY <1>5 DEF DecideDelete
  <2>2. /\ br'.n = br.n /\ br'.b = br.b
        /\ br'.pc = IF br.b.finalizer THEN "unfinalize" ELSE "delete"
    BY <1>0, <2>1
  <2> QED BY <1>5, <2>2
<1>6. CASE DecideNothing
  BY <1>2, <1>6 DEF DecideNothing, Skip
<1>7. ASSUME NEW conds \in SUBSET ConditionType, SetConditions(conds), br.pc = "decide",
             br.b.conds \cap Lasting \subseteq conds
      PROVE  /\ br.pc = "decide" /\ br'.pc = "status" /\ br'.n = br.n
             /\ br'.b.rv = br.b.rv /\ br'.b.conds = conds
             /\ br.b.conds \cap Lasting \subseteq br'.b.conds
  <2>1. br' = [br EXCEPT !.pc = "status", !.b = [br.b EXCEPT !.conds = conds]]
    BY <1>7 DEF SetConditions
  <2>2. br'.n = br.n /\ br'.pc = "status" /\ br'.b = [br.b EXCEPT !.conds = conds]
    BY <1>0, <2>1
  <2>3. br'.b.rv = br.b.rv /\ br'.b.conds = conds
    BY <1>0, <1>7, <2>2, WriteFields
  <2> QED BY <1>7, <2>2, <2>3
<1>8. /\ br.b.conds \in SUBSET ConditionType
      /\ \A c \in ConditionType : br.b.conds \cup {c} \in SUBSET ConditionType
      /\ JobConditions(br.b.conds, SeenJobs(br.n)) \in SUBSET ConditionType
  BY <1>0 DEF Binding, JobConditions, ConditionType
<1>9. CASE DecideLost \/ DecideUnknown
  <2>1. SetConditions(br.b.conds \cup {"Unknown"}) /\ br.pc = "decide"
    BY <1>9 DEF DecideLost, DecideUnknown, SetCondition
  <2> QED BY <1>7, <1>8, <1>9, <2>1 DEF Decide, ConditionType
<1>10. CASE DecidePodMissing \/ DecideReady \/ DecideOutOfUse
  <2>1. PICK c \in {"PodMissing", "Ready", "OutOfUse"} :
            SetConditions(br.b.conds \cup {c}) /\ br.pc = "decide"
    BY <1>10 DEF DecidePodMissing, DecideReady, DecideOutOfUse, SetCondition
  <2>2. br.b.conds \cup {c} \in SUBSET ConditionType
    BY <1>8, <2>1 DEF ConditionType
  <2> QED BY <1>7, <1>10, <2>1, <2>2 DEF Decide
<1>11. CASE DecideByJobs
  <2>1. SetConditions(JobConditions(br.b.conds, SeenJobs(br.n))) /\ br.pc = "decide"
    BY <1>11 DEF DecideByJobs
  <2>2. /\ br.pc = "decide" /\ br'.pc = "status" /\ br'.n = br.n
        /\ br'.b.rv = br.b.rv /\ br'.b.conds = JobConditions(br.b.conds, SeenJobs(br.n))
        /\ br.b.conds \cap Lasting \subseteq br'.b.conds
    BY <1>7, <1>8, <2>1, LastingConditions
  <2>3. "Unknown" \in br'.b.conds =>
            \/ "Unknown" \in br.b.conds
            \/ Cardinality(SeenJobs(br.n)) # 1 /\ SeenJobs(br.n) # {}
    BY <2>2 DEF JobConditions
  <2>4. "FinalizerJobSucceeded" \in br'.b.conds =>
            \/ "FinalizerJobSucceeded" \in br.b.conds
            \/ \E j \in SeenJobs(br.n) : IsJobSucceeded(j)
    BY <2>2 DEF JobConditions
  <2> QED BY <1>11, <2>2, <2>3, <2>4 DEF Decide
<1>12. CASE FillPodUID
  <2>1. PICK m \in PodFor(br.n) :
            br' = [br EXCEPT !.pc = "decide", !.b = Stored(br.b, [br.b EXCEPT !.podUID = m]),
                             !.found = TRUE, !.phase = SeenPod(m)]
    BY <1>12 DEF FillPodUID
  <2> DEFINE w == [br.b EXCEPT !.podUID = m]
  <2>2. w \in Binding /\ w.conds = br.b.conds
    BY <1>0, <2>1, WriteFields DEF PodFor
  <2>3. br'.pc = "decide" /\ br'.b = Stored(br.b, w)
    BY <1>0, <2>1
  <2> HIDE DEF w
  <2> QED BY <1>0, <1>12, <2>2, <2>3, WriteFields
<1>13. CASE Unfinalize
  <2>1. br'.pc = "delete" /\ br'.b = Stored(br.b, WithoutFinalizer(br.b))
    BY <1>0, <1>13 DEF Unfinalize
  <2>2. WithoutFinalizer(br.b) \in Binding /\ WithoutFinalizer(br.b).conds = br.b.conds
    BY <1>0, WriteTypes, WriteFields
  <2> QED BY <1>0, <1>13, <2>1, <2>2, WriteFields
<1>14. CASE Adopt \/ UpdateStatus \/ DeleteBoundBinding \/ RefuseBinding \/ ForeignPod
            \/ AbortBinding
  BY <1>2, <1>14 DEF Adopt, UpdateStatus, DeleteBoundBinding, RefuseBinding, ForeignPod,
                     AbortBinding, Skip
<1>15. CASE BindingNext
  <2>1. CASE \E n \in Names : StartBinding(n)
    BY <1>3, <2>1
  <2>2. CASE Decide
    BY <2>2, <1>5, <1>6, <1>9, <1>10, <1>11 DEF Decide
  <2> QED BY <1>4, <1>12, <1>13, <1>14, <1>15, <2>1, <2>2 DEF BindingNext, ContinueBinding
<1> QED
  BY <1>1, <1>15 DEF Next, ClusterStep, MutatorStep, BindingStep, PVCStep, FluentPVCStep, vars

\* Every step leaves versions and lasting conditions in order.
LEMMA VersionsKeep ==
    ASSUME TypeOK, UseInv, CopiesInv, BindingReadInv, VersionsInv, [Next]_vars
    PROVE  VersionsInv'
<1> USE DEF UseInv
<1>0. /\ br \in [ pc : BindingPC, n : Names \cup {NoUID}, b : Binding,
                  found : BOOLEAN, phase : PodPhase \cup {NoPod} ]
      /\ br.pc # "idle" => /\ br.n \in Names /\ BindingCopy(br.n, br.b) /\ br.b.exists
                           /\ Versioned(br.n, br.b)
  BY DEF TypeOK, BindingTypeOK, BindingPassInv, BindingReadInv, VersionsInv
<1>1. ASSUME NEW n \in Names
      PROVE  /\ binding'[n].exists \/ binding'[n] = NoBinding
             /\ SeenBinding(n)'.exists \/ SeenBinding(n)' = NoBinding
             /\ Versioned(n, SeenBinding(n))'
             /\ \A c \in (SeenBinding(n)').conds \cap Lasting : Kept(n, c)'
  <2>1. binding'[n].exists \/ binding'[n] = NoBinding
    BY VersionSteps
  <2>2. binding'[n].rv \in Nat /\ binding[n].rv \in Nat /\ SeenBinding(n) \in Binding
    <3>1. TypeOK'
      BY TypeStep
    <3> QED BY <3>1, SeenTypes DEF TypeOK, ClusterTypeOK, Binding
  <2>3. CASE SeenBinding(n)' = binding'[n]
    BY <2>1, <2>2, <2>3, WriteFields DEF Versioned, Kept
  <2>4. CASE SeenBinding(n)' = SeenBinding(n)
    <3>1. PICK b \in Binding : b = SeenBinding(n)
      BY <2>2
    <3>2. BindingCopy(n, b) /\ Versioned(n, b) /\ (b.exists \/ b = NoBinding)
      BY <3>1 DEF CopiesInv, VersionsInv
    <3>3. Versioned(n, b)'
      BY <3>2, VersionedKeep
    <3>4. \A c \in b.conds \cap Lasting : Kept(n, c)'
      BY <3>1, KeptKeep DEF VersionsInv
    <3> QED BY <2>1, <2>4, <3>1, <3>2, <3>3, <3>4 DEF Versioned
  <2> QED BY <2>1, <2>3, <2>4, BindingSteps DEF SeenBinding
<1>2. br'.pc # "idle" => Versioned(br.n, br.b)'
  <2>1. CASE br' = br
    BY <1>0, <2>1, VersionedKeep DEF Versioned
  <2>2. ASSUME NEW n \in Names, br'.n = n, br'.b.rv = SeenBinding(n).rv,
               br'.b.conds = SeenBinding(n).conds, StartBinding(n)
        PROVE  Versioned(br.n, br.b)'
    <3>1. Versioned(n, SeenBinding(n)) /\ binding' = binding
      BY <2>2 DEF VersionsInv, StartBinding, clusterVars, stored
    <3> QED BY <2>2, <3>1 DEF Versioned
  <2>3. ASSUME br.pc # "idle", br'.n = br.n, br'.b.rv = br.b.rv, binding' = binding,
               br.b.conds \cap Lasting \subseteq br'.b.conds
        PROVE  Versioned(br.n, br.b)'
    BY <1>0, <2>3 DEF Versioned
  <2>4. CASE (MissPod \/ FindPod \/ DecideDelete) /\ br'.n = br.n /\ br'.b = br.b
    BY <2>3, <2>4 DEF MissPod, FindPod, DecideDelete, clusterVars, stored
  <2>5. CASE Decide /\ br.pc = "decide" /\ br'.n = br.n /\ br'.b.rv = br.b.rv
             /\ br.b.conds \cap Lasting \subseteq br'.b.conds
    <3>1. binding' = binding
      BY <2>5 DEF Decide, DecideLost, DecideDelete, DecidePodMissing, DecideUnknown,
                  DecideReady, DecideOutOfUse, DecideByJobs, DecideNothing, SetCondition,
                  SetConditions, Skip, clusterVars, stored
    <3> QED BY <2>3, <2>5, <3>1
  <2>6. CASE FillPodUID \/ Unfinalize
    <3>1. TypeOK'
      BY TypeStep
    <3>2. br'.b.rv \in Nat
      BY <3>1 DEF TypeOK, BindingTypeOK, Binding
    <3> QED BY <2>6, <3>2, PassVersions, WriteFields DEF Versioned
  <2> QED BY <2>1, <2>2, <2>4, <2>5, <2>6, PassSteps
<1>3. br'.pc = "unfinalize" => br'.b.finalizer
  BY PassSteps DEF VersionsInv
<1> QED BY <1>1, <1>2, <1>3 DEF VersionsInv

-----------------------------------------------------------------------------
(* The pass that gives a claim up.                                         *)

\* What the PVC reconciler has read of the binding holds until it is done.
LEMMA ReleaseReadKeeps ==
    ASSUME TypeOK, PodsInv, BindingPassInv, CopiesInv, BindingReadInv, ClaimReadInv,
           VersionsInv, ReleaseReadInv, [Next]_vars
    PROVE  ReleaseReadInv'
<1>0. pr \in [ pc : PVCPC, n : Names \cup {NoUID}, claim : Claim, conds : SUBSET ConditionType ]
  BY DEF TypeOK, PVCTypeOK
<1>1. ASSUME pr'.pc # "idle", pr'.n \in Names,
             \A c \in pr'.conds \cap Lasting : Kept(pr'.n, c),
             pr'.pc \in {"apply", "create"} => "OutOfUse" \in pr'.conds,
             pr'.pc = "release" => "PodMissing" \in pr'.conds
                                      \/ "FinalizerJobSucceeded" \in pr'.conds
      PROVE  ReleaseReadInv'
  BY <1>1, KeptKeep DEF ReleaseReadInv
<1>2. CASE pr' = pr
  BY <1>1, <1>2 DEF ReleaseReadInv, ClaimReadInv
<1>3. CASE pr' = IdlePVC
  BY <1>3 DEF ReleaseReadInv, IdlePVC
<1>4. ASSUME NEW n \in Names, StartAbandoned(n) \/ StartFinalizing(n)
      PROVE  ReleaseReadInv'
  <2>1. /\ pr'.n = n /\ pr'.conds = SeenBinding(n).conds
        /\ pr'.pc \in {"apply", "release"}
        /\ pr'.pc = "apply" => "OutOfUse" \in pr'.conds
        /\ pr'.pc = "release" => "PodMissing" \in pr'.conds
                                    \/ "FinalizerJobSucceeded" \in pr'.conds
    BY <1>4 DEF StartAbandoned, StartFinalizing, Read, Finalizing, MayRelease
  <2> QED BY <1>1, <2>1 DEF VersionsInv
<1>5. ASSUME NEW pc \in PVCPC, pr.pc # "idle", pr'.pc = pc, pr'.n = pr.n, pr'.conds = pr.conds,
             pc \in {"apply", "create"} => pr.pc = "apply",
             pc = "release" => "FinalizerJobSucceeded" \in pr.conds
      PROVE  ReleaseReadInv'
  BY <1>1, <1>5 DEF ReleaseReadInv, ClaimReadInv, PVCPC
<1>6. CASE ListJobs \/ ApplyJob
  <2>1. \/ pr' = IdlePVC
        \/ pr.pc = "apply" /\ pr' = [pr EXCEPT !.pc = "create"]
        \/ pr.pc = "create" /\ pr' = [pr EXCEPT !.pc = "release"]
             /\ "FinalizerJobSucceeded" \in pr.conds
    BY <1>6 DEF ListJobs, ApplyJob, MayRelease
  <2>2. CASE pr.pc = "apply" /\ pr' = [pr EXCEPT !.pc = "create"]
    BY <1>0, <1>5, <2>2 DEF PVCPC
  <2>3. CASE pr.pc = "create" /\ pr' = [pr EXCEPT !.pc = "release"]
             /\ "FinalizerJobSucceeded" \in pr.conds
    BY <1>0, <1>5, <2>3 DEF PVCPC
  <2> QED BY <1>3, <2>1, <2>2, <2>3
<1>7. CASE RemovePVCFinalizer
  BY <1>5, <1>7, ReleaseWrites DEF PVCPC
<1>8. CASE PVCNext
  BY <1>3, <1>4, <1>6, <1>7, <1>8
     DEF PVCNext, ContinuePVC, RefuseJob, DeleteReleasedPVC, RefusePVC, AbortPVC
<1> QED
  BY <1>2, <1>8 DEF Next, ClusterStep, MutatorStep, BindingStep, PVCStep, FluentPVCStep, vars

\* ReleaseInv holds initially.
LEMMA ReleaseInit == Init => ReleaseInv
<1> SUFFICES ASSUME Init PROVE ReleaseInv
  OBVIOUS
<1>1. /\ \A n \in Names : binding[n] = NoBinding /\ SeenBinding(n) = NoBinding
      /\ br.pc = "idle" /\ pr.pc = "idle"
  BY DEF Init, ClusterInit, BindingInit, PVCInit, IdleBinding, IdlePVC, SeenBinding
<1> QED BY <1>1, WriteFields DEF ReleaseInv, VersionsInv, ReleaseReadInv, Versioned

\* Every step keeps it, with the invariants before it.
LEMMA ReleaseStep ==
    ASSUME TypeOK, UseInv, KeepInv, ReleaseInv, [Next]_vars
    PROVE  ReleaseInv'
BY VersionsKeep, ReleaseReadKeeps DEF KeepInv, UseInv, ReleaseInv

\* ReleaseInv holds in every state the operator reaches.
THEOREM ReleaseInvariant == Spec => []ReleaseInv
<1>1. Init => ReleaseInv
  BY ReleaseInit
<1>2. TypeOK /\ UseInv /\ KeepInv /\ ReleaseInv /\ [Next]_vars => ReleaseInv'
  BY ReleaseStep
<1> QED BY <1>1, <1>2, TypeCorrect, UseInvariant, KeepInvariant, PTL DEF Spec

\* A claim is given up for a reason: its pod is over, and either a finalizer job
\* has completed on it or it was never bound to its pod.
LEMMA ReleaseReason ==
    ASSUME TypeOK, UseInv, KeepInv, ReleaseInv, RemovePVCFinalizer, Held(pr.n)
    PROVE  /\ pr.n \in Names /\ PodOver(pr.n) /\ binding[pr.n].exists
           /\ \/ pr.n \in finalized /\ "FinalizerJobSucceeded" \in binding[pr.n].conds
              \/ "PodMissing" \in binding[pr.n].conds /\ "Ready" \notin binding[pr.n].conds
<1>1. /\ pr.n \in Names /\ BindingCopy(pr.n, binding[pr.n]) /\ Honest(pr.n, binding[pr.n])
      /\ ~GivenUp(pr.n)
  BY DEF KeepInv, UseInv, ClaimReadInv, CopiesInv, BindingsInv, RemovePVCFinalizer, GivenUp
<1>2. /\ \A c \in pr.conds \cap Lasting : binding[pr.n].exists /\ c \in binding[pr.n].conds
      /\ "PodMissing" \in pr.conds \/ "FinalizerJobSucceeded" \in pr.conds
  BY <1>1 DEF ReleaseInv, ReleaseReadInv, Kept, RemovePVCFinalizer
<1>3. CASE "PodMissing" \in pr.conds
  BY <1>1, <1>2, <1>3, LastingConditions DEF BindingCopy, PodGone, PodOver, InOrder
<1>4. CASE "FinalizerJobSucceeded" \in pr.conds
  BY <1>1, <1>2, <1>4, LastingConditions DEF BindingCopy, InOrder, Honest, Processed
<1> QED BY <1>2, <1>3, <1>4

\* The step by which a claim is given up has its reason.
LEMMA ReleaseDue ==
    ASSUME TypeOK, UseInv, KeepInv, ReleaseInv, [Next]_vars,
           NEW n \in Names, Held(n), ~pvc'[n].finalizer, pvc'[n].exists
    PROVE  /\ PodOver(n)
           /\ \/ n \in finalized
              \/ "PodMissing" \in binding[n].conds /\ "Ready" \notin binding[n].conds
<1>1. ~CreatePVC(n)
  BY DEF CreatePVC, Advance, KeepInv, ClaimsInv, ClaimCopy, Held, Claimed, OwnClaim
<1>2. ~ReapPVC(n) /\ ~ForcePVC(n) /\ ~ReplacePVC(n)
  <2>1. CASE ReapPVC(n) \/ ForcePVC(n)
    BY <2>1, ClaimFields DEF ReapPVC, ForcePVC, TypeOK, ClusterTypeOK
  <2>2. CASE ReplacePVC(n)
    BY <2>2 DEF ReplacePVC, KeepInv, ClaimsInv, ClaimCopy, Held, OwnClaim
  <2> QED BY <2>1, <2>2
<1>3. RemovePVCFinalizer /\ n = pr.n
  BY <1>1, <1>2, ClaimSteps DEF ClaimChanged, Held
<1> QED BY <1>3, ReleaseReason

\* The operator gives a claim up only when its pod is over, and only after a
\* finalizer job completed on it or, for a pod never bound, after PodMissing.
THEOREM ReleasedAfterFinalization == Spec => ReleaseAfterFinalization
<1>1. TypeOK /\ UseInv /\ KeepInv /\ ReleaseInv /\ [Next]_vars =>
         [\A n \in Names :
             (Held(n) /\ (~pvc[n].finalizer)' /\ pvc'[n].exists) =>
                 /\ PodOver(n)
                 /\ \/ n \in finalized
                    \/ /\ "PodMissing" \in binding[n].conds
                       /\ "Ready" \notin binding[n].conds]_vars
  BY ReleaseDue
<1> QED
  BY <1>1, TypeCorrect, UseInvariant, KeepInvariant, ReleaseInvariant, PTL
     DEF Spec, ReleaseAfterFinalization

-----------------------------------------------------------------------------
(* What a claim that was given up, and one that was processed, have seen.  *)

\* Adverse events are counted, and one at a time.
LEMMA FaultSteps ==
    ASSUME [Next]_vars
    PROVE  faults' = faults \/ faults' = faults + 1
<1> USE DEF stored, caches, history, clusterVars, mutatorVars
<1>1. CASE ClusterStep
  <2>1. CASE \E n \in Names :
                 \/ HourStep(n) \/ SyncBinding(n) \/ SyncPVC(n) \/ SyncJob(n) \/ SyncPod(n)
                 \/ BindVolume(n) \/ ReapPVC(n) \/ CollectJobs(n) \/ CollectBinding(n)
    BY <2>1 DEF HourStep, HourPasses, SyncBinding, SyncPVC, SyncJob, SyncPod, BindVolume,
                ReapPVC, CollectJobs, CollectBinding
  <2>2. CASE \E n \in Names : StartPod(n) \/ CompletePod(n) \/ FailPod(n) \/ RemovePod(n)
    BY <2>2 DEF StartPod, CompletePod, FailPod, ClaimInTime, Fault, RemovePod
  <2>3. CASE \E n \in Names :
                 \/ LoseVolume(n) \/ TouchPVC(n) \/ DeletePVC(n) \/ ForcePVC(n)
                 \/ ReplacePVC(n) \/ DeleteBinding(n) \/ AddJob(n)
    BY <2>3 DEF LoseVolume, TouchPVC, DeletePVC, ForcePVC, ReplacePVC, DeleteBinding,
                AddJob, Fault
  <2>4. CASE \E n \in Names : \E j \in job[n] :
                 FinishJob(n, j) \/ FailJob(n, j) \/ ReplaceJob(n, j) \/ RemoveJob(n, j)
    BY <2>4 DEF FinishJob, FailJob, ReplaceJob, RemoveJob, Fault
  <2>5. CASE SyncFluentPVC \/ DeleteFluentPVC \/ RecreateFluentPVC
    BY <2>5 DEF SyncFluentPVC, DeleteFluentPVC, RecreateFluentPVC, Fault
  <2> QED BY <1>1, <2>1, <2>2, <2>3, <2>4, <2>5 DEF ClusterStep, ClusterNext
<1>2. CASE MutatorStep
  BY <1>2 DEF MutatorStep, MutatorNext, ContinueRequest, ReceivePod, CreatePVC,
              CreateBinding, SetPhasePending, PersistPod, RejectPod, FailRequest, Fault
<1>3. CASE BindingStep
  BY <1>3 DEF BindingStep, BindingNext, ContinueBinding, Decide, StartBinding, Adopt,
              MissPod, FindPod, FillPodUID, DecideLost, DecideDelete, DecidePodMissing,
              DecideUnknown, DecideReady, DecideOutOfUse, DecideByJobs, DecideNothing,
              SetCondition, SetConditions, Skip, UpdateStatus, Unfinalize,
              DeleteBoundBinding, RefuseBinding, ForeignPod, AbortBinding, Fault
<1>4. CASE PVCStep
  BY <1>4 DEF PVCStep, PVCNext, ContinuePVC, StartAbandoned, StartFinalizing, ListJobs,
              ApplyJob, RefuseJob, RemovePVCFinalizer, DeleteReleasedPVC, RefusePVC,
              AbortPVC, Fault
<1>5. CASE FluentPVCStep
  BY <1>5 DEF FluentPVCStep, FluentPVCNext, StartFluentPVC, UpdateFluentPVC,
              RefuseFluentPVC, AbortFluentPVC, Fault
<1>6. CASE UNCHANGED vars
  BY <1>6 DEF vars
<1> QED BY <1>1, <1>2, <1>3, <1>4, <1>5, <1>6 DEF Next

\* Who is spared after a step was spared before it, and in it.
LEMMA SparedSteps ==
    ASSUME TypeOK, [Next]_vars, NEW kinds, Spared(kinds)'
    PROVE  Spared(kinds) /\ \A kind \in kinds : ~Fault(kind)
<1>1. faults \in Nat
  BY DEF TypeOK, ClusterTypeOK
<1>2. Spared(kinds)
  BY <1>1, FaultSteps DEF Spared
<1>3. \A kind \in kinds : ~Fault(kind)
  BY <1>1 DEF Spared, Fault
<1> QED BY <1>2, <1>3

\* Every step that gives a claim up leaves the reason on its binding.
LEMMA ReasonKeep ==
    ASSUME TypeOK, UseInv, KeepInv, ReleaseInv, ReasonInv, [Next]_vars
    PROVE  ReasonInv'
<1> USE DEF UseInv, KeepInv, ReleaseInv
<1> DEFINE Reason(n) == \/ "PodMissing" \in binding[n].conds
                        \/ "FinalizerJobSucceeded" \in binding[n].conds
<1> SUFFICES ASSUME Spared({"claimForced"})', NEW n \in Names, GivenUp(n)'
             PROVE  request'[n] # "claimed" /\ (binding'[n].exists => Reason(n)')
  BY DEF ReasonInv
<1>sp. Spared({"claimForced"}) /\ ~Fault("claimForced")
  BY SparedSteps
<1>0. /\ request \in [Names -> {"none", "started", "claimed", "bound", "allowed", "closed"}]
      /\ BindingCopy(n, binding[n]) /\ ClaimCopy(n, pvc[n])
  BY DEF TypeOK, MutatorTypeOK, CopiesInv, ClaimsInv
<1>1. /\ request'[n] = "claimed" => request[n] = "claimed" \/ CreatePVC(n)
      /\ ~Claimed(n) => CreatePVC(n) \/ request'[n] = "closed"
    <2>1. CASE request'[n] = request[n]
      BY <2>1 DEF GivenUp, Claimed
    <2>2. CASE ReceivePod(n)
      BY <1>0, <2>2 DEF ReceivePod, Advance, GivenUp, Claimed
    <2>3. CASE ContinueRequest(n)
      BY <1>0, <2>3 DEF ContinueRequest, CreateBinding, SetPhasePending, PersistPod,
                        RejectPod, FailRequest, Advance, Claimed
    <2> QED BY <2>1, <2>2, <2>3, RequestSteps
<1>2. CreatePVC(n) => ~GivenUp(n)'
  <2> SUFFICES ASSUME CreatePVC(n) PROVE Held(n)'
    BY DEF GivenUp
  <2>1. pvc'[n] = [NoClaim EXCEPT !.exists = TRUE, !.rv = 1, !.uid = OwnClaim,
                                  !.finalizer = TRUE]
    BY DEF CreatePVC, TypeOK, ClusterTypeOK
  <2> QED BY <2>1 DEF NoClaim, Held
<1>3. CASE GivenUp(n)
  <2>1. request[n] # "claimed" /\ (binding[n].exists => Reason(n))
    BY <1>sp, <1>3 DEF ReasonInv
  <2>2. binding'[n].exists => binding[n].exists
    BY <2>1, VersionSteps DEF CreateBinding, Advance
  <2> QED BY <1>1, <1>2, <2>1, <2>2, VersionSteps, LastingConditions
<1>4. CASE ~Claimed(n)
  <2>1. request'[n] = "closed" /\ request[n] \in {"none", "started"}
    BY <1>1, <1>2, <1>4 DEF Claimed
  <2>2. ~binding'[n].exists
    BY <1>0, <2>1, VersionSteps DEF BindingCopy, CreateBinding, Advance
  <2> QED BY <2>1, <2>2
<1>5. CASE Claimed(n) /\ Held(n)
  <2>1. ~CreatePVC(n) /\ ~ReapPVC(n) /\ ~ForcePVC(n) /\ ~ReplacePVC(n)
    BY <1>sp, <1>0, <1>5 DEF CreatePVC, Advance, Claimed, ReapPVC, ForcePVC, ReplacePVC,
                      Held, ClaimCopy, OwnClaim
  <2>2. RemovePVCFinalizer /\ n = pr.n
    BY <1>5, <2>1, ClaimSteps DEF ClaimChanged, Held, GivenUp
  <2>3. binding[n].exists /\ Reason(n)
    BY <1>5, <2>2, ReleaseReason
  <2>4. binding' = binding
    BY <2>2 DEF RemovePVCFinalizer
  <2>5. request[n] # "claimed"
    BY <1>0, <2>3 DEF BindingCopy
  <2> QED BY <1>1, <1>2, <2>3, <2>4, <2>5
<1> QED BY <1>3, <1>4, <1>5 DEF GivenUp

\* ReasonInv holds initially.
LEMMA ReasonInit == Init => ReasonInv
BY DEF Init, MutatorInit, ReasonInv, GivenUp, Claimed

\* As long as nobody forces claims away, the binding of a claim that was given up
\* says that its pod was missing or that its finalizer job succeeded.
THEOREM ReasonInvariant == Spec => []ReasonInv
<1>1. Init => ReasonInv
  BY ReasonInit
<1>2. TypeOK /\ UseInv /\ KeepInv /\ ReleaseInv /\ ReasonInv /\ [Next]_vars => ReasonInv'
  BY ReasonKeep
<1> QED
  BY <1>1, <1>2, TypeCorrect, UseInvariant, KeepInvariant, ReleaseInvariant, PTL DEF Spec

\* The first job of a claim is applied by a pass that has read OutOfUse.
LEMMA ProcessedKeep ==
    ASSUME TypeOK, UseInv, KeepInv, ReleaseInv, ProcessedInv, [Next]_vars
    PROVE  ProcessedInv'
<1> USE DEF UseInv, KeepInv, ReleaseInv
<1> SUFFICES ASSUME Spared({"extraJob"})', NEW n \in Names
             PROVE  /\ \A j \in job'[n] : j.named
                    /\ job'[n] # {} \/ n \in finalized' => Kept(n, "Ready")'
  BY DEF ProcessedInv
<1>sp. Spared({"extraJob"}) /\ ~Fault("extraJob")
  BY SparedSteps
<1>0. ~AddJob(n) /\ \A j \in job[n] : j.named
  BY <1>sp DEF AddJob, ProcessedInv
<1>1. CASE ApplyJob /\ n = pr.n
  <2>1. /\ job'[n] = job[n] \cup {[named |-> TRUE, status |-> "Active"]}
        /\ pr.pc = "create"
    BY <1>1 DEF ApplyJob, TypeOK, ClusterTypeOK
  <2>2. Kept(n, "OutOfUse")
    BY <1>1, <2>1, LastingConditions DEF ReleaseReadInv
  <2>3. Kept(n, "Ready")
    BY <2>2 DEF Kept, CopiesInv, BindingCopy, InOrder
  <2> QED BY <1>0, <2>1, <2>3, KeptKeep, LastingConditions
<1>2. CASE ~(ApplyJob /\ n = pr.n)
  <2>1. \/ job'[n] \subseteq job[n]
        \/ \E i \in job[n], s \in JobStatus :
              job'[n] = (job[n] \ {i}) \cup {[i EXCEPT !.status = s]}
    BY <1>0, <1>2, JobSteps
  <2>2. \A i \in job[n], s \in JobStatus : [i EXCEPT !.status = s].named
    BY <1>0 DEF TypeOK, ClusterTypeOK, Job
  <2>3. \A j \in job'[n] : j.named
    BY <1>0, <2>1, <2>2
  <2>4. job'[n] # {} \/ n \in finalized' => job[n] # {} \/ n \in finalized
    BY <2>1, HistorySteps
  <2> QED BY <1>sp, <2>3, <2>4, KeptKeep, LastingConditions DEF ProcessedInv
<1> QED BY <1>1, <1>2

\* ProcessedInv holds initially.
LEMMA ProcessedInit == Init => ProcessedInv
BY DEF Init, ClusterInit, ProcessedInv

\* As long as nobody adds jobs, only a claim that its binding reports Ready has a
\* job or is processed.
THEOREM ProcessedInvariant == Spec => []ProcessedInv
<1>1. Init => ProcessedInv
  BY ProcessedInit
<1>2. TypeOK /\ UseInv /\ KeepInv /\ ReleaseInv /\ ProcessedInv /\ [Next]_vars => ProcessedInv'
  BY ProcessedKeep
<1> QED
  BY <1>1, <1>2, TypeCorrect, UseInvariant, KeepInvariant, ReleaseInvariant, PTL DEF Spec

-----------------------------------------------------------------------------
(* No job is left of a claim that was given up.                            *)

\* The job of a claim does not start again, and is not followed by another.
LEMMA JobEndedKeep ==
    ASSUME ~Fault("extraJob"), ~Fault("jobReplaced"), ~Fault("jobRemoved"),
           Spared({"extraJob"}), TypeOK, UseInv, KeepInv, ProcessedInv, [Next]_vars,
           NEW n \in Names, JobEnded(n)
    PROVE  JobEnded(n)'
<1> USE DEF UseInv, KeepInv
<1>1. CASE GivenUp(n)
  BY <1>1, FactsLast DEF JobEnded
<1>2. CASE ~GivenUp(n)
  <2>0. /\ job[n] # {} /\ \A j \in job[n] : j.status # "Active" /\ j.named
        /\ binding[n].exists
    BY <1>2 DEF JobEnded, ProcessedInv, Kept
  <2>1. ~AddJob(n) /\ ~CollectJobs(n) /\ ~(ApplyJob /\ n = pr.n)
    BY <2>0 DEF AddJob, CollectJobs, ApplyJob, JobNamed
  <2>2. ASSUME NEW i \in job[n], NEW s \in JobStatus, s # "Active",
               job'[n] = (job[n] \ {i}) \cup {[i EXCEPT !.status = s]}
        PROVE  JobEnded(n)'
    <3>1. [i EXCEPT !.status = s].status = s
      BY DEF TypeOK, ClusterTypeOK, Job
    <3> QED BY <2>0, <2>2, <3>1 DEF JobEnded
  <2> QED BY <2>0, <2>1, <2>2, JobSteps DEF JobEnded
<1> QED BY <1>1, <1>2

\* A claim has one job at most.
LEMMA OneJobKeep ==
    ASSUME ~Fault("extraJob"), Spared({"extraJob"}), TypeOK, ProcessedInv, [Next]_vars,
           NEW n \in Names, \A i, j \in job[n] : i = j
    PROVE  \A i, j \in job'[n] : i = j
<1>1. CASE ApplyJob /\ n = pr.n
  <2>1. /\ job'[n] = job[n] \cup {[named |-> TRUE, status |-> "Active"]}
        /\ ~JobNamed(job[n])
    BY <1>1 DEF ApplyJob, TypeOK, ClusterTypeOK
  <2>2. job[n] = {}
    BY <2>1 DEF JobNamed, ProcessedInv
  <2> QED BY <2>1, <2>2
<1>2. ~AddJob(n)
  BY DEF AddJob
<1> QED BY <1>1, <1>2, JobSteps

\* Who makes a claim given up: the request that made none, or the pass that releases.
LEMMA GivenUpSteps ==
    ASSUME ~Fault("claimForced"), TypeOK, UseInv, KeepInv, ReleaseInv, [Next]_vars,
           NEW n \in Names, ~GivenUp(n), GivenUp(n)'
    PROVE  \/ ~Claimed(n)
           \/ RemovePVCFinalizer /\ n = pr.n /\ Held(n)
<1> USE DEF KeepInv
<1> SUFFICES ASSUME Claimed(n) PROVE RemovePVCFinalizer /\ n = pr.n /\ Held(n)
  OBVIOUS
<1>1. Held(n) /\ pvc[n].exists
  BY DEF GivenUp, ClaimsInv, ClaimCopy, Held, OwnClaim
<1>2. ~CreatePVC(n) /\ ~ReapPVC(n) /\ ~ForcePVC(n) /\ ~ReplacePVC(n)
  BY <1>1 DEF CreatePVC, Advance, Claimed, ReapPVC, ForcePVC, ReplacePVC, Held
<1> QED BY <1>1, <1>2, ClaimSteps DEF ClaimChanged, Held, GivenUp

\* A pass of the PVC reconciler reads a claim and its binding, and keeps both.
LEMMA ClaimPassSteps ==
    ASSUME TypeOK, ClaimReadInv, [Next]_vars
    PROVE  \/ pr' = pr
           \/ pr'.pc = "idle"
           \/ \E n \in Names : /\ StartAbandoned(n) \/ StartFinalizing(n)
                               /\ pr'.n = n /\ pr'.conds = SeenBinding(n).conds
           \/ /\ pr.pc = "apply" /\ pr'.pc = "create"
              /\ pr'.n = pr.n /\ pr'.conds = pr.conds
           \/ /\ pr.pc = "create" /\ pr'.pc = "release"
              /\ "FinalizerJobSucceeded" \in pr.conds
           \/ RemovePVCFinalizer /\ pr'.pc = "delete"
<1>0. pr \in [ pc : PVCPC, n : Names \cup {NoUID}, claim : Claim, conds : SUBSET ConditionType ]
  BY DEF TypeOK, PVCTypeOK
<1>1. CASE \E n \in Names : StartAbandoned(n) \/ StartFinalizing(n)
  <2>1. PICK n \in Names : StartAbandoned(n) \/ StartFinalizing(n)
    BY <1>1
  <2>2. pr' = Read(n, "release") \/ pr' = Read(n, "apply")
    BY <2>1 DEF StartAbandoned, StartFinalizing
  <2> QED BY <2>1, <2>2 DEF Read
<1>2. CASE ListJobs
  <2>1. pr' = IdlePVC \/ (pr.pc = "apply" /\ pr' = [pr EXCEPT !.pc = "create"])
    BY <1>2 DEF ListJobs
  <2> QED BY <1>0, <2>1 DEF IdlePVC
<1>3. CASE ApplyJob
  <2>1. \/ pr' = IdlePVC
        \/ /\ pr.pc = "create" /\ pr' = [pr EXCEPT !.pc = "release"]
           /\ "FinalizerJobSucceeded" \in pr.conds
    BY <1>3 DEF ApplyJob, MayRelease
  <2> QED BY <1>0, <2>1 DEF IdlePVC
<1>4. CASE RemovePVCFinalizer
  BY <1>4, ReleaseWrites
<1>5. CASE RefuseJob \/ DeleteReleasedPVC \/ RefusePVC \/ AbortPVC
  BY <1>5 DEF RefuseJob, DeleteReleasedPVC, RefusePVC, AbortPVC, IdlePVC
<1> QED
  BY <1>1, <1>2, <1>3, <1>4, <1>5 DEF Next, ClusterStep, MutatorStep, BindingStep, PVCStep,
     FluentPVCStep, PVCNext, ContinuePVC, vars

\* A step that gives a claim up finds no job of it, or one that has ended; no step
\* makes another after that.
LEMMA NoJobLeft ==
    ASSUME ~Fault("claimForced"), ~Fault("extraJob"), ~Fault("jobReplaced"),
           Spared({"extraJob"}), TypeOK, UseInv, KeepInv, ReleaseInv, ProcessedInv,
           EndedInv, NewJobInv, [Next]_vars, NEW n \in Names, GivenUp(n)',
           GivenUp(n) => \A j \in job[n] : j.status # "Active"
    PROVE  \A j \in job'[n] : j.status # "Active"
<1> USE DEF KeepInv, ReleaseInv
<1>1. CASE GivenUp(n)
  <2>1. ~(ApplyJob /\ n = pr.n)
    BY <1>1 DEF ApplyJob, NewJobInv, GivenUp
  <2>2. ASSUME NEW i \in job[n], NEW s \in JobStatus, s # "Active",
               job'[n] = (job[n] \ {i}) \cup {[i EXCEPT !.status = s]}
        PROVE  \A j \in job'[n] : j.status # "Active"
    <3>1. [i EXCEPT !.status = s].status = s
      BY DEF TypeOK, ClusterTypeOK, Job
    <3> QED BY <1>1, <2>2, <3>1
  <2> QED BY <1>1, <2>1, <2>2, JobSteps DEF AddJob
<1>2. CASE ~GivenUp(n) /\ ~Claimed(n)
  <2>1. ~binding[n].exists
    BY <1>2 DEF CopiesInv, BindingCopy, Claimed
  <2>2. job[n] = {}
    BY <1>2, <2>1 DEF ProcessedInv, Kept
  <2>3. ~(ApplyJob /\ n = pr.n)
    BY <1>2 DEF ApplyJob, ClaimReadInv
  <2> QED BY <2>2, <2>3, JobSteps DEF AddJob
<1>3. CASE ~GivenUp(n) /\ RemovePVCFinalizer /\ n = pr.n /\ Held(n)
  <2>1. job' = job
    BY <1>3 DEF RemovePVCFinalizer
  <2>2. CASE "FinalizerJobSucceeded" \in pr.conds
    <3>1. JobEnded(n)
      BY <1>3, <2>2 DEF EndedInv, RemovePVCFinalizer
    <3> QED BY <1>3, <2>1, <3>1 DEF JobEnded
  <2>3. CASE "PodMissing" \in pr.conds
    <3>1. Kept(n, "PodMissing")
      BY <1>3, <2>3, LastingConditions DEF ReleaseReadInv, RemovePVCFinalizer
    <3>2. "Ready" \notin binding[n].conds
      BY <1>3, <3>1 DEF Kept, CopiesInv, BindingCopy, InOrder
    <3> QED BY <1>3, <2>1, <3>2 DEF ProcessedInv, Kept
  <2> QED BY <1>3, <2>2, <2>3 DEF ReleaseReadInv, RemovePVCFinalizer
<1> QED BY <1>1, <1>2, <1>3, GivenUpSteps

\* A job that is seen to have succeeded has ended, and stays so.
LEMMA EndedJobsKeep ==
    ASSUME ~Fault("extraJob"), ~Fault("jobReplaced"), ~Fault("jobRemoved"),
           Spared({"extraJob"}), TypeOK, UseInv, KeepInv, ProcessedInv, EndedInv,
           [Next]_vars, NEW n \in Names
    PROVE  (\E j \in job[n] \cup SeenJobs(n) : IsJobSucceeded(j))' => JobEnded(n)'
<1>1. SeenJobs(n)' = job'[n] \/ SeenJobs(n)' = SeenJobs(n)
  BY JobSteps DEF SeenJobs
<1>2. CASE \E j \in job[n] \cup SeenJobs(n) : IsJobSucceeded(j)
  BY <1>2, JobEndedKeep DEF EndedInv
<1>3. ASSUME NEW j \in job'[n], IsJobSucceeded(j), j \notin job[n]
      PROVE  JobEnded(n)'
  <2>1. ~(ApplyJob /\ n = pr.n)
    <3> SUFFICES ASSUME ApplyJob, n = pr.n PROVE FALSE
      OBVIOUS
    <3>1. job'[n] = job[n] \cup {[named |-> TRUE, status |-> "Active"]}
      BY DEF ApplyJob, TypeOK, ClusterTypeOK
    <3> QED BY <1>3, <3>1 DEF IsJobSucceeded
  <2>2. PICK i \in job[n], s \in JobStatus :
            /\ job'[n] = (job[n] \ {i}) \cup {[i EXCEPT !.status = s]}
            /\ s = "Active" => Fault("jobReplaced")
    BY <1>3, <2>1, JobSteps DEF AddJob
  <2>3. job[n] = {i}
    BY DEF EndedInv
  <2>4. job'[n] = {[i EXCEPT !.status = s]} /\ [i EXCEPT !.status = s].status = s
    BY <2>2, <2>3 DEF TypeOK, ClusterTypeOK, Job
  <2> QED BY <2>2, <2>4 DEF JobEnded
<1> QED BY <1>1, <1>2, <1>3

\* A pass that writes is not idle; one that goes on has the conditions it had.
LEMMA WritingPass ==
    ASSUME TypeOK
    PROVE  /\ Adopt \/ UpdateStatus => br.pc # "idle"
           /\ MissPod \/ FindPod \/ DecideDelete => br.pc # "idle"
           /\ FillPodUID => br.pc # "idle" /\ br'.n = br.n /\ br'.b.conds = br.b.conds
           /\ Unfinalize => br.pc # "idle" /\ br'.n = br.n /\ br'.b.conds = br.b.conds
<1>0. br \in [ pc : BindingPC, n : Names \cup {NoUID}, b : Binding,
                found : BOOLEAN, phase : PodPhase \cup {NoPod} ]
  BY DEF TypeOK, BindingTypeOK
<1>1. Adopt \/ UpdateStatus => br.pc # "idle"
  BY DEF Adopt, UpdateStatus
<1>2. /\ MissPod => br.pc # "idle"
      /\ FindPod => br.pc # "idle"
      /\ DecideDelete => br.pc # "idle"
  <2>1. MissPod => br.pc # "idle"
    BY DEF MissPod
  <2>2. FindPod => br.pc # "idle"
    BY DEF FindPod
  <2>3. DecideDelete => br.pc # "idle"
    BY DEF DecideDelete
  <2> QED BY <2>1, <2>2, <2>3
<1>3. ASSUME FillPodUID
      PROVE  br.pc # "idle" /\ br'.n = br.n /\ br'.b.conds = br.b.conds
  <2>1. PICK m \in PodFor(br.n) :
            /\ br.pc = "pod"
            /\ br' = [br EXCEPT !.pc = "decide", !.b = Stored(br.b, [br.b EXCEPT !.podUID = m]),
                                !.found = TRUE, !.phase = SeenPod(m)]
    BY <1>3 DEF FillPodUID
  <2> DEFINE w == [br.b EXCEPT !.podUID = m]
  <2>2. w \in Binding /\ w.conds = br.b.conds
    BY <1>0, <2>1, WriteFields DEF PodFor
  <2>3. br'.n = br.n /\ br'.b = Stored(br.b, w)
    BY <1>0, <2>1
  <2> HIDE DEF w
  <2> QED BY <1>0, <2>1, <2>2, <2>3, WriteFields
<1>4. ASSUME Unfinalize
      PROVE  br.pc # "idle" /\ br'.n = br.n /\ br'.b.conds = br.b.conds
  <2>1. br.pc = "unfinalize" /\ br'.n = br.n /\ br'.b = Stored(br.b, WithoutFinalizer(br.b))
    BY <1>0, <1>4 DEF Unfinalize
  <2>2. WithoutFinalizer(br.b) \in Binding /\ WithoutFinalizer(br.b).conds = br.b.conds
    BY <1>0, WriteTypes, WriteFields
  <2> QED BY <1>0, <2>1, <2>2, WriteFields
<1> QED BY <1>1, <1>2, <1>3, <1>4

\* So has one that a binding, or a copy of it, says to have succeeded.
LEMMA EndedKeep ==
    ASSUME ~Fault("extraJob"), ~Fault("jobReplaced"), ~Fault("jobRemoved"),
           Spared({"extraJob"}), TypeOK, UseInv, KeepInv, ReleaseInv, ProcessedInv,
           EndedInv, NewJobInv, [Next]_vars
    PROVE  EndedInv'
<1> USE DEF UseInv, KeepInv, ReleaseInv
<1> DEFINE Succeeded(conds) == "FinalizerJobSucceeded" \in conds
<1>0. \A n \in Names : JobEnded(n) => JobEnded(n)'
  BY JobEndedKeep
<1>1. ASSUME NEW n \in Names
      PROVE  /\ \A i, j \in job'[n] : i = j
             /\ (\E j \in job[n] \cup SeenJobs(n) : IsJobSucceeded(j))' => JobEnded(n)'
             /\ Succeeded(binding'[n].conds) => JobEnded(n)'
             /\ Succeeded(SeenBinding(n)'.conds) => JobEnded(n)'
  <2>1. \A i, j \in job'[n] : i = j
    BY OneJobKeep DEF EndedInv
  <2>2. (\E j \in job[n] \cup SeenJobs(n) : IsJobSucceeded(j))' => JobEnded(n)'
    BY EndedJobsKeep
  <2>3. Succeeded(binding'[n].conds) => JobEnded(n)'
    <3>1. CASE binding'[n] = binding[n] \/ BindingTouched(n)
      BY <1>0, <3>1 DEF BindingTouched, EndedInv
    <3>2. CASE CreateBinding(n)
      <4>1. ~binding[n].exists
        BY <3>2 DEF CreateBinding, Advance, CopiesInv, BindingCopy
      <4>2. binding'[n].conds = {} \/ ~binding'[n].exists
        BY <4>1, VersionSteps
      <4>3. binding'[n].conds = {}
        BY <4>2, VersionSteps, WriteFields
      <4> QED BY <4>3
    <3>3. CASE BindingRemoved(n)
      BY <3>3, WriteFields DEF BindingRemoved
    <3>4. CASE n = br.n /\ (Adopt \/ UpdateStatus \/ FillPodUID \/ Unfinalize)
      <4>1. binding'[n].conds = br.b.conds \/ binding'[n] = NoBinding
        BY <3>4, PassWrites
      <4>2. br.pc # "idle"
        BY <3>4, WritingPass
      <4> QED BY <1>0, <3>4, <4>1, <4>2, WriteFields DEF EndedInv
    <3> QED BY <3>1, <3>2, <3>3, <3>4, BindingSteps
  <2>4. Succeeded(SeenBinding(n)'.conds) => JobEnded(n)'
    <3>1. SeenBinding(n)' = binding'[n] \/ SeenBinding(n)' = SeenBinding(n)
      BY BindingSteps DEF SeenBinding
    <3> QED BY <1>0, <2>3, <3>1 DEF EndedInv
  <2> QED BY <2>1, <2>2, <2>3, <2>4
<1>2. br'.pc # "idle" /\ Succeeded(br'.b.conds) => JobEnded(br.n)'
  <2> SUFFICES ASSUME br'.pc # "idle", Succeeded(br'.b.conds) PROVE JobEnded(br.n)'
    OBVIOUS
  <2>0. br.pc # "idle" => br.n \in Names
    BY DEF BindingPassInv
  <2>1. ASSUME br.pc # "idle", Succeeded(br.b.conds), br'.n = br.n
        PROVE  JobEnded(br.n)'
    <3>1. JobEnded(br.n)
      BY <2>1 DEF EndedInv
    <3>2. PICK n \in Names : n = br.n
      BY <2>0, <2>1
    <3>3. JobEnded(n)'
      BY <1>0, <3>1, <3>2
    <3> QED BY <2>1, <3>2, <3>3 DEF JobEnded, GivenUp, Claimed, Held
  <2>2. ASSUME NEW n \in Names, br'.n = n, br'.b.conds = SeenBinding(n).conds
        PROVE  JobEnded(br.n)'
    <3>1. JobEnded(n)'
      BY <1>0, <2>2 DEF EndedInv
    <3> QED BY <2>2, <3>1 DEF JobEnded, GivenUp, Claimed, Held
  <2>3. ASSUME NEW j \in SeenJobs(br.n), IsJobSucceeded(j), br.pc = "decide", br'.n = br.n
        PROVE  JobEnded(br.n)'
    <3>1. PICK n \in Names : n = br.n
      BY <2>0, <2>3
    <3>2. JobEnded(n)'
      BY <1>0, <2>3, <3>1 DEF EndedInv
    <3> QED BY <2>3, <3>1, <3>2 DEF JobEnded, GivenUp, Claimed, Held
  <2>4. CASE br' = br
    BY <2>1, <2>4
  <2>5. CASE (MissPod \/ FindPod \/ DecideDelete) /\ br'.n = br.n /\ br'.b = br.b
    BY <2>1, <2>5, WritingPass
  <2>6. CASE FillPodUID \/ Unfinalize
    <3>1. br.pc # "idle" /\ br'.n = br.n /\ br'.b.conds = br.b.conds
      BY <2>6, WritingPass
    <3> QED BY <2>1, <3>1
  <2> QED BY <2>1, <2>2, <2>3, <2>4, <2>5, <2>6, PassSteps
<1>3. pr'.pc = "release" /\ Succeeded(pr'.conds) => JobEnded(pr.n)'
  <2> SUFFICES ASSUME pr'.pc = "release", Succeeded(pr'.conds) PROVE JobEnded(pr.n)'
    OBVIOUS
  <2>1. CASE pr' = pr
    <3>1. PICK n \in Names : n = pr.n
      BY <2>1 DEF ClaimReadInv
    <3>2. JobEnded(n)'
      BY <1>0, <2>1, <3>1 DEF EndedInv
    <3> QED BY <2>1, <3>1, <3>2 DEF JobEnded, GivenUp, Claimed, Held
  <2>2. ASSUME NEW n \in Names, pr'.n = n, pr'.conds = SeenBinding(n).conds
        PROVE  JobEnded(pr.n)'
    <3>1. JobEnded(n)'
      BY <1>0, <2>2 DEF EndedInv
    <3> QED BY <2>2, <3>1 DEF JobEnded, GivenUp, Claimed, Held
  <2> QED BY <2>1, <2>2, ClaimPassSteps DEF NewJobInv
<1> QED BY <1>1, <1>2, <1>3 DEF EndedInv

\* Nor does a cache, or a pass that releases, lack the reason.
LEMMA ReasonSeenKeep ==
    ASSUME ~Fault("claimForced"), Spared({"claimForced"})', TypeOK, UseInv, KeepInv,
           ReleaseInv, ReleaseInv', ReasonInv', ReasonSeenInv, NewJobInv, [Next]_vars
    PROVE  ReasonSeenInv'
<1> USE DEF UseInv, KeepInv, ReleaseInv
<1>0. \A n \in Names : SeenBinding(n)' = binding'[n] \/ SeenBinding(n)' = SeenBinding(n)
  BY BindingSteps DEF SeenBinding
<1>1. ASSUME NEW n \in Names, GivenUp(n)', SeenBinding(n)'.exists
      PROVE  Reasoned(SeenBinding(n)'.conds)
  <2>1. CASE SeenBinding(n)' = binding'[n]
    BY <1>1, <2>1 DEF ReasonInv, Reasoned
  <2>2. CASE SeenBinding(n)' = SeenBinding(n)
    <3>1. Claimed(n)
      BY <1>1, <2>2 DEF CopiesInv, BindingCopy, Claimed
    <3>2. CASE GivenUp(n)
      BY <1>1, <2>2, <3>2 DEF ReasonSeenInv
    <3>3. CASE RemovePVCFinalizer /\ n = pr.n
      BY <1>1, <2>2, <3>3 DEF ReasonSeenInv, RemovePVCFinalizer
    <3> QED BY <1>1, <3>1, <3>2, <3>3, GivenUpSteps
  <2> QED BY <1>0, <2>1, <2>2
<1>2. ASSUME pr'.pc = "release", NEW n \in Names, pr'.n = n, SeenBinding(n)'.exists
      PROVE  Reasoned(SeenBinding(n)'.conds)
  <2>1. CASE SeenBinding(n)' = binding'[n]
    <3>1. Kept(n, "PodMissing")' \/ Kept(n, "FinalizerJobSucceeded")'
      BY <1>2, LastingConditions DEF ReleaseReadInv, Kept, GivenUp, Claimed, Held
    <3> QED BY <1>1, <1>2, <2>1, <3>1 DEF Kept, Reasoned
  <2>2. CASE SeenBinding(n)' = SeenBinding(n)
    <3>1. CASE pr' = pr
      BY <1>2, <2>2, <3>1 DEF ReasonSeenInv
    <3>2. ASSUME pr'.conds = SeenBinding(n).conds
          PROVE  Reasoned(SeenBinding(n)'.conds)
      BY <1>2, <2>2, <3>2 DEF ReleaseReadInv, Reasoned
    <3> QED BY <1>2, <3>1, <3>2, ClaimPassSteps DEF NewJobInv
  <2> QED BY <1>0, <2>1, <2>2
<1>3. pr'.pc = "release" => pr'.n \in Names
  <2>1. ClaimReadInv'
    BY ClaimReadKeeps
  <2> QED BY <2>1 DEF ClaimReadInv
<1>4. ASSUME pr'.pc = "release", SeenBinding(pr.n)'.exists
      PROVE  Reasoned(SeenBinding(pr.n)'.conds)
  <2>1. PICK n \in Names : pr'.n = n
    BY <1>3, <1>4
  <2>2. SeenBinding(pr.n)' = SeenBinding(n)'
    BY <2>1 DEF SeenBinding
  <2> QED BY <1>2, <1>4, <2>1, <2>2
<1> QED BY <1>1, <1>4 DEF ReasonSeenInv

\* A pass that is to make a job has read a binding without a reason to give up.
LEMMA NewJobKeep ==
    ASSUME ~Fault("claimForced"), TypeOK, UseInv, KeepInv, ReleaseInv, ReasonSeenInv,
           NewJobInv, [Next]_vars
    PROVE  NewJobInv'
<1> USE DEF UseInv, KeepInv, ReleaseInv
<1> SUFFICES ASSUME pr'.pc \in {"apply", "create"}
             PROVE  Held(pr.n)' /\ "FinalizerJobSucceeded" \notin pr'.conds
  BY DEF NewJobInv
<1>1. ASSUME NEW n \in Names, StartAbandoned(n) \/ StartFinalizing(n), pr'.n = n,
             pr'.conds = SeenBinding(n).conds
      PROVE  Held(pr.n)' /\ "FinalizerJobSucceeded" \notin pr'.conds
  <2>1. /\ "PodMissing" \notin SeenBinding(n).conds
        /\ "FinalizerJobApplied" \notin SeenBinding(n).conds
        /\ SeenPVC(n).exists /\ SeenBinding(n).exists /\ pvc' = pvc
    BY <1>1 DEF StartAbandoned, StartFinalizing, Concerned, Finalizing, Read, clusterVars,
                stored
  <2>2. "FinalizerJobSucceeded" \notin SeenBinding(n).conds
    BY <2>1 DEF CopiesInv, BindingCopy, InOrder
  <2>3. Claimed(n)
    BY <2>1 DEF ClaimsInv, ClaimCopy
  <2>4. Held(n)
    BY <2>1, <2>2, <2>3 DEF ReasonSeenInv, Reasoned, GivenUp
  <2> QED BY <1>1, <2>1, <2>2, <2>4 DEF Held
<1>2. ASSUME pr.pc \in {"apply", "create"}, pr'.n = pr.n, pr'.conds = pr.conds
      PROVE  Held(pr.n)' /\ "FinalizerJobSucceeded" \notin pr'.conds
  <2>1. PICK n \in Names : n = pr.n
    BY <1>2 DEF ClaimReadInv
  <2>2. Held(n) /\ Claimed(n) /\ "FinalizerJobSucceeded" \notin pr.conds
    BY <1>2, <2>1 DEF NewJobInv, ClaimReadInv
  <2>3. ~GivenUp(n)'
    BY <1>2, <2>2, GivenUpSteps DEF GivenUp, RemovePVCFinalizer
  <2>4. Held(n)'
    BY <2>2, <2>3, RequestSteps DEF GivenUp
  <2> QED BY <1>2, <2>1, <2>2, <2>4 DEF Held
<1> QED BY <1>1, <1>2, ClaimPassSteps

\* JobsLeftInv holds initially.
LEMMA JobsLeftInit == Init => JobsLeftInv
<1> SUFFICES ASSUME Init PROVE JobsLeftInv
  OBVIOUS
<1>1. /\ \A n \in Names : /\ binding[n] = NoBinding /\ SeenBinding(n) = NoBinding
                          /\ job[n] = {} /\ SeenJobs(n) = {}
      /\ br.pc = "idle" /\ pr.pc = "idle"
  BY DEF Init, ClusterInit, BindingInit, PVCInit, IdleBinding, IdlePVC, SeenBinding, SeenJobs
<1> QED BY <1>1, WriteFields DEF JobsLeftInv, EndedInv, ReasonSeenInv, NewJobInv

\* Every step keeps it, as long as nobody forces claims away or interferes with jobs.
LEMMA JobsLeftKeep ==
    ASSUME TypeOK, UseInv, KeepInv, ReleaseInv, ReasonInv, ProcessedInv, JobsLeftInv, [Next]_vars
    PROVE  JobsLeftInv'
<1> DEFINE kinds == {"claimForced", "extraJob", "jobReplaced", "jobRemoved"}
<1> SUFFICES ASSUME Spared(kinds)'
             PROVE  /\ \A n \in Names : GivenUp(n)' => \A j \in job'[n] : j.status # "Active"
                    /\ EndedInv' /\ ReasonSeenInv' /\ NewJobInv'
  BY DEF JobsLeftInv
<1>1. Spared(kinds) /\ \A kind \in kinds : ~Fault(kind)
  BY SparedSteps
<1>2. /\ ~Fault("claimForced") /\ ~Fault("extraJob")
      /\ ~Fault("jobReplaced") /\ ~Fault("jobRemoved")
      /\ Spared({"extraJob"}) /\ Spared({"claimForced"})'
  BY <1>1 DEF Spared
<1>3. /\ \A n \in Names : GivenUp(n) => \A j \in job[n] : j.status # "Active"
      /\ EndedInv /\ ReasonSeenInv /\ NewJobInv
  BY <1>1 DEF JobsLeftInv
<1>4. \A n \in Names : GivenUp(n)' => \A j \in job'[n] : j.status # "Active"
  BY <1>2, <1>3, NoJobLeft
<1>5. EndedInv'
  BY <1>2, <1>3, EndedKeep
<1>6. ReasonSeenInv'
  BY <1>2, <1>3, ReleaseStep, ReasonKeep, ReasonSeenKeep
<1>7. NewJobInv'
  BY <1>2, <1>3, NewJobKeep
<1> QED BY <1>4, <1>5, <1>6, <1>7

\* As long as nobody forces claims away or interferes with jobs, no job is left of a
\* claim that was given up.
THEOREM JobsLeftInvariant == Spec => []JobsLeftInv
<1>1. Init => JobsLeftInv
  BY JobsLeftInit
<1>2. /\ TypeOK /\ UseInv /\ KeepInv /\ ReleaseInv /\ ReasonInv /\ ProcessedInv
      /\ JobsLeftInv /\ [Next]_vars
      => JobsLeftInv'
  BY JobsLeftKeep
<1> QED
  BY <1>1, <1>2, TypeCorrect, UseInvariant, KeepInvariant, ReleaseInvariant, ReasonInvariant,
     ProcessedInvariant, PTL DEF Spec

\* Therefore no job runs on a claim that somebody else has made under the name of
\* one that was given up.
THEOREM ForeignClaimsUnprocessed == Spec => []ForeignClaimUnprocessed
<1>1. TypeOK /\ KeepInv /\ JobsLeftInv => ForeignClaimUnprocessed
  <2> SUFFICES ASSUME TypeOK, KeepInv, JobsLeftInv,
                      Spared({"claimForced", "extraJob", "jobReplaced", "jobRemoved"}),
                      NEW n \in Names, pvc[n].uid = ForeignClaim
               PROVE  \A j \in job[n] : j.status # "Active"
    BY DEF ForeignClaimUnprocessed
  <2>1. GivenUp(n)
    BY DEF KeepInv, ClaimsInv, ClaimCopy, GivenUp, Held, ForeignClaim, OwnClaim
  <2> QED BY <2>1 DEF JobsLeftInv
<1> QED BY <1>1, TypeCorrect, KeepInvariant, JobsLeftInvariant, PTL
=============================================================================
