--------------------------- MODULE ConditionPhase ---------------------------
(***************************************************************************)
(* The conditions of one binding as they are stored, a list with the times *)
(* of their transitions, and the phase computed from them.  The other      *)
(* modules know the set of those that are True, and no phase: nothing but  *)
(* a user reads it.                                                        *)
(***************************************************************************)
EXTENDS Naturals, Sequences, SequencesExt

CONSTANTS
    Second,     \* how many clock ticks a second has; reading the clock takes one
    MaxTicks    \* bound: the clock stops there

VARIABLES
    now,        \* the clock
    found,      \* what a pass finds: "Pod", and when it is over "NoJob", or a
                \* job that is "Active", "Complete" or "Failed"
    conds,      \* the stored conditions
    phase,      \* the stored phase
    entered     \* history: the conditions that are True, as they became so

vars == <<now, found, conds, phase, entered>>

IsTrue(cs, type) == \E i \in DOMAIN cs : cs[i].type = type /\ cs[i].status

\* meta.SetStatusCondition: a condition keeps its place, and its time unless its
\* status changes; a new one comes last.
SetStatusCondition(cs, type, status, time) ==
    LET new == [type |-> type, status |-> status, time |-> time]
    IN  IF \E i \in DOMAIN cs : cs[i].type = type
        THEN [i \in DOMAIN cs |->
                 IF cs[i].type = type /\ cs[i].status # status THEN new ELSE cs[i]]
        ELSE Append(cs, new)

\* A time is stored without the fraction of its second.
Truncated(cs) == [i \in DOMAIN cs |-> [cs[i] EXCEPT !.time = @ - (@ % Second)]]

\* The phase is the first of the newest conditions that are True: a sort of so
\* few is one by insertion, which is stable.
resetPhase(cs) ==
    LET true == SelectSeq(cs, LAMBDA c : c.status)
    IN  IF true = << >> THEN "Pending"
        ELSE true[CHOOSE i \in DOMAIN true : \A j \in DOMAIN true :
                     true[j].time < true[i].time \/ (true[j].time = true[i].time /\ i <= j)].type

\* What a pass does to one condition; several are set one after the other, each at
\* a time of its own.
Change(type, status) == [type |-> type, status |-> status]

Apply(cs, changes, time) ==
    FoldLeftDomain(LAMBDA s, i : SetStatusCondition(s, changes[i].type, changes[i].status,
                                                    time + i),
                   cs, changes)

SetIf(test, type, status) == IF test THEN <<Change(type, status)>> ELSE << >>

\* What a pass of the binding reconciler makes of the jobs it has listed.
JobChanges ==
    LET Applied == IsTrue(conds, "FinalizerJobApplied")
        Failed  == IsTrue(conds, "FinalizerJobFailed")
    IN  IF found = "NoJob"
        THEN SetIf(Applied, "FinalizerJobApplied", FALSE)
             \o SetIf(Failed, "FinalizerJobFailed", FALSE)
        ELSE SetIf(~Applied, "FinalizerJobApplied", TRUE)
             \o SetIf(found = "Complete", "FinalizerJobSucceeded", TRUE)
             \o SetIf(found = "Failed", "FinalizerJobFailed", TRUE)

\* The conditions that a pass sets, in their order.  The claim is always there.
Changes ==
    IF IsTrue(conds, "FinalizerJobSucceeded") THEN << >>
    ELSE IF found = "Pod" THEN SetIf(~IsTrue(conds, "Ready"), "Ready", TRUE)
    ELSE IF ~IsTrue(conds, "OutOfUse") THEN <<Change("OutOfUse", TRUE)>>
    ELSE JobChanges

-----------------------------------------------------------------------------
Init ==
    /\ now = 0 /\ found = "Pod"
    /\ conds = << >> /\ phase = "Pending" /\ entered = << >>

\* A pass, and its update of the status.
Pass ==
    /\ Changes # << >> /\ now + Len(Changes) <= MaxTicks
    /\ LET set == Apply(conds, Changes, now)
           on  == SelectSeq(Changes, LAMBDA c : c.status /\ ~IsTrue(conds, c.type))
       IN  /\ conds' = Truncated(set)
           /\ phase' = resetPhase(set)
           /\ entered' = SelectSeq(entered, LAMBDA t : IsTrue(set, t))
                            \o [i \in DOMAIN on |-> on[i].type]
    /\ now' = now + Len(Changes)
    /\ UNCHANGED found

Wait ==
    /\ now < MaxTicks
    /\ now' = now + 1
    /\ UNCHANGED <<found, conds, phase, entered>>

\* A pod that was Ready ends, a job is created, completes, fails or is removed.
\* It takes a second.
Happen ==
    /\ now + Second <= MaxTicks
    /\ \/ found = "Pod" /\ IsTrue(conds, "Ready") /\ found' = "NoJob"
       \/ found = "NoJob" /\ IsTrue(conds, "OutOfUse") /\ found' = "Active"
       \/ found = "Active" /\ found' \in {"Complete", "Failed"}
       \/ found \in {"Active", "Complete", "Failed"} /\ found' = "NoJob"
    /\ now' = now + Second
    /\ UNCHANGED <<conds, phase, entered>>

Next == Pass \/ Wait \/ Happen

Spec == Init /\ [][Next]_vars

\* Phase is the latest condition (the comment on FluentPVCBindingStatus.Phase):
\* the one that became True last.
PhaseIsLatest ==
    phase = IF entered = << >> THEN "Pending" ELSE Last(entered)
=============================================================================
