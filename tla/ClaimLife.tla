------------------------------ MODULE ClaimLife ------------------------------
(***************************************************************************)
(* What the operator promises of the claims it makes, without saying how:  *)
(* a claim is kept while its pod may write to it, is processed by a        *)
(* finalizer job after that, and is given up only when it has been         *)
(* processed or when its pod was never reported to use it; the report is   *)
(* kept as long as the claim is.                                           *)
(***************************************************************************)
CONSTANT Names

VARIABLES
    life,   \* the stage of each claim
    ready   \* the claims whose binding reports that a pod uses them

Stages == {"none", "held", "over", "finalized", "released", "gone"}

Init == life = [n \in Names |-> "none"] /\ ready = {}

Advance(n, from, to) ==
    /\ life[n] = from
    /\ life' = [life EXCEPT ![n] = to]
    /\ UNCHANGED ready

Admit(n)   == Advance(n, "none", "held")
Refuse(n)  == Advance(n, "none", "gone")        \* no claim was made
PodEnds(n) == Advance(n, "held", "over")
Process(n) == Advance(n, "over", "finalized")   \* a finalizer job completes
Release(n) == Advance(n, "finalized", "released")
Abandon(n) == Advance(n, "over", "released") /\ n \notin ready
Reap(n)    == Advance(n, "released", "gone")

Report(n) ==
    /\ life[n] \in {"held", "over"} /\ n \notin ready
    /\ ready' = ready \cup {n}
    /\ UNCHANGED life

Forget(n) ==
    /\ life[n] \in {"released", "gone"} /\ n \in ready
    /\ ready' = ready \ {n}
    /\ UNCHANGED life

\* One claim changes its stage, or its report.
Next ==
    \E n \in Names :
        \/ /\ life'[n] # life[n]
           /\ \/ Admit(n) \/ Refuse(n) \/ PodEnds(n) \/ Process(n) \/ Release(n)
              \/ Abandon(n) \/ Reap(n)
        \/ /\ ready' # ready
           /\ Report(n) \/ Forget(n)

Spec == Init /\ [][Next]_<<life, ready>>
=============================================================================
