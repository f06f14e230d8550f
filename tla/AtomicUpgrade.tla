----------------------------- MODULE AtomicUpgrade -----------------------------
(***************************************************************************)
(* What the one-time conversion promises the owner of an old install: the  *)
(* plan is replaced as a whole, once, and only when the old plan is kept   *)
(* beside it; the conversion counts as done only after that.               *)
(*                                                                         *)
(* Conversion implements this specification also while requests are        *)
(* served; what the plan holds is then what the run last looked at until   *)
(* it swaps, and an edit made in between is not part of it.                *)
(***************************************************************************)
CONSTANT NoPlan   \* an install without a plan file has none to keep

VARIABLES
    phase,    \* "old", "live" (the converted copy is the plan) or "done"
    content,  \* what the plan holds
    kept      \* the old plans kept beside it

vars == <<phase, content, kept>>

Init == phase = "old" /\ kept = {}

\* The owner works on the plan, whatever its phase.
Work == UNCHANGED <<phase, kept>>

\* A copy of the plan is put aside.
Keep ==
    /\ UNCHANGED <<phase, content>>
    /\ kept' = kept \cup {content}

Upgrade ==
    /\ phase = "old"
    /\ phase' = "live"
    /\ content \in kept \cup {NoPlan}
    /\ UNCHANGED kept

Finish ==
    /\ phase = "live"
    /\ phase' = "done"
    /\ UNCHANGED kept

Next == Work \/ Keep \/ Upgrade \/ Finish

Spec == Init /\ [][Next]_vars
================================================================================
