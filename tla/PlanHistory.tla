------------------------------ MODULE PlanHistory ------------------------------
(***************************************************************************)
(* What the revision store of a plan file promises its users, with no      *)
(* table, hash or retention rule in sight.                                 *)
(*                                                                         *)
(* A plan is a document made of parts.  A saved version holds some of the  *)
(* parts, exactly as they were when it was saved, for as long as it is     *)
(* kept.  Going back to a version puts back the parts it holds and leaves  *)
(* the others alone, and a version saved by the same step holds the        *)
(* document as it was before it.  A version may be dropped by any step,    *)
(* but never the one just saved and never the one just gone back to.       *)
(*                                                                         *)
(* PlanRevisions implements this specification.                            *)
(***************************************************************************)
EXTENDS Naturals

VARIABLES
    doc,    \* the live document: part -> value
    saved   \* version -> the parts saved with it: part -> value

vars == <<doc, saved>>

Init ==
    /\ saved = [v \in {} |-> doc]

\* Every version that is still there holds what it held before.
KeepsContents(versions) ==
    \A v \in versions : v \in DOMAIN saved /\ saved'[v] = saved[v]

\* The document is edited; versions may be dropped by the same step (a
\* lower retention), none is added.
Edit ==
    /\ DOMAIN saved' \subseteq DOMAIN saved
    /\ KeepsContents(DOMAIN saved')

\* A new version holds parts of the document as it is; the document stays.
Save ==
    /\ UNCHANGED doc
    /\ \E v \in DOMAIN saved' \ DOMAIN saved :
           /\ DOMAIN saved' \subseteq DOMAIN saved \cup {v}
           /\ KeepsContents(DOMAIN saved' \ {v})
           /\ \A p \in DOMAIN saved'[v] : saved'[v][p] = doc[p]

\* Back to version r, which stays; at most one version b is added, and it
\* holds the whole document as it was before the step.
GoBack ==
    \E r \in DOMAIN saved \cap DOMAIN saved' :
        /\ doc' = [p \in DOMAIN doc |->
                      IF p \in DOMAIN saved[r] THEN saved[r][p] ELSE doc[p]]
        /\ \E B \in SUBSET (DOMAIN saved' \ DOMAIN saved) :
               /\ \A b, c \in B : b = c
               /\ \A b \in B : saved'[b] = doc
               /\ DOMAIN saved' \ DOMAIN saved = B
               /\ KeepsContents(DOMAIN saved' \ B)

Next == Edit \/ Save \/ GoBack

Spec == Init /\ [][Next]_vars
================================================================================
