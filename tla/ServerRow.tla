------------------------------ MODULE ServerRow ------------------------------
(***************************************************************************)
(* What one server row promises: the half users own and the verdict of the *)
(* syncs change independently, each by its owner only and at once, as if   *)
(* every edit and every sync locked the row.  No verdict reverts or brings *)
(* back what users entered or deleted, no edit brings an old verdict back. *)
(* The promise ends once somebody's read-modify-write window is crossed.   *)
(***************************************************************************)
CONSTANTS UserParts, Absent

VARIABLES
    user,       \* what users entered, with the primary key; Absent: no row
    status,     \* the verdict of the last sync
    crossed     \* has a window ever been crossed?

vars == <<user, status, crossed>>

Verdicts == {"synced", "failed"}

Init == user = Absent /\ status = "new" /\ crossed = FALSE

\* A user, or the import that creates the row; a row begins without a verdict.
Change ==
    /\ user' \in UserParts
    /\ status' = IF user'.pk = user.pk THEN status ELSE "new"

Verdict ==
    /\ user # Absent /\ user' = user
    /\ status' \in Verdicts

Next ==
    \/ (Change \/ Verdict) /\ crossed' \in BOOLEAN /\ (crossed => crossed')
    \/ crossed /\ crossed' /\ user' \in UserParts /\ status' \in Verdicts \cup {"new"}

Spec == Init /\ [][Next]_vars
=============================================================================
