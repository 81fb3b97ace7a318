--------------------------- MODULE ComponentMirror ---------------------------
(***************************************************************************)
(* What the component inventory of a server promises: every entry's part   *)
(* has really been in that slot and so has its firmware, if it has one,    *)
(* and however many syncs fail or overlap, an inventory is never emptied.  *)
(* It may be behind the hardware and it may miss parts and versions.       *)
(***************************************************************************)
CONSTANTS Keys, Parts, FirmwareOf, None

VARIABLES
    hw,         \* hw[k]: the part in slot k
    was,        \* was[k]: the parts that have ever been in slot k
    table       \* table[k]: the part and firmware the inventory has for slot k

vars == <<hw, was, table>>

Empty == [k \in Keys |-> None]
Contents == [Keys -> Parts \cup {None}]

\* What may be said of a slot that has held these parts.
Entries(past) == past \X ({FirmwareOf[p] : p \in past} \cup {None})

Init ==
    /\ hw \in Contents
    /\ was = [k \in Keys |-> {hw[k]} \ {None}]
    /\ table = Empty

Swap(k, p) ==
    /\ hw' = [hw EXCEPT ![k] = p]
    /\ was' = [was EXCEPT ![k] = @ \cup ({p} \ {None})]
    /\ UNCHANGED table

Update ==
    /\ table' \in [Keys -> Entries(Parts) \cup {None}]
    /\ \A k \in Keys : table'[k] \in {table[k], None} \cup Entries(was[k])
    /\ table # Empty => table' # Empty
    /\ UNCHANGED <<hw, was>>

Next == Update \/ \E k \in Keys, p \in Parts \cup {None} : Swap(k, p)

Spec == Init /\ [][Next]_vars
=============================================================================
