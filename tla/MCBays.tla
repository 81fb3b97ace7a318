------------------------------ MODULE MCBays ------------------------------
(* Small instances of Bays for TLC.                                        *)
EXTENDS Bays, TLC

CONSTANTS s1, s2, b1, b2, c1, c2, eno

TwoSlots == <<s1, s2>>
OneBayEach == (b1 :> s1) @@ (b2 :> s2)
SamePattern == (b1 :> 1) @@ (b2 :> 1)
\* A slot with an inic and an ocp bay, and a slot with none.
TwoBaysOne == (b1 :> s1) @@ (b2 :> s1)
TwoPatterns == (b1 :> 1) @@ (b2 :> 2)
=============================================================================
