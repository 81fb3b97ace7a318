----------------------------- MODULE MCPortSync -----------------------------
(* Small instances of PortSync for TLC.                                    *)
EXTENDS PortSync, TLC

CONSTANTS p1, p2, eth, m1, m2

TwoPorts == <<p1, p2>>
TwoMacs == (p1 :> m1) @@ (p2 :> m2)
=============================================================================
