----------------------------- MODULE MCDiscovery -----------------------------
(* Small instances of Discovery for TLC.                                    *)
EXTENDS Discovery, TLC

CONSTANTS m1, m2, s1, s2, siteA, siteB, n1, e1

OneTarget == <<m1>>
TwoTargets == <<m1, m2>>
TwoSites == (s1 :> siteA) @@ (s2 :> siteB)
OneSite == (s1 :> siteA) @@ (s2 :> siteA)
SameName == (m1 :> n1) @@ (m2 :> n1)
OneName == (m1 :> n1)
OwnNames == (m1 :> m1) @@ (m2 :> m2)
\* The two ranges with their sites are exchanged.
RangeSymmetry == {(s1 :> s1) @@ (s2 :> s2) @@ (siteA :> siteA) @@ (siteB :> siteB),
                  (s1 :> s2) @@ (s2 :> s1) @@ (siteA :> siteB) @@ (siteB :> siteA)}
ScanOne == (s1 :> siteA)
=============================================================================
