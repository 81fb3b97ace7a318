------------------------------ MODULE MCAccess ------------------------------
(* Small instances of Access for TLC.                                      *)
EXTENDS Access, TLC

CONSTANTS k1, k2, p1, e1, e2, ext, int, hyp

Cidr(b, n) == [kind |-> "cidr", base |-> b, size |-> n]
Dash(a, b) == [kind |-> "range", first |-> a, last |-> b]
Single(h) == [kind |-> "host", host |-> h]
SomeTokens == {Cidr(5, 4), Cidr(3, 2), Cidr(6, 1), Dash(2, 5), Dash(5, 2), Dash(4, 6),
               Single(5), Single(ext), Single(int), Single(hyp), [kind |-> "malformed"]}
\* Each of them alone, and each after a network, a range or a name.
SomeTexts == {<<t>> : t \in SomeTokens}
             \cup {<<t, u>> : t \in {Cidr(5, 4), Dash(2, 5), Single(int)}, u \in SomeTokens}
Names == (int :> {5}) @@ (ext :> {1, 5}) @@ (hyp :> {4})
Symmetry == Permutations(Keys) \cup Permutations(Editors)
=============================================================================
