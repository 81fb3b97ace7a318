----------------------------- MODULE MCComponents -----------------------------
(* Small instances of Components for TLC.                                    *)
EXTENDS Components, TLC

CONSTANTS cpu, disk, p1, p2, v1, v2, j1, j2

Reporting == (cpu :> 1) @@ (disk :> 2)
Installed == (p1 :> v1) @@ (p2 :> v2)
TwoGetters == <<"get_processors", "get_drives">>
ByGetter == (cpu :> "get_processors") @@ (disk :> "get_drives")
=============================================================================
