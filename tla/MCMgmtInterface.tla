-------------------------- MODULE MCMgmtInterface --------------------------
(* Small instances of MgmtInterface for TLC.                               *)
EXTENDS MgmtInterface, TLC

CONSTANTS mgmt, m1, m2, a1, a2
=============================================================================
