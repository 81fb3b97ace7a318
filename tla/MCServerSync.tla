---------------------------- MODULE MCServerSync ----------------------------
(* Small instances of ServerSync for TLC.                                  *)
EXTENDS ServerSync, TLC

CONSTANTS j1, j2, i1, e1
=============================================================================
