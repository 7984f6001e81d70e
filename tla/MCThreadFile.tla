---------------------------- MODULE MCThreadFile ----------------------------
(* ThreadFile on small sets of callers.                                    *)
EXTENDS ThreadFile

CONSTANTS o, c1
=============================================================================
