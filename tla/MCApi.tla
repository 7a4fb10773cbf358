------------------------------- MODULE MCApi -------------------------------
(* An amount that uint32 wraps, and one that it keeps.                      *)
EXTENDS Api

SomeAmounts == {-1, 3}
=============================================================================
