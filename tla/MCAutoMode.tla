----------------------------- MODULE MCAutoMode -----------------------------
(***************************************************************************)
(* TLC instances of AutoMode.  Runs are interchangeable, and so are the    *)
(* features where none of them is Manual.                                  *)
(***************************************************************************)
EXTENDS AutoMode, TLC

RunSymmetry == Permutations(Run)
=============================================================================
