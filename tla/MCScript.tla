------------------------------- MODULE MCScript -------------------------------
(***************************************************************************)
(* The instance of Script that TLC checks: every script of few objects.     *)
(***************************************************************************)
EXTENDS Script, TLC

NameSymmetry == Permutations(Names)
===============================================================================
