------------------------------- MODULE MCLList -------------------------------
(***************************************************************************)
(* The instance of LList that TLC checks: five nodes, so that a freed node  *)
(* is soon allocated again, and two values.                                 *)
(***************************************************************************)
EXTENDS LList, TLC

(* No node differs from another but by how it is linked.                     *)
NodeSymmetry == Permutations(LNode)
===============================================================================
