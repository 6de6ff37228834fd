---------------------------- MODULE MCStyleRanges ----------------------------
(***************************************************************************)
(* The instance of StyleRanges that TLC checks.                             *)
(***************************************************************************)
EXTENDS StyleRanges, TLC

=============================================================================
