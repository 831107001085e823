------------------------------ MODULE MCClient ------------------------------
(***************************************************************************)
(* Instances of Client for TLC: the deals of MCGame.                       *)
(***************************************************************************)
EXTENDS Client, MCGame
=============================================================================
