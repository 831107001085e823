------------------------------- MODULE MCRooms -------------------------------
(***************************************************************************)
(* Instances of GameCoordinator for TLC.                                   *)
(***************************************************************************)
EXTENDS GameCoordinator

CONSTANTS a, b, s1

\* Who asks for room a is sent to room b, and the other way round.
Codes == [r \in Room |-> IF r = a THEN b ELSE a]
=============================================================================
