------------------------------ MODULE MCServer ------------------------------
(***************************************************************************)
(* Instances of GameServer for TLC.                                        *)
(***************************************************************************)
EXTENDS GameServer, TLC

CONSTANTS a, b

\* Who asks for room a is sent to room b, and the other way round.
Codes == [r \in Room |-> IF r = a THEN b ELSE a]

\* Neither sockets nor sessions are told apart.
Alike == Permutations(Conn) \cup Permutations(Session)
=============================================================================
