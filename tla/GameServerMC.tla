---------------------------- MODULE GameServerMC ----------------------------
EXTENDS GameServer

CONSTANTS c1, c2, c3

\* a board on which X wins at once in field 1, and the game goes on to a draw elsewhere
MCPositions == {1, 2}
MCLines == {{1}}

\* the third client asks for a name that may be taken
MCNameOf == (c1 :> "ala") @@ (c2 :> "ola") @@ (c3 :> "ala")
=============================================================================
