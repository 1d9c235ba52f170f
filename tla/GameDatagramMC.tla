--------------------------- MODULE GameDatagramMC ---------------------------
EXTENDS GameDatagram

CONSTANTS c1, c2, c3, u1, u2, p1

\* a board of one move
MCOneMove == {1}
MCLines == {{1}}

MCNameOf == (c1 :> "ala") @@ (c2 :> "ola") @@ (c3 :> "ela")
=============================================================================
