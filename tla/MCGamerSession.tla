--------------------------- MODULE MCGamerSession ---------------------------
EXTENDS GamerSession
=============================================================================
