------------------------------ MODULE MCGevulot2 ------------------------------
EXTENDS Gevulot2
=============================================================================
