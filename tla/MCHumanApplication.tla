------------------------- MODULE MCHumanApplication -------------------------
EXTENDS HumanApplication
=============================================================================
