--------------------------- MODULE MCListeningMode ---------------------------
EXTENDS ListeningMode
=============================================================================
