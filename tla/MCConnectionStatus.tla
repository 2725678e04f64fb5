------------------------- MODULE MCConnectionStatus -------------------------
\* ConnectionStatus for TLC.
EXTENDS ConnectionStatus
=============================================================================
