--------------------------- MODULE MCSessionLedger ---------------------------
EXTENDS SessionLedger
=============================================================================
