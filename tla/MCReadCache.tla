----------------------------- MODULE MCReadCache -----------------------------
EXTENDS ReadCache
=============================================================================
