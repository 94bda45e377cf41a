------------------------------ MODULE MCRunLock ------------------------------
EXTENDS RunLock
=============================================================================
