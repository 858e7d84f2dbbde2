------------------------------ MODULE MCSession ------------------------------
EXTENDS ClassSession
=============================================================================
