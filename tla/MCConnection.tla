---------------------------- MODULE MCConnection ----------------------------
EXTENDS Connection
=============================================================================
