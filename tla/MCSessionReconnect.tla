-------------------------- MODULE MCSessionReconnect --------------------------
EXTENDS SessionReconnect
=============================================================================
