--------------------------- MODULE MCDebugSession ---------------------------
EXTENDS DebugSession
=============================================================================
