----------------------------- MODULE MCToolParts -----------------------------
EXTENDS ToolParts
=============================================================================
