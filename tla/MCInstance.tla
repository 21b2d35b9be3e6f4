------------------------------ MODULE MCInstance ------------------------------
EXTENDS Instance
=============================================================================
