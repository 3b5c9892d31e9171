------------------------ MODULE MCSessionOrchestrator -------------------------
EXTENDS SessionOrchestrator
===============================================================================
