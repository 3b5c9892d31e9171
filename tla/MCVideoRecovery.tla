---------------------------- MODULE MCVideoRecovery ----------------------------
EXTENDS VideoRecovery
===============================================================================
