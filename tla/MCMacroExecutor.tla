-------------------------- MODULE MCMacroExecutor --------------------------
EXTENDS MacroExecutor

MCGuestErrors == {"boom"}
=============================================================================
