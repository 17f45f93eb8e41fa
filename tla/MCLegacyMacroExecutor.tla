------------------------ MODULE MCLegacyMacroExecutor ------------------------
EXTENDS LegacyMacroExecutor
=============================================================================
