---------------------- MODULE MCInvestigationRuntime ----------------------
EXTENDS InvestigationRuntime, TLC

CONSTANTS w1, w2

=============================================================================
