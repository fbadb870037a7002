--------------------------- MODULE MCStrategyRuns ---------------------------
EXTENDS StrategyRuns, TLC

CONSTANTS p1, p2, c1

MCProcesses == {p1, p2}
MCCalls == {c1}
=============================================================================
