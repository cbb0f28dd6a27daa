----------------------------- MODULE MC_MgmtRepl -----------------------------
EXTENDS MgmtRepl, TLC

CONSTANTS c1, c2

\* Two commands, e.g. devices() and readResource(...).
MCCalls == {c1, c2}

=============================================================================
