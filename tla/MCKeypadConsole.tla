---------------------------- MODULE MCKeypadConsole ----------------------------
\* Every content of a small ring: with four slots it holds up to three keys
\* and wraps at every position.  A start follows two that failed or stopped.
EXTENDS KeypadConsole

CONSTANTS k1, k2

MCKeys == {k1, k2}
=============================================================================
