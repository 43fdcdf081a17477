----------------------------- MODULE MCPlayout -----------------------------
\* Module Playout as TLC checks it; the bounds are in the configurations.
EXTENDS Playout
=============================================================================
