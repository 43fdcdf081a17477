----------------------------- MODULE MCShutdown -----------------------------
\* Module Shutdown as TLC checks it; the bounds are in the configuration.
EXTENDS Shutdown
=============================================================================
