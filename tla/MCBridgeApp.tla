----------------------------- MODULE MCBridgeApp -----------------------------
\* Module BridgeApp as TLC checks it; the bounds are in the configuration.
EXTENDS BridgeApp
=============================================================================
