--------------------------- MODULE MCControlPlane ---------------------------
(* Small instances of ControlPlane for TLC.                                *)
EXTENDS ControlPlane

\* Sessions, grants and sockets are interchangeable; links are not, they are
\* numbered in the order they connect.
Interchangeable ==
    Permutations(Sessions) \cup Permutations(Grants) \cup Permutations(Sockets)
=============================================================================
