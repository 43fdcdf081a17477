------------------------------ MODULE MCSystem ------------------------------
(* Small instances of System for TLC.                                      *)
EXTENDS System

\* Sessions are interchangeable.
Interchangeable == Permutations(Sessions)
=============================================================================
