----------------------------- MODULE MCSegmenter -----------------------------
(* Small instances of Segmenter for TLC.                                   *)
EXTENDS Segmenter
=============================================================================
