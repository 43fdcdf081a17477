----------------------------- MODULE Utterances -----------------------------
(***************************************************************************)
(* What a segmenter promises to the session that feeds it: at most one     *)
(* utterance is open at a time, utterances are numbered 1, 2, 3, ... in    *)
(* the order they start, each may be reported partially while it is open,  *)
(* and each ends with one final report.                                    *)
(***************************************************************************)
EXTENDS Naturals

VARIABLES
    open,   \* the open utterance, 0 when there is none
    count,  \* utterances started so far
    event   \* what the last call returned

Nothing == [kind |-> "none", utterance |-> 0]

UttInit == open = 0 /\ count = 0 /\ event = Nothing

\* A call that returns nothing: silence, or more of an utterance.
Quiet == event' = Nothing /\ UNCHANGED <<open, count>>

Start ==
    /\ open = 0
    /\ count' = count + 1
    /\ open' = count'
    /\ event' = Nothing

Partial ==
    /\ open # 0
    /\ event' = [kind |-> "partial", utterance |-> open]
    /\ UNCHANGED <<open, count>>

Final ==
    /\ open # 0
    /\ open' = 0
    /\ event' = [kind |-> "final", utterance |-> open]
    /\ UNCHANGED count

UttNext == Quiet \/ Start \/ Partial \/ Final

UttSpec == UttInit /\ [][UttNext]_<<open, count, event>>
=============================================================================
