--------------------------- MODULE SessionService ---------------------------
(***************************************************************************)
(* What the control plane promises about sessions, without sockets, links, *)
(* clocks or the bridge: a session is opened only below the capacity and   *)
(* paid for with a grant nobody used before, it may be closed and reported *)
(* open again by the bridge, and once forgotten it never comes back.       *)
(* ControlPlane is shown to implement this.                                *)
(***************************************************************************)
EXTENDS Naturals, FiniteSets

CONSTANTS Sessions, Grants, None, SessionCapacity

VARIABLES
    phase,   \* "new", "open", "closed" or "gone"
    buyer    \* the grant that paid for the session, None for the operator

Init ==
    /\ phase = [s \in Sessions |-> "new"]
    /\ buyer = [s \in Sessions |-> None]

In(p) == {s \in Sessions : phase[s] = p}

\* A session is admitted.
Open(s, g) ==
    /\ phase[s] = "new"
    /\ Cardinality(In("open")) < SessionCapacity
    /\ g # None => \A t \in Sessions : buyer[t] # g
    /\ phase' = [phase EXCEPT ![s] = "open"]
    /\ buyer' = [buyer EXCEPT ![s] = g]

\* A late event of the bridge revives a closed session.
Reopen(s) ==
    /\ phase[s] = "closed"
    /\ phase' = [phase EXCEPT ![s] = "open"]
    /\ UNCHANGED buyer

\* The sessions of C are closed; those of F are forgotten, some in one step.
Sweep(C, F) ==
    /\ phase' = [s \in Sessions |-> IF s \in F THEN "gone"
                                    ELSE IF s \in C THEN "closed" ELSE phase[s]]
    /\ UNCHANGED buyer

Next ==
    \/ \E s \in Sessions : Reopen(s) \/ \E g \in Grants \cup {None} : Open(s, g)
    \/ \E C \in SUBSET In("open"), F \in SUBSET (In("open") \cup In("closed")) :
          F \cap In("open") \subseteq C /\ Sweep(C, F)

Spec == Init /\ [][Next]_<<phase, buyer>>
=============================================================================
