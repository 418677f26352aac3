------------------------------ MODULE Library ------------------------------
(***************************************************************************)
(* What Sanad's document API promises its users, without stores, threads   *)
(* or failures: a document appears whole, stays whole until somebody asks  *)
(* to delete it, may then be incomplete for a while, and once deleted      *)
(* never comes back.                                                       *)
(***************************************************************************)
CONSTANT Doc

VARIABLES
    state,      \* of each document
    asked       \* documents somebody has asked to delete

vars == <<state, asked>>

Init ==
    /\ state \in [Doc -> {"absent", "whole"}]
    /\ asked = {}

Appear(d) ==
    /\ state[d] = "absent"
    /\ state' = [state EXCEPT ![d] = "whole"]
    /\ UNCHANGED asked

AskToDelete(d) ==
    /\ state[d] \in {"whole", "incomplete"}
    /\ asked' = asked \cup {d}
    /\ UNCHANGED state

LosePart(d) ==
    /\ state[d] = "whole"
    /\ d \in asked
    /\ state' = [state EXCEPT ![d] = "incomplete"]
    /\ UNCHANGED asked

Vanish(d) ==
    /\ state[d] = "incomplete"
    /\ state' = [state EXCEPT ![d] = "deleted"]
    /\ UNCHANGED asked

Next == \E d \in Doc : Appear(d) \/ AskToDelete(d) \/ LosePart(d) \/ Vanish(d)

Spec == Init /\ [][Next]_vars
=============================================================================
