-------------------------- MODULE MCDissemination ---------------------------
(* Values of the constants for the run of Dissemination.                   *)
EXTENDS Dissemination

CONSTANTS a, b, f

(* The founder takes in a newcomer, or gives its place to a node that knows *)
(* it; this one follows the newcomer, or nobody.                           *)
Changes == {[type |-> "add", node |-> b],
            [type |-> "change", node |-> a, to |-> f]}
Nobody  == [n \in {a, b, f} |-> None]
Follows == {Nobody, [Nobody EXCEPT ![f] = b]}
=============================================================================
