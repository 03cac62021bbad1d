-------------------------- MODULE MCStateMachines ---------------------------
(* Values of the constants for the runs of StateMachines.                  *)
EXTENDS StateMachines

CONSTANTS a, b, c

AddOne     == [at |-> a, type |-> "add", node |-> c]
RemoveOne  == [at |-> b, type |-> "remove", node |-> b]
ReplaceOne == [at |-> b, type |-> "change", node |-> b, to |-> c]

Changes  == {AddOne, RemoveOne, ReplaceOne}
=============================================================================
