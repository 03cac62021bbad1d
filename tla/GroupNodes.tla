----------------------------- MODULE GroupNodes -----------------------------
(* The nodes of a group, for the state machines that name them.            *)
CONSTANTS
    Node,
    None   \* no node: nullnode, gid 0; no value and no checkpoint

ASSUME NodesAssumption == None \notin Node
=============================================================================
