---------------------------- MODULE MCLearnerSync ---------------------------
(* Instances of LearnerSync for TLC.                                       *)
EXTENDS LearnerSync

(* Nodes 2 and 3 hear node 1 only.                                         *)
Three    == {1, 2, 3}
StarLink == {<<1, 2>>, <<2, 1>>, <<1, 3>>, <<3, 1>>}

(* Node 2 lacks more values than the sender sends without an ack; or 2 and *)
(* 3 compete for the sender of node 1.                                     *)
Setup(start, n) == [start |-> start, events |-> n]

FarOrBoth == {Setup(<<4, 0, 4>>, 1), Setup(<<2, 0, 0>>, 0)}
=============================================================================
