---------------------------- MODULE MCThreeNodes ----------------------------
(***************************************************************************)
(* Three nodes for TLC.  Either every message arrives, clients commit on   *)
(* the nodes of Proposers and there is a second instance; or only the      *)
(* messages between some of the nodes arrive, and clients commit on all    *)
(* three, in one instance and with the smallest ballots: enough for a      *)
(* proposer that is overtaken to prepare its ballot a second time.         *)
(***************************************************************************)
EXTENDS MCPaxosGroup

VARIABLE links      \* "all" or "some"

SomeLinks == {<<1, 3>>, <<2, 1>>, <<2, 3>>, <<3, 2>>}

Sparse == INSTANCE MCPaxosGroup WITH
            Link <- SomeLinks, Proposers <- Node,
            MaxInstance <- 1, MaxProposalID <- 1

MCInit == Init /\ links \in {"all", "some"}

MCNext ==
    /\ \/ links = "all" /\ Next
       \/ links = "some" /\ Sparse!Next
    /\ UNCHANGED links

MCSpec == MCInit /\ [][MCNext]_<<vars, links>>

(* Bounds: a behaviour ends with the first ballot that has two values, and *)
(* where all links work two values are committed.                          *)
MCBound ==
    /\ \A i \in Instance : \A b \in BallotsOf(i) : ~HasTwoValues(i, b)
    /\ links = "all" => Cardinality(proposed) <= 2
    /\ links = "some" => \A n \in Node : instanceID[n] = 0

MCView == <<links, IF links = "all" THEN LiveView ELSE Sparse!LiveView>>
=============================================================================
