---------------------------- MODULE ReplicatedLog ----------------------------
(***************************************************************************)
(* What one paxos group promises its clients: the group chooses at most    *)
(* one committed value per instance, instances are chosen in order, and    *)
(* every node executes the chosen values in the order of the instances.    *)
(*                                                                         *)
(* A step may choose and let a node learn at once: a node that accepts a   *)
(* message of the next instance first learns its own.                      *)
(***************************************************************************)
EXTENDS Integers

CONSTANTS Node, Value, MaxInstance

VARIABLES
    proposed,   \* values clients have committed
    chosen,     \* the values chosen in each instance
    learned     \* <<node, instance, value>> executed

vars == <<proposed, chosen, learned>>

Instance == 0 .. MaxInstance - 1

TypeOK ==
    /\ proposed \subseteq Value
    /\ chosen \in [Instance -> SUBSET Value]
    /\ learned \subseteq Node \X Instance \X Value

Init ==
    /\ proposed = {}
    /\ chosen = [i \in Instance |-> {}]
    /\ learned = {}

HasLearned(n, i) == \E v \in Value : <<n, i, v>> \in learned

Propose(v) ==
    /\ proposed' = proposed \cup {v}
    /\ UNCHANGED <<chosen, learned>>

Choose(i, v) ==
    /\ v \in proposed
    /\ chosen[i] = {}
    /\ \A j \in Instance : j < i => chosen[j] # {}
    /\ chosen' = [chosen EXCEPT ![i] = {v}]

Learn(n, i, v) ==
    /\ v \in chosen[i]
    /\ ~HasLearned(n, i)
    /\ \A j \in Instance : j < i => HasLearned(n, j)
    /\ learned' = learned \cup {<<n, i, v>>}

Next ==
    \/ \E v \in Value : Propose(v)
    \/ /\ \/ \E i \in Instance, v \in Value : Choose(i, v)
          \/ UNCHANGED chosen
       /\ \/ \E n \in Node, i \in Instance, v \in Value : Learn(n, i, v)
          \/ UNCHANGED learned
       /\ UNCHANGED proposed

Spec == Init /\ [][Next]_vars

(* Two nodes never execute different values in the same place of the log.  *)
Agreement ==
    \A n, m \in Node, i \in Instance, v, w \in Value :
        <<n, i, v>> \in learned /\ <<m, i, w>> \in learned => v = w

(* A node executes no instance before the ones in front of it.             *)
InOrder ==
    \A n \in Node, i, j \in Instance :
        HasLearned(n, i) /\ j < i => HasLearned(n, j)
=============================================================================
