----------------------- MODULE MCCheckpointTransfer --------------------------
EXTENDS CheckpointTransfer

\* Two state machines take turns; S is far ahead of L, the one behind.
MCSMOf == [i \in 0..MaxInstance |-> IF i % 2 = 0 THEN "a" ELSE "b"]
MCStartAt == [n \in Node |-> IF n = "L" THEN 1 ELSE 3]
MCSMList == <<"a", "b">>
Runs(n) == replayer[n].pc # "off"

\* Bound: a second request only where no log has been written or cleaned under a
\* transfer, and the replayer of S runs.
MCBound ==
    \/ asks < 2
    \/ \A n \in Node : phase[n] # "mixed" /\ (n \in Replayers => Runs(n))

MCBlocksOf == [s \in SM |-> IF s = "a" THEN 2 ELSE 1]
=============================================================================
