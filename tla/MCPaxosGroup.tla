---------------------------- MODULE MCPaxosGroup ----------------------------
(* Instances of PaxosGroup for TLC.                                        *)
EXTENDS PaxosGroup, TLC

Two   == {1, 2}
Three == {1, 2, 3}

(* Every node hears every other.                                           *)
FullLink == Node \X Node

(* Five nodes, of which 1 talks to 2 and 4, 3 talks to 4 and 5, and 3 can  *)
(* also reach 1.                                                           *)
Five == 1 .. 5
SplitLink == {<<1, 2>>, <<2, 1>>, <<1, 4>>, <<4, 1>>,
              <<3, 4>>, <<4, 3>>, <<3, 5>>, <<5, 3>>, <<3, 1>>}

(* The behaviours in which nodes 1 and 3 alone decide the first instance.  *)
TwoDecide ==
    instanceID[1] = 0 => phase[3] = "idle" /\ promiseBallot[2] = NullBallot

-----------------------------------------------------------------------------
(* A view of the states: without what no step will look at again.          *)

MayInterrupt(nodes, n) == n \in nodes /\ interrupts < MaxInterrupts
MayRestart(n) == MayInterrupt(RestartNodes, n)

(* n may still prepare in the instance it is in, or choose a ballot there  *)
(* or in a later one.                                                      *)
MayPrepare(n) ==
    \/ phase[n] = "preparing"
    \/ MayInterrupt(TimerNodes, n)
    \/ n \in Proposers /\ commit[n] = None

MayChoose(n) ==
    \/ MayInterrupt(TimerNodes \cup RestartNodes, n)
    \/ /\ n \in Proposers
       /\ commit[n] = None \/ instanceID[n] + 1 < MaxInstance

(* A reply is of use in its instance, a reject in the next one as well.    *)
ReplyLives(m) ==
    IF m.reject # 0
    THEN /\ MayChoose(m.to)
         /\ \/ m.inst = instanceID[m.to]
            \/ m.inst + 1 = instanceID[m.to] /\ m.inst + 1 < MaxInstance
    ELSE /\ m.inst = instanceID[m.to]
         /\ m.bal[1] = proposalID[m.to]
         /\ \/ MayPrepare(m.to)
            \/ m.type = "acceptReply" /\ phase[m.to] # "idle"

(* What is rejected has to be of use to the proposer.                      *)
RequestLives(m) ==
    \/ m.inst > instanceID[m.to]
    \/ /\ m.inst = instanceID[m.to]
       /\ BallotGE(m.bal, promiseBallot[m.to]) \/ MayChoose(m.bal[2])

Live(m) ==
    \/ MayRestart(m.to)
    \/ m.type \in {"prepareReply", "acceptReply"} /\ ReplyLives(m)
    \/ m.type \in {"prepare", "accept"} /\ RequestLives(m)
    \/ m.type \in {"success", "learn"} /\ m.inst >= instanceID[m.to]

LiveView ==
    <<learnVars, paxosLog, historyVars, phase,
      [n \in Node |->
         IF instanceID[n] = MaxInstance /\ ~MayRestart(n) THEN <<>>
         ELSE <<promiseBallot[n], acceptedBallot[n], acceptedValue[n],
                proposalID[n], value[n],
                IF MayChoose(n)
                THEN <<highestOther[n], canSkipPrepare[n], wasReject[n]>>
                ELSE <<>>,
                IF phase[n] = "preparing" THEN preAcceptBallot[n]
                ELSE NullBallot,
                IF phase[n] = "idle" THEN {} ELSE granted[n]>>],
      {m \in msgs : Live(m)}>>

ValueSymmetry == Permutations(Value)
=============================================================================
