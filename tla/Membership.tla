----------------------------- MODULE Membership -----------------------------
(***************************************************************************)
(* The members of a group: SystemVSM, the state machine of the group that  *)
(* holds its gid and its nodes, at every node.  Its variables are written  *)
(* to the store, synced, before they are taken over in memory, so that a   *)
(* restart finds what was there.  A list of nodes is a set.                *)
(***************************************************************************)
EXTENDS GroupNodes, Integers

CONSTANTS
    Founders   \* m_vecNodeInfoList: the nodes every node is configured with

ASSUME MembershipAssumption == Founders \subseteq Node

VARIABLES
    gid,         \* the gid of a group, named by the node that made it
    sysVersion,  \* the instance of the last change, or NoSysVersion
    members      \* membership(), and m_setNodeID

memberVars == <<gid, sysVersion, members>>

NoSysVersion == -1   \* (uint64_t)-1

(* Config::Init: SystemVSM::Init and AddNodeIDList.                        *)
MemberInit ==
    /\ gid = [n \in Node |-> None]
    /\ sysVersion = [n \in Node |-> NoSysVersion]
    /\ members = [n \in Node |-> Founders]
-----------------------------------------------------------------------------
(* AddMember, RemoveMember and ChangeMember: the list that is proposed, or *)
(* None if the call returns at once.                                       *)
AddMember(x, list) == IF x \in list THEN None ELSE list \cup {x}

RemoveMember(x, list) == IF x \notin list THEN None ELSE list \ {x}

ChangeMember(x, y, list) ==
    IF x \notin list /\ y \in list THEN None
    ELSE (list \ {x, y}) \cup {y}

NewMembers(c, list) ==
    CASE c.type = "add"    -> AddMember(c.node, list)
      [] c.type = "remove" -> RemoveMember(c.node, list)
      [] c.type = "change" -> ChangeMember(c.node, c.to, list)

MembershipOpValue(n, v, list) ==
    [sm |-> "system", gid |-> gid[n], version |-> v, members |-> list]

CreateGidOpValue(n) ==
    [sm |-> "system", gid |-> n, version |-> sysVersion[n],
     members |-> members[n]]

(* Mutant of CheckConfig: a node without members may propose.              *)
MemberOrAlone(n) == members[n] = {} \/ n \in members[n]
CheckConfig(n) == n \in members[n]

(* SystemVSM::Execute: a change of this group that was made from the       *)
(* present version.                                                        *)
AcceptsAnyVersion(n, op) == gid[n] \in {None, op.gid}
Accepts(n, op) ==
    /\ gid[n] \in {None, op.gid}
    /\ op.version = sysVersion[n]

UpdateSystemVariables(n, vars) ==
    /\ gid' = [gid EXCEPT ![n] = vars.gid]
    /\ sysVersion' = [sysVersion EXCEPT ![n] = vars.version]
    /\ members' = [members EXCEPT ![n] = vars.members]

ExecuteChange(n, op, inst) ==
    IF Accepts(n, op)
    THEN UpdateSystemVariables(n, [op EXCEPT !.version = inst])
    ELSE UNCHANGED memberVars

SystemCheckpoint(n) ==
    IF sysVersion[n] = NoSysVersion \/ gid[n] = None THEN None
    ELSE [gid |-> gid[n], version |-> sysVersion[n], members |-> members[n]]

(* SystemVSM::UpdateByCheckpoint.                                          *)
ChangedByAnyCheckpoint(n, cp) == cp # None /\ gid[n] \in {None, cp.gid}
ChangedByCheckpoint(n, cp) ==
    /\ cp # None
    /\ gid[n] \in {None, cp.gid}
    /\ sysVersion[n] = NoSysVersion \/ cp.version > sysVersion[n]
=============================================================================
