---------------------------- MODULE MCCommitPath ----------------------------
(* An instance of CommitPath for TLC.                                      *)
EXTENDS CommitPath
=============================================================================
