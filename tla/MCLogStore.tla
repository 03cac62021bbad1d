----------------------------- MODULE MCLogStore ----------------------------
(* An instance of LogStore for TLC.                                        *)
EXTENDS LogStore
=============================================================================
