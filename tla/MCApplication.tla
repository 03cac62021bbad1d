--------------------------- MODULE MCApplication ---------------------------
(* Constants of the run Application.                                       *)
EXTENDS Application
=============================================================================
