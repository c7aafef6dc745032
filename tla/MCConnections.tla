---------------------------- MODULE MCConnections -----------------------------
(* Constants of Connections that a cfg cannot express. *)
EXTENDS Connections

FiveFds == 0..4
===============================================================================
