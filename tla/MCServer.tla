------------------------------ MODULE MCServer ------------------------------
(* Server for TLC: what the entries say does not matter here. *)
EXTENDS Server

MCTemplate == [c \in Contents |-> c]
=============================================================================
