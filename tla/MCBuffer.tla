------------------------------ MODULE MCBuffer ------------------------------
(* Buffer for TLC. *)
EXTENDS Buffer
=============================================================================
