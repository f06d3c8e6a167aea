---------------------------- MODULE MCS3Adapter ----------------------------
(* S3Adapter for TLC. *)
EXTENDS S3Adapter
=============================================================================
