----------------------------- MODULE MCCoreBoot -----------------------------
(* CoreBoot with constants for TLC. *)
EXTENDS CoreBoot

Everything == Failures
=============================================================================
