----------------------------- MODULE MCEventLog -----------------------------
(* Instances of EventLog for TLC. *)
EXTENDS EventLog

CONSTANTS i1, i2, install

Instances  == {i1, i2}
OneAction  == {install}
Everything == Events
=============================================================================
