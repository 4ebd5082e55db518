----------------------------- MODULE MCMessaging -----------------------------
(* Instances of Messaging for TLC. *)
EXTENDS Messaging

CONSTANTS i1, i2, ask, p1

TwoInstances == {i1, i2}
OneMessage   == {ask}
OneProvider  == {p1}
TwoClicks    == 1..2

Everything == Events
=============================================================================
