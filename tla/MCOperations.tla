---------------------------- MODULE MCOperations ----------------------------
(* Instances of Operations for TLC. *)
EXTENDS Operations

CONSTANTS i1, i2, i3

TwoInstances   == {i1, i2}
ThreeInstances == {i1, i2, i3}

OneOp == {1}

Nothing   == {}
Unordered == {"leave", "join", "again", "deadlock"}
=============================================================================
