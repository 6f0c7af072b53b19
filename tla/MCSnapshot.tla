----------------------------- MODULE MCSnapshot -----------------------------
(* Instances of Snapshot for TLC: two builds, or a build and a session.    *)
EXTENDS Snapshot

MCSize == [t \in Texts |-> 1]
SameCode == [p \in Walkers |-> 25]
MixedCode == [p \in Walkers |-> IF p = "b1" THEN 24 ELSE 25]
=============================================================================
