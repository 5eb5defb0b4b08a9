---------------------------- MODULE MCKeyLimiter ----------------------------
(* Instances of KeyLimiter for TLC. *)
EXTENDS KeyLimiter, TLC

TwoEach == [k \in Keys |-> 2]
ThreeEach == [k \in Keys |-> 3]
=============================================================================
