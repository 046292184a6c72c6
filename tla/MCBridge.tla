------------------------------ MODULE MCBridge ------------------------------
(* Instances of BridgeProcessor for TLC.                                    *)
EXTENDS BridgeProcessor, TLC

\* Task commands are interchangeable.
TaskSymmetry == Permutations(Tasks)
=============================================================================
