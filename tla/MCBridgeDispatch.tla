-------------------------- MODULE MCBridgeDispatch --------------------------
(* Instances of BridgeDispatch for TLC.                                    *)
EXTENDS BridgeDispatch, TLC

\* Invocations are interchangeable, and so are state requests.
Symmetry == Permutations(Calls) \cup Permutations(StateReqs)
=============================================================================
