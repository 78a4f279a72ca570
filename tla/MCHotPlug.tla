------------------------------ MODULE MCHotPlug ------------------------------
(* Instances of HotPlug for TLC: the root port, the two Thunderbolt ports  *)
(* below it and another bridge.                                            *)
EXTENDS HotPlugProperties

OtherBridge == [bus |-> 5, dev |-> 2, func |-> 0]
BoardBridges == Thunderbolt \cup {RootPort, OtherBridge}
=============================================================================
