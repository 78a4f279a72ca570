---------------------------- MODULE MCSubstitutes ----------------------------
(* Instance of Substitutes for TLC.                                        *)
EXTENDS SubstitutesProperties, TLC

CONSTANTS c1, c2, h1, h2, d1

TwoHostBridges == (c1 :> h1) @@ (c2 :> h2)
BehindFirst == (d1 :> c1)

\* A start may fail at every stage, leave a bridge half hooked or half opened,
\* and a stop may leave it started.
SomeHazards == {"InstallRa", "OpenRa", "BaseStartFails", "StopChildren"}
=============================================================================
