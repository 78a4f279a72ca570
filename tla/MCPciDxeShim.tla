---------------------------- MODULE MCPciDxeShim ----------------------------
(* Instances of PciDxeShim and its properties for TLC.                     *)
EXTENDS PciDxeShimProperties, TLC

CONSTANTS c1, c2, h1, h2, d1, d2

\* Two root bridges below one host bridge, as on the board the shim is for.
OneHostBridge == (c1 :> h1) @@ (c2 :> h1)

\* Two root bridges, each with a host bridge of its own.
TwoHostBridges == (c1 :> h1) @@ (c2 :> h2)

\* Two functions behind the first root bridge, none behind the second.
BothOnFirst == (d1 :> c1) @@ (d2 :> c1)

\* Everything the shim must survive.
Tolerable == AllHazards \ Intolerable

\* Opens, closes and the base driver fail: nothing is leaked.
Refusals == {"OpenTest", "OpenIo", "CloseIo", "CloseRa",
             "BaseRejects", "BaseStartFails", "BaseStopFails"}

NoHazards == {}

\* One failure at a time, for the promises of the comments.
OnlyBaseStart == {"BaseStartFails"}
OnlyScrub == {"Scrub"}

\* Blocks are interchangeable; the root bridges are not in every instance.
BlockSymmetry == Permutations(IoBlocks) \cup Permutations(RaBlocks)
=============================================================================
