---------------------------- MODULE MCGuidMakefile ----------------------------
(* An instance of GuidMakefile for TLC.                                    *)
EXTENDS GuidMakefile

Bytes == 0..255
NoHazards == {}

\* Up to three pieces, and a byte at the end: GUIDs to replace, beginnings and
\* ends of them, and nothing, in any order.
Wholes == {p[1] : p \in HeaderPairs}
Pieces == Wholes \cup {SubSeq(g, 1, 8) : g \in Wholes} \cup {SubSeq(g, 2, 16) : g \in Wholes} \cup {<<>>}
FirmwareFiles ==
  {f \o <<0>> : f \in {x \o y \o z : x \in Pieces, y \in Wholes, z \in Pieces}}
=============================================================================
