SPECIFICATION SubSpec
CONSTANTS
  c1 = c1
  c2 = c2
  d1 = d1
  h1 = h1
  h2 = h2
  Controllers = {c1, c2}
  HostBridges = {h1, h2}
  HostBridgeOf <- TwoHostBridges
  IoBlocks = {b1}
  RaBlocks = {r1}
  Devices = {d1}
  BridgeOf <- BehindFirst
  Buffers = {f1}
  NULL = NULL
  Hazards <- SomeHazards
  MaxCalls = 2
  Nested = {"PciRead"}
INVARIANTS CallTypeOK LookedUpHome
PROPERTY IsTransparent
\* The program may stop at an undefined access, or when every block is leaked.
CHECK_DEADLOCK FALSE
