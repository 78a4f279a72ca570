SPECIFICATION LiveSpec
CONSTANTS
  c1 = c1
  c2 = c2
  d1 = d1
  d2 = d2
  h1 = h1
  h2 = h2
  Controllers = {c1, c2}
  HostBridges = {h1, h2}
  HostBridgeOf <- OneHostBridge
  IoBlocks = {b1, b2}
  RaBlocks = {r1, r2}
  Devices = {d1, d2}
  BridgeOf <- BothOnFirst
  Buffers = {f1}
  NULL = NULL
  Hazards <- NoHazards
PROPERTY AnyRootBridgeSupported
