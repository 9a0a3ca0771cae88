\* A main thread that boots its video and loads its settings again and again,
\* DIP switch requests and cable changes at any time.
CONSTANTS
  Residue = {0, 1, 9}
  TableSize = 8
  Baked = Baked
  CoinMode = CoinMode
  Garbage = Garbage
SPECIFICATION ConfigFairSpec
INVARIANTS
  VideoAgrees
  ConfigInv
PROPERTY
  ConfigSettles
