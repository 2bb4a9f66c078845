SPECIFICATION FairSpec
CONSTANTS
  Machines = {m1, m2, m3}
  NumAddrs = 2
  MaxTroubles = 1
  NoRow = NoRow
  NoAddr = NoAddr
INVARIANTS
  TypeOK
  AddressesApart
  PeersTrue
PROPERTIES
  Converges
