\* Three machines, two addresses, two requests at a time.
SPECIFICATION Spec
CONSTANTS
  ka = ka  kb = kb  kc = kc  r1 = r1  r2 = r2
  Keys = {ka, kb, kc}
  Slots = {r1, r2}
  RangeSize = 6
  PeerTimeout = 2
  ReqTimeout = 1
  MaxClock = 3
  NoRow = NoRow
  NoRequest = NoRequest
  Nobody = Nobody
  Never <- MCNever
SYMMETRY Alike
INVARIANTS
  TypeOK AddressesUnique FullMeansFull RowsAreRecent HeardIsListed
PROPERTIES
  KeepsLedger ServesAtomically
