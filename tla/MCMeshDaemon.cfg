\* Safety of one meshd against any user, any server and any failure.
SPECIFICATION Spec
CONSTANTS
  k1 = k1  k2 = k2  d1 = d1  d2 = d2  v4 = v4  v6 = v6  l1 = l1  l2 = l2
  me = me
  ZeroKey = ZeroKey
  Keys = {k1, k2, ZeroKey}
  Data = {d1, d2}
  IdKeys = {me, k2}
  IPs = {v4, v6}
  BitLen <- MCBitLen
  CidrBits = {2}
  Settings = {l1, l2}
  NoKey = NoKey
  NoAddr = NoAddr
  BadAddr = BadAddr
  Garbage = Garbage
  Unreadable = Unreadable
  NoRead = NoRead
  NoTunnel = NoTunnel
  Unset = Unset
  UserConfigs <- MCUserConfigs
  ServerLists <- MCServerLists
  Faults = {"open", "port", "peer", "write"}
  MaxUpsets = 2
INVARIANTS
  TypeOK SyncedDisjoint FileDecides MemoryOnDisk KeyOnDisk RestartForgetsNothing
PROPERTIES
  OnlyServerSpoils WritesOnlyItsParts OldListNotRevived
