\* An edit that falls between the read and the write of a save.
SPECIFICATION Spec
CONSTANTS
  k1 = k1  k2 = k2  d1 = d1  d2 = d2  v4 = v4  v6 = v6  l1 = l1  l2 = l2
  me = me
  ZeroKey = ZeroKey
  Keys = {k1, k2, ZeroKey}
  Data = {d1, d2}
  IdKeys = {me, k2}
  IPs = {v4}
  BitLen <- MCBitLen
  CidrBits = {1}
  Settings = {l1, l2}
  NoKey = NoKey
  NoAddr = NoAddr
  BadAddr = BadAddr
  Garbage = Garbage
  Unreadable = Unreadable
  NoRead = NoRead
  NoTunnel = NoTunnel
  Unset = Unset
  UserConfigs <- MCFewConfigs
  ServerLists <- MCServerLists
  Faults = {}
  MaxUpsets = 1
PROPERTIES
  EditsKept
