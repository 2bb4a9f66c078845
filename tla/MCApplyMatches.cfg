SPECIFICATION Spec
CONSTANTS
  Keys = {1, 2, 3}
  e1 = e1
  e2 = e2
  i1 = i1
  i2 = i2
  p1 = p1
  p2 = p2
  Ips = {i1, i2}
  Endpoints = {e1, e2}
  Ports = {p1, p2}
  Goals <- MCApartGoals
  ToolPeers = {}
  ToolPorts = {}
  Faults = {}
  NoPeer = NoPeer
  NoEndpoint = NoEndpoint
  NoPort = NoPort
INVARIANT
  ApplyMatches
