---------------------------- MODULE MCMeshDaemon ----------------------------
(* Small instances of MeshDaemon for TLC. *)
EXTENDS MeshDaemon

CONSTANTS me, k1, k2, d1, d2, v4, v6, l1, l2

\* Two families of addresses; their lengths are scaled down, and what counts
\* is that a prefix length of the one can be too much for the other.
MCBitLen == [ip \in IPs |-> IF ip = v4 THEN 1 ELSE 2]

A4 == PrefixFrom(v4, 1)
A6 == PrefixFrom(v6, 2)

Entry(s, k, d) == [source |-> s, key |-> k, data |-> d]

File(server, addr, live, peers) ==
  [server |-> server, live |-> live, key |-> NoKey, addr |-> addr, peers |-> peers]

\* With a server, and without one.  Each can be an old copy to the other.
MCUserConfigs ==
  { File(TRUE,  A6, l2, {Entry("static", k1, d1)}),
    File(FALSE, A4, l1, {Entry("blocked", k1, d1), Entry("synced", k2, d2)}) }

\* Just set up, and in use without a server.
MCFewConfigs ==
  { File(TRUE,  NoAddr, l1, {Entry("static", k1, d1)}),
    File(FALSE, A4, l2, {Entry("blocked", k1, d1), Entry("synced", k2, d1)}) }

\* An edit that adds a server, drops the address and blocks a peer.
MCMoveToServer ==
  { File(FALSE, A4, l1, {Entry("static", k1, d1)}),
    File(TRUE,  NoAddr, l1, {Entry("blocked", k1, d1)}) }

\* Without a server, and two listen ports.
MCTwoPorts ==
  { File(FALSE, A4, l1, {}), File(FALSE, A4, l2, {}) }

MCServerLists == { {}, {Entry("synced", k1, d2)} }

\* A server that has enrolled a machine with the key of zeros.
MCZeroList == { {Entry("synced", k2, d2), Entry("synced", ZeroKey, d1)} }

MCOneList == { {Entry("synced", k1, d2)} }
=============================================================================
