----------------------------- MODULE MCWgTunnel -----------------------------
(* Small instances of WgTunnel for TLC. *)
EXTENDS WgTunnel, TLC

CONSTANTS e1, e2, i1, i2, p1, p2

P(e, ips) == [endpoint |-> e, ips |-> ips]

C(port, peers) == [port  |-> port,
                   peers |-> [k \in Keys |-> IF k \in DOMAIN peers THEN peers[k] ELSE NoPeer]]

\* Peers that come, go, move, lose their endpoint, exchange their allowed IPs
\* with others and share them; and another port.
MCGoals ==
  { C(p1, <<>>),
    C(p1, 1 :> P(e1, {i1}) @@ 2 :> P(NoEndpoint, {i2})),
    C(p2, 1 :> P(e2, {i1}) @@ 2 :> P(NoEndpoint, {i2})),
    C(p1, 1 :> P(NoEndpoint, {i2}) @@ 2 :> P(e1, {i1})),
    C(p2, 2 :> P(e1, {i2}) @@ 3 :> P(NoEndpoint, {i1})),
    C(p1, 1 :> P(e1, {i1, i2}) @@ 3 :> P(e1, {i1})) }

MCToolPeers == { P(e2, {i2}) }

\* No two peers share an allowed IP.
MCApartGoals == {c \in MCGoals : Sharing(c) = {}}
=============================================================================
