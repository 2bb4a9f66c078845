----------------------------- MODULE ConfigFile -----------------------------
(***************************************************************************)
(* meshd.json (internal/daemon/config_files.go): what it holds, when meshd *)
(* accepts it, and how meshd puts its own parts into it.                   *)
(*                                                                         *)
(* Of the settings, "live" stands for listen_port, and "server" says       *)
(* whether server_url is set.  persistent_keepalive, which is to the       *)
(* device a part of every peer, name, and what needs a restart are left    *)
(* out.  A private key and its public key are one value.                   *)
(*                                                                         *)
(* What parseConfig refuses is a content that Validate refuses or, for a   *)
(* reason that is not represented (bad JSON, an unknown field or source, a *)
(* port out of range, a peer without allowed_ips), Garbage.  What it fills *)
(* in or rewrites (the default port, a missing source, masked allowed_ips, *)
(* spaces around a URL) is taken for the same value: a file written back   *)
(* may differ in such spellings.                                           *)
(***************************************************************************)
EXTENDS PeerBook, Integers

CONSTANTS IdKeys,      \* the keys machines have as their identity
          IPs,         \* IP addresses, of two families
          BitLen,      \* how many bits an IP address has: 32 or 128
          Settings,    \* values of the live settings
          NoKey,       \* no private_key
          ZeroKey,     \* the public key of 32 zero bytes
          NoAddr,      \* no address
          BadAddr,     \* a prefix with more bits than its IP has
          Garbage,     \* a content that does not parse
          Unreadable   \* the file is missing or cannot be read

\* netip.Prefix
Addrs == UNION {[ip : {i}, bits : 0 .. BitLen[i]] : i \in IPs}

IsValid(a) == a \notin {NoAddr, BadAddr}

Bits(a) == IF IsValid(a) THEN a.bits ELSE -1

PrefixFrom(ip, bits) ==
  IF bits \in 0 .. BitLen[ip] THEN [ip |-> ip, bits |-> bits] ELSE BadAddr

\* A BadAddr is written as "invalid Prefix".
Config == [server : BOOLEAN,
           live   : Settings,
           key    : IdKeys \cup {NoKey},
           addr   : Addrs \cup {NoAddr, BadAddr},
           peers  : SUBSET Peer]

FileContent == Config \cup {Garbage, Unreadable}

ASSUME AddressAssumption ==
  /\ BitLen \in [IPs -> Nat]
  /\ {NoAddr, BadAddr} \cap Addrs = {} /\ NoAddr # BadAddr

ASSUME SentinelsDistinct ==
  /\ NoKey \notin IdKeys
  /\ Garbage \notin Config
  /\ Unreadable \notin Config
  /\ Garbage # Unreadable

\* A machine without a server needs an address; each peer has a key, and each
\* key is listed once.
Validate(c) ==
  /\ c.addr # BadAddr
  /\ c.server \/ c.addr # NoAddr
  /\ ZeroKey \notin KeysOf(c.peers)
  /\ IsMap(c.peers)

\* The content reads and parses.
ParseOK(f) == f \notin {Garbage, Unreadable} /\ Validate(f)

Manual(list) == {p \in list : p.source # "synced"}

\* Mutant of MergePeers: a key may be in both lists.
MergePeersUnchecked(onDisk, fromServer) == Manual(onDisk) \cup fromServer

MergePeers(onDisk, fromServer) ==
  Manual(onDisk)
    \cup {p \in fromServer : p.key \notin KeysOf(Manual(onDisk))}
=============================================================================
