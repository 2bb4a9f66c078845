------------------------------ MODULE WgTunnel ------------------------------
(***************************************************************************)
(* The tunnel (internal/wg): Apply sends the device the difference to what *)
(* it applied last, and never asks the device what it really has.          *)
(*                                                                         *)
(* An Apply is one call of IpcSet, which holds the device's lock: the      *)
(* commands go out one step each, and other tools act between two calls.   *)
(* What the device makes of a command is wireguard-go's: it is modelled    *)
(* from what runtime.go and the comments in it rely on.                    *)
(*                                                                         *)
(* Left out: the private key, which is sent once and never changes; the    *)
(* keepalive, which is sent in every block as the allowed IPs are; a       *)
(* peer's name, which is not sent; and that the device itself moves an     *)
(* endpoint when a peer roams.                                             *)
(***************************************************************************)
EXTENDS Integers

CONSTANTS Keys,       \* public keys: numbers in the order of their bytes
          Ips,        \* allowed IPs
          Endpoints,
          Ports,
          Goals,      \* the configurations the daemon may ask for
          ToolPeers,  \* the settings another tool may give a peer
          ToolPorts,  \* the listen ports it may set
          Faults,     \* the commands that may fail
          NoPeer, NoEndpoint, NoPort

Settings == [endpoint : Endpoints \cup {NoEndpoint}, ips : SUBSET Ips]

Peers == [Keys -> Settings \cup {NoPeer}]

Config == [port : Ports \cup {NoPort}, peers : Peers]

ASSUME TunnelAssumption ==
  /\ Keys \subseteq Int
  /\ Goals \subseteq Config
  /\ ToolPeers \subseteq Settings
  /\ ToolPorts \subseteq Ports
  /\ Faults \subseteq {"port", "peer"}
  /\ NoPeer \notin Settings /\ NoEndpoint \notin Endpoints /\ NoPort \notin Ports

VARIABLES
  dev,      \* what the device has
  applied,  \* t.applied
  want,     \* the configuration asked for last
  pc,       \* "idle", or "ipc" in the middle of an IpcSet
  todo,     \* the commands that are left of it
  \* The rest is not in the program; it says what has happened.
  off,      \* the peers that nothing is promised of, and why is in their history:
            \* a failed Apply, shared allowed IPs, another tool
  portOff   \* the same of the listen port

vars == <<dev, applied, want, pc, todo, off, portOff>>

Nothing == [port |-> NoPort, peers |-> [k \in Keys |-> NoPeer]]

NoCommands == [port |-> FALSE, set |-> {}, remove |-> {}]

\* A peer is either set or removed by one Apply.
TypeOK ==
  /\ dev \in Config /\ applied \in Config /\ want \in Config
  /\ pc \in {"idle", "ipc"}
  /\ todo \in [port : BOOLEAN, set : SUBSET Keys, remove : SUBSET Keys]
  /\ todo.set \cap todo.remove = {}
  /\ off \subseteq Keys /\ portOff \in BOOLEAN

\* OpenTunnel: a new device, and nothing applied to it yet.
Init ==
  /\ dev = Nothing /\ applied = Nothing /\ want = Nothing
  /\ pc = "idle" /\ todo = NoCommands
  /\ off = {} /\ portOff = FALSE

-----------------------------------------------------------------------------
(* diff *)

KeysIn(c) == {k \in Keys : c.peers[k] # NoPeer}

\* Mutant: only the allowed IPs are compared.
SameIps(p, q) == p # NoPeer /\ q # NoPeer /\ p.ips = q.ips

sameSettings(p, q) == p = q

ToSet(c) == {k \in KeysIn(c) : ~sameSettings(c.peers[k], applied.peers[k])}

\* Mutants: peers that stay are not taken out of "before"; what the device
\* has is compared, not what was applied.
ToRemoveAll(c) == KeysIn(applied)

ToRemoveStrangers(c) == KeysIn(dev) \ KeysIn(c)

ToRemove(c) == KeysIn(applied) \ KeysIn(c)

Diff(c) == [port   |-> c.port # applied.port,
            set    |-> ToSet(c),
            remove |-> ToRemove(c)]

-----------------------------------------------------------------------------
(* The device *)

\* A peer block (writeTo): an endpoint is only sent if there is one, and the
\* allowed IPs replace those the peer had.  One that another peer has moves.
Put(k, s) ==
  [j \in Keys |->
     IF j = k
       THEN IF s.endpoint = NoEndpoint /\ dev.peers[k] # NoPeer
              THEN [s EXCEPT !.endpoint = dev.peers[k].endpoint]
              ELSE s
       ELSE IF dev.peers[j] = NoPeer THEN NoPeer
            ELSE [dev.peers[j] EXCEPT !.ips = @ \ s.ips]]

-----------------------------------------------------------------------------
(* Apply *)

UpToDate ==
  /\ pc = "idle"
  /\ \E c \in Goals : Diff(c) = NoCommands /\ want' = c
  /\ UNCHANGED <<dev, applied, pc, todo, off, portOff>>

Apply ==
  /\ pc = "idle"
  /\ \E c \in Goals :
       /\ Diff(c) # NoCommands
       /\ want' = c /\ todo' = Diff(c)
  /\ pc' = "ipc"
  /\ UNCHANGED <<dev, applied, off, portOff>>

Sending == UNCHANGED <<applied, want, pc, off, portOff>>

SetPort ==
  /\ pc = "ipc" /\ todo.port
  /\ dev' = [dev EXCEPT !.port = want.port]
  /\ todo' = [todo EXCEPT !.port = FALSE]
  /\ Sending

\* The peers of a Config are in the order of their keys (sortByKey).
NextPeer(k) ==
  /\ pc = "ipc" /\ ~todo.port
  /\ k \in todo.set /\ \A j \in todo.set : k <= j

SetPeer ==
  /\ \E k \in Keys :
       /\ NextPeer(k)
       /\ dev' = [dev EXCEPT !.peers = Put(k, want.peers[k])]
       /\ todo' = [todo EXCEPT !.set = @ \ {k}]
  /\ Sending

\* The peers left in "before" come in the order of a Go map: any.
RemovePeer ==
  /\ pc = "ipc" /\ ~todo.port /\ todo.set = {}
  /\ \E k \in todo.remove :
       /\ dev' = [dev EXCEPT !.peers[k] = NoPeer]
       /\ todo' = [todo EXCEPT !.remove = @ \ {k}]
  /\ Sending

\* The peers whose settings this Apply changes.
Changed == {k \in Keys : want.peers[k] # applied.peers[k]}

\* The peers that share an allowed IP with another one.
Sharing(c) ==
  {k \in KeysIn(c) : \E j \in KeysIn(c) \ {k} : c.peers[j].ips \cap c.peers[k].ips # {}}

Applied ==
  /\ pc = "ipc" /\ todo = NoCommands
  /\ applied' = want
  /\ off' = (off \ Changed) \cup Sharing(want)
  /\ portOff' = (portOff /\ want.port = applied.port)
  /\ pc' = "idle"
  /\ UNCHANGED <<dev, want, todo>>

\* A command fails, and with it the rest.  A port that is in use leaves the
\* device with the old one or none; a peer block may be done in part.
ApplyFails ==
  /\ pc = "ipc"
  /\ \/ /\ "port" \in Faults /\ todo.port
        /\ \/ UNCHANGED dev
           \/ dev' = [dev EXCEPT !.port = NoPort]
     \/ /\ "peer" \in Faults
        /\ \E k \in Keys :
             /\ NextPeer(k)
             /\ \/ UNCHANGED dev
                \/ \E some \in SUBSET want.peers[k].ips :
                     dev' = [dev EXCEPT !.peers = Put(k, [want.peers[k] EXCEPT !.ips = some])]
  /\ off' = off \cup Changed \cup Sharing(want)
  /\ portOff' = (portOff \/ want.port # applied.port)
  /\ todo' = NoCommands
  /\ pc' = "idle"
  /\ UNCHANGED <<applied, want>>

-----------------------------------------------------------------------------
(* Around Apply *)

\* The tunnel is closed, or was stopped from outside, and opened again.
Reopen ==
  /\ pc = "idle"
  /\ dev' = Nothing /\ applied' = Nothing /\ want' = Nothing
  /\ off' = {} /\ portOff' = FALSE
  /\ UNCHANGED <<pc, todo>>

\* Another tool, on the control socket (serveControl).
ToolSets ==
  /\ pc = "idle"
  /\ \E k \in Keys, s \in ToolPeers :
       /\ dev' = [dev EXCEPT !.peers = Put(k, s)]
       /\ off' = off \cup {k} \cup
                 {j \in KeysIn(dev) : dev.peers[j].ips \cap s.ips # {}}
  /\ UNCHANGED <<applied, want, pc, todo, portOff>>

ToolRemoves ==
  /\ pc = "idle" /\ ToolPeers # {}
  /\ \E k \in KeysIn(dev) :
       /\ dev' = [dev EXCEPT !.peers[k] = NoPeer]
       /\ off' = off \cup {k}
  /\ UNCHANGED <<applied, want, pc, todo, portOff>>

ToolSetsPort ==
  /\ pc = "idle"
  /\ \E p \in ToolPorts : dev' = [dev EXCEPT !.port = p]
  /\ portOff' = TRUE
  /\ UNCHANGED <<applied, want, pc, todo, off>>

Daemon == \/ UpToDate \/ Apply \/ SetPort \/ SetPeer \/ RemovePeer
          \/ Applied \/ ApplyFails

Next == Daemon \/ Reopen \/ ToolSets \/ ToolRemoves \/ ToolSetsPort

Spec == Init /\ [][Next]_vars

-----------------------------------------------------------------------------
(* Properties *)

\* The device has k as c says: its allowed IPs and, if c gives one, its
\* endpoint.  A peer that is not in c is not in the device.
Has(c, k) ==
  IF c.peers[k] = NoPeer
    THEN dev.peers[k] = NoPeer
    ELSE /\ dev.peers[k] # NoPeer
         /\ dev.peers[k].ips = c.peers[k].ips
         /\ c.peers[k].endpoint \in {NoEndpoint, dev.peers[k].endpoint}

\* Between two calls, what Apply takes the device to have (applied) is what
\* it has.  A failed Apply puts in doubt just the peers it was to change, and
\* a later one that changes them clears this up; so a repeated attempt heals
\* what the failed one left.  Peers may exchange allowed IPs in one Apply, or
\* one may take over those of a removed one (diff, runtime.go:44).
InStep ==
  pc = "idle" =>
    /\ \A k \in Keys \ off : Has(applied, k)
    /\ portOff \/ dev.port = applied.port

\* An Apply leaves peers it does not change in the device, whoever put them
\* there: only an allowed IP it gives to another peer can be taken from them.
\* "Unchanged peers keep their sessions and peers added by other tools are
\* left alone" (runtime.go:27).
LeavesAlone(k) ==
  IF dev.peers[k] = NoPeer
    THEN dev'.peers[k] = NoPeer
    ELSE /\ dev'.peers[k] # NoPeer
         /\ dev'.peers[k].endpoint = dev.peers[k].endpoint
         /\ dev'.peers[k].ips \subseteq dev.peers[k].ips
         /\ \A i \in dev.peers[k].ips \ dev'.peers[k].ips :
              \E j \in Changed \ {k} : want.peers[j] # NoPeer /\ i \in want.peers[j].ips

OthersLeftAlone ==
  [][pc = "ipc" => \A k \in Keys \ Changed : LeavesAlone(k)]_vars

-----------------------------------------------------------------------------
(* What a comment says and the code does not do. *)

\* runtime.go:26: "Apply makes the device match want."
ApplyMatches ==
  (pc = "idle" /\ want = applied) => dev = want
=============================================================================
