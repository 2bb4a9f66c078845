--------------------------- MODULE WgTunnelProofs ---------------------------
(* Proofs about WgTunnel, for any keys, allowed IPs, configurations, tools   *)
(* and failing commands.                                                     *)
EXTENDS WgTunnel, TLAPS

\* What is left to send is part of what this Apply changes.
TodoIsChange ==
  pc = "ipc" =>
    /\ todo.set \subseteq Changed /\ todo.set \subseteq KeysIn(want)
    /\ todo.remove \subseteq Changed \ KeysIn(want)

\* In the middle of an IpcSet the device has what was wanted of the peers that
\* are done, and of those that do not change and are not in doubt.
Halfway ==
  pc = "ipc" =>
    /\ \A k \in Keys \ (todo.set \cup todo.remove \cup Sharing(want)) :
         k \in Changed \/ k \notin off => Has(want, k)
    /\ todo.port => want.port # applied.port
    /\ ~todo.port => (want.port = applied.port /\ portOff) \/ dev.port = want.port

IInv == TypeOK /\ TodoIsChange /\ Halfway /\ InStep

-----------------------------------------------------------------------------
\* What a peer block does to the device is well typed.
LEMMA PutType ==
  ASSUME NEW k \in Keys, NEW s \in Settings, dev \in Config
  PROVE  Put(k, s) \in Peers
BY TunnelAssumption DEF Put, Peers, Config, Settings

\* The peer of the block has its allowed IPs, and its endpoint if it gives one.
LEMMA PutSets ==
  ASSUME NEW k \in Keys, NEW s \in Settings, dev \in Config
  PROVE  /\ Put(k, s)[k] \in Settings
         /\ Put(k, s)[k].ips = s.ips
         /\ s.endpoint \in {NoEndpoint, Put(k, s)[k].endpoint}
BY TunnelAssumption DEF Put, Peers, Config, Settings

\* Another peer loses the allowed IPs of the block and nothing else.
LEMMA PutOthers ==
  ASSUME NEW k \in Keys, NEW s \in Settings, dev \in Config, NEW j \in Keys, j # k
  PROVE  /\ dev.peers[j] = NoPeer => Put(k, s)[j] = NoPeer
         /\ dev.peers[j] # NoPeer =>
              /\ Put(k, s)[j] # NoPeer
              /\ Put(k, s)[j].endpoint = dev.peers[j].endpoint
              /\ Put(k, s)[j].ips = dev.peers[j].ips \ s.ips
         /\ (dev.peers[j] # NoPeer /\ dev.peers[j].ips \cap s.ips = {})
              => Put(k, s)[j] = dev.peers[j]
<1>1. dev.peers[j] # NoPeer => dev.peers[j] \in Settings
  BY DEF Config, Peers
<1>2. dev.peers[j] # NoPeer =>
        Put(k, s)[j] = [endpoint |-> dev.peers[j].endpoint, ips |-> dev.peers[j].ips \ s.ips]
  BY <1>1 DEF Put, Settings
<1>3. dev.peers[j] # NoPeer => Put(k, s)[j] \in Settings
  BY <1>1, <1>2 DEF Settings
<1>4. (dev.peers[j] # NoPeer /\ dev.peers[j].ips \cap s.ips = {})
        => Put(k, s)[j] = dev.peers[j]
  BY <1>1, <1>2 DEF Settings
<1> QED
  BY <1>1, <1>2, <1>3, <1>4, TunnelAssumption DEF Put

\* A peer that has what is wanted and shares no allowed IP keeps it when
\* another one is set, wholly or with some of its allowed IPs.
LEMMA PutKeeps ==
  ASSUME TypeOK, NEW k \in KeysIn(want), NEW j \in Keys, j # k, j \notin Sharing(want),
         Has(want, j), NEW s \in Settings, s.ips \subseteq want.peers[k].ips
  PROVE  Put(k, s)[j] = dev.peers[j]
<1>1. dev \in Config /\ want \in Config /\ k \in Keys
  BY DEF TypeOK, KeysIn
<1>2. CASE want.peers[j] = NoPeer
  BY <1>1, <1>2, PutOthers DEF Has
<1>3. CASE want.peers[j] # NoPeer
  <2>1. want.peers[j].ips \cap want.peers[k].ips = {}
    BY <1>3 DEF Sharing, KeysIn
  <2>2. dev.peers[j] # NoPeer /\ dev.peers[j].ips \cap s.ips = {}
    BY <1>3, <2>1 DEF Has
  <2> QED
    BY <1>1, <2>2, PutOthers
<1> QED
  BY <1>2, <1>3

\* What is wanted of a key is settings, if it is wanted.
LEMMA WantSettings ==
  ASSUME TypeOK, NEW k \in KeysIn(want)
  PROVE  k \in Keys /\ want.peers[k] \in Settings
BY DEF TypeOK, KeysIn, Config, Peers

-----------------------------------------------------------------------------
\* A device that was just opened, and commands that are all sent, have their types.
LEMMA NothingType == Nothing \in Config /\ NoCommands \in
        [port : BOOLEAN, set : SUBSET Keys, remove : SUBSET Keys]
BY DEF Nothing, NoCommands, Config, Peers

LEMMA InitIInv == Init => IInv
<1> SUFFICES ASSUME Init PROVE IInv
  OBVIOUS
<1>1. TypeOK
  BY NothingType DEF Init, TypeOK, NoCommands
<1>2. TodoIsChange /\ Halfway
  BY DEF Init, TodoIsChange, Halfway
<1>3. InStep
  BY DEF Init, InStep, Has, Nothing
<1> QED
  BY <1>1, <1>2, <1>3 DEF IInv

LEMMA UpToDateIInv == IInv /\ UpToDate => IInv'
BY TunnelAssumption
DEF IInv, TypeOK, TodoIsChange, Halfway, InStep, UpToDate, Has

LEMMA ApplyIInv == IInv /\ Apply => IInv'
<1> SUFFICES ASSUME IInv, Apply PROVE IInv'
  OBVIOUS
<1> PICK c \in Goals : Diff(c) # NoCommands /\ want' = c /\ todo' = Diff(c)
  BY DEF Apply
<1>1. /\ pc = "idle" /\ pc' = "ipc" /\ c \in Config
      /\ UNCHANGED <<dev, applied, off, portOff>>
  BY TunnelAssumption DEF Apply
<1>2. TypeOK'
  BY <1>1 DEF IInv, TypeOK, Diff, ToSet, ToRemove, KeysIn, Config
<1>3. TodoIsChange'
  BY <1>1 DEF TodoIsChange, Diff, ToSet, ToRemove, KeysIn, Changed, sameSettings
<1>4. Halfway'
  <2>1. ASSUME NEW k \in Keys, k \notin todo'.set \cup todo'.remove
        PROVE  k \notin Changed'
    BY <1>1, <2>1 DEF Diff, ToSet, ToRemove, KeysIn, Changed, sameSettings
  <2>2. ASSUME NEW k \in Keys \ off, k \notin Changed' PROVE Has(want, k)'
    BY <1>1, <2>2 DEF IInv, InStep, Has, Changed
  <2>3. todo.port' <=> want'.port # applied'.port
    BY <1>1 DEF Diff
  <2> QED
    BY <1>1, <2>1, <2>2, <2>3 DEF IInv, InStep, Halfway
<1>5. InStep'
  BY <1>1 DEF InStep
<1> QED
  BY <1>2, <1>3, <1>4, <1>5 DEF IInv

LEMMA SetPortIInv == IInv /\ SetPort => IInv'
<1> SUFFICES ASSUME IInv, SetPort PROVE IInv'
  OBVIOUS
<1>1. /\ pc = "ipc" /\ pc' = "ipc" /\ todo.port
      /\ dev' = [dev EXCEPT !.port = want.port]
      /\ todo' = [todo EXCEPT !.port = FALSE]
      /\ UNCHANGED <<applied, want, off, portOff>>
  BY DEF SetPort, Sending
<1>2. /\ dev'.peers = dev.peers /\ dev'.port = want.port
      /\ todo'.set = todo.set /\ todo'.remove = todo.remove /\ ~todo'.port
  BY <1>1 DEF IInv, TypeOK, Config
<1>3. TypeOK'
  BY <1>1, <1>2 DEF IInv, TypeOK, Config
<1>4. TodoIsChange' /\ Halfway' /\ InStep'
  BY <1>1, <1>2 DEF IInv, TodoIsChange, Halfway, InStep, Has, Changed, KeysIn, Sharing
<1> QED
  BY <1>3, <1>4 DEF IInv

LEMMA SetPeerIInv == IInv /\ SetPeer => IInv'
<1> SUFFICES ASSUME IInv, SetPeer PROVE IInv'
  OBVIOUS
<1> PICK k \in Keys : /\ NextPeer(k)
                      /\ dev' = [dev EXCEPT !.peers = Put(k, want.peers[k])]
                      /\ todo' = [todo EXCEPT !.set = @ \ {k}]
  BY DEF SetPeer
<1>1. /\ pc = "ipc" /\ pc' = "ipc" /\ ~todo.port /\ k \in todo.set
      /\ UNCHANGED <<applied, want, off, portOff>>
  BY DEF SetPeer, Sending, NextPeer
<1>2. k \in KeysIn(want) /\ k \in Changed
  BY <1>1 DEF IInv, TodoIsChange
<1>3. want.peers[k] \in Settings
  BY <1>2, WantSettings DEF IInv
<1>4. /\ dev'.peers = Put(k, want.peers[k]) /\ dev'.port = dev.port
      /\ todo'.set = todo.set \ {k} /\ todo'.remove = todo.remove /\ todo'.port = todo.port
  BY DEF IInv, TypeOK, Config
<1>5. TypeOK'
  <2>1. Put(k, want.peers[k]) \in Peers
    BY <1>3, PutType DEF IInv, TypeOK
  <2> QED
    BY <1>1, <1>4, <2>1 DEF IInv, TypeOK, Config
<1>6. TodoIsChange'
  BY <1>1, <1>4 DEF IInv, TodoIsChange, Changed, KeysIn
<1>7. Halfway'
  <2>1. Has(want, k)'
    BY <1>1, <1>2, <1>3, <1>4, PutSets, TunnelAssumption DEF Has, IInv, TypeOK, KeysIn
  <2>2. ASSUME NEW j \in Keys, j # k, j \notin Sharing(want), Has(want, j)
        PROVE  Has(want, j)'
    <3>1. Put(k, want.peers[k])[j] = dev.peers[j]
      BY <1>2, <1>3, <2>2, PutKeeps DEF IInv
    <3> QED
      BY <1>1, <1>4, <2>2, <3>1 DEF Has
  <2>3. Sharing(want)' = Sharing(want) /\ Changed' = Changed
    BY <1>1 DEF Sharing, Changed, KeysIn
  <2> QED
    BY <1>1, <1>4, <2>1, <2>2, <2>3 DEF IInv, Halfway
<1> QED
  BY <1>1, <1>5, <1>6, <1>7 DEF IInv, InStep

LEMMA RemovePeerIInv == IInv /\ RemovePeer => IInv'
<1> SUFFICES ASSUME IInv, RemovePeer PROVE IInv'
  OBVIOUS
<1> PICK k \in todo.remove : /\ dev' = [dev EXCEPT !.peers[k] = NoPeer]
                             /\ todo' = [todo EXCEPT !.remove = @ \ {k}]
  BY DEF RemovePeer
<1>1. /\ pc = "ipc" /\ pc' = "ipc" /\ ~todo.port /\ todo.set = {} /\ k \in Keys
      /\ UNCHANGED <<applied, want, off, portOff>>
  BY DEF RemovePeer, Sending, IInv, TypeOK
<1>2. /\ dev'.peers = [dev.peers EXCEPT ![k] = NoPeer] /\ dev'.port = dev.port
      /\ todo'.set = {} /\ todo'.remove = todo.remove \ {k} /\ todo'.port = todo.port
  BY <1>1 DEF IInv, TypeOK, Config
<1>3. TypeOK'
  BY <1>1, <1>2 DEF IInv, TypeOK, Config, Peers
<1>4. TodoIsChange'
  BY <1>1, <1>2 DEF IInv, TodoIsChange, Changed, KeysIn
<1>5. Halfway'
  <2>1. want.peers[k] = NoPeer
    BY <1>1 DEF IInv, TodoIsChange, KeysIn
  <2>2. Has(want, k)'
    BY <1>1, <1>2, <2>1 DEF Has, IInv, TypeOK, Config, Peers
  <2>3. ASSUME NEW j \in Keys, j # k, Has(want, j) PROVE Has(want, j)'
    BY <1>1, <1>2, <2>3 DEF Has, IInv, TypeOK, Config, Peers
  <2>4. Sharing(want)' = Sharing(want) /\ Changed' = Changed
    BY <1>1 DEF Sharing, Changed, KeysIn
  <2> QED
    BY <1>1, <1>2, <2>2, <2>3, <2>4 DEF IInv, Halfway
<1> QED
  BY <1>1, <1>3, <1>4, <1>5 DEF IInv, InStep

LEMMA AppliedIInv == IInv /\ Applied => IInv'
<1> SUFFICES ASSUME IInv, Applied PROVE IInv'
  OBVIOUS
<1>1. /\ pc = "ipc" /\ pc' = "idle" /\ todo = NoCommands /\ applied' = want
      /\ off' = (off \ Changed) \cup Sharing(want)
      /\ portOff' = (portOff /\ want.port = applied.port)
      /\ UNCHANGED <<dev, want, todo>>
  BY DEF Applied
<1>2. TypeOK'
  BY <1>1 DEF IInv, TypeOK, Changed, Sharing, KeysIn
<1>3. TodoIsChange' /\ Halfway'
  BY <1>1 DEF TodoIsChange, Halfway
<1>4. InStep'
  <2>1. ASSUME NEW k \in Keys \ off' PROVE Has(applied, k)'
    <3>1. Has(want, k)
      BY <1>1 DEF IInv, Halfway, NoCommands
    <3> QED
      BY <1>1, <3>1 DEF Has
  <2>2. portOff' \/ dev'.port = applied'.port
    BY <1>1 DEF IInv, Halfway, NoCommands
  <2> QED
    BY <2>1, <2>2 DEF InStep
<1> QED
  BY <1>2, <1>3, <1>4 DEF IInv

LEMMA ApplyFailsIInv == IInv /\ ApplyFails => IInv'
<1> SUFFICES ASSUME IInv, ApplyFails PROVE IInv'
  OBVIOUS
<1>1. /\ pc = "ipc" /\ pc' = "idle" /\ todo' = NoCommands
      /\ off' = off \cup Changed \cup Sharing(want)
      /\ portOff' = (portOff \/ want.port # applied.port)
      /\ UNCHANGED <<applied, want>>
  BY DEF ApplyFails
\* Whatever was done of the failed command, the device is well typed, keeps
\* what it has of the peers in no doubt, and its port unless that changes.
<1>2. /\ dev' \in Config
      /\ \A j \in Keys \ off' : Has(want, j) => dev'.peers[j] = dev.peers[j]
      /\ dev'.port = dev.port \/ todo.port
  <2>1. CASE UNCHANGED dev
    BY <2>1 DEF IInv, TypeOK
  <2>2. CASE todo.port /\ dev' = [dev EXCEPT !.port = NoPort]
    BY <2>2 DEF IInv, TypeOK, Config
  <2>3. ASSUME NEW k \in Keys, NextPeer(k), NEW some \in SUBSET want.peers[k].ips,
               dev' = [dev EXCEPT !.peers = Put(k, [want.peers[k] EXCEPT !.ips = some])]
        PROVE  <1>2
    <3> DEFINE s == [want.peers[k] EXCEPT !.ips = some]
    <3>1. k \in KeysIn(want) /\ k \in Changed
      BY <1>1, <2>3 DEF IInv, TodoIsChange, NextPeer
    <3>2. s \in Settings /\ s.ips \subseteq want.peers[k].ips
      BY <3>1, WantSettings DEF IInv, Settings
    <3>3. Put(k, s) \in Peers
      BY <3>2, PutType DEF IInv, TypeOK
    <3>4. dev'.peers = Put(k, s) /\ dev'.port = dev.port /\ dev' \in Config
      BY <2>3, <3>3 DEF IInv, TypeOK, Config
    <3>5. ASSUME NEW j \in Keys \ off', Has(want, j) PROVE Put(k, s)[j] = dev.peers[j]
      <4>1. j # k /\ j \notin Sharing(want)
        BY <1>1, <3>1, <3>5
      <4> QED
        BY <3>1, <3>2, <3>5, <4>1, PutKeeps DEF IInv
    <3> QED
      BY <3>4, <3>5
  <2> QED
    BY <2>1, <2>2, <2>3 DEF ApplyFails
<1>3. TypeOK'
  BY <1>1, <1>2, NothingType DEF IInv, TypeOK, Changed, Sharing, KeysIn, NoCommands
<1>4. TodoIsChange' /\ Halfway'
  BY <1>1 DEF TodoIsChange, Halfway
<1>5. InStep'
  <2>1. ASSUME NEW k \in Keys \ off' PROVE Has(applied, k)'
    <3>1. want.peers[k] = applied.peers[k] /\ k \notin Changed /\ k \notin Sharing(want)
      BY <1>1 DEF Changed
    <3>2. Has(want, k)
      BY <1>1, <3>1 DEF IInv, TodoIsChange, Halfway
    <3> QED
      BY <1>1, <1>2, <3>1, <3>2 DEF Has
  <2>2. portOff' \/ dev'.port = applied'.port
    BY <1>1, <1>2 DEF IInv, Halfway
  <2> QED
    BY <2>1, <2>2 DEF InStep
<1> QED
  BY <1>3, <1>4, <1>5 DEF IInv

LEMMA ReopenIInv == IInv /\ Reopen => IInv'
<1> SUFFICES ASSUME IInv, Reopen PROVE IInv'
  OBVIOUS
<1>1. TypeOK'
  BY NothingType DEF Reopen, IInv, TypeOK
<1>2. TodoIsChange' /\ Halfway'
  BY DEF Reopen, TodoIsChange, Halfway
<1>3. InStep'
  BY DEF Reopen, InStep, Has, Nothing
<1> QED
  BY <1>1, <1>2, <1>3 DEF IInv

LEMMA ToolSetsIInv == IInv /\ ToolSets => IInv'
<1> SUFFICES ASSUME IInv, ToolSets PROVE IInv'
  OBVIOUS
<1> PICK k \in Keys, s \in ToolPeers :
      /\ dev' = [dev EXCEPT !.peers = Put(k, s)]
      /\ off' = off \cup {k} \cup {j \in KeysIn(dev) : dev.peers[j].ips \cap s.ips # {}}
  BY DEF ToolSets
<1>1. pc = "idle" /\ s \in Settings /\ UNCHANGED <<applied, want, pc, todo, portOff>>
  BY TunnelAssumption DEF ToolSets
<1>2. Put(k, s) \in Peers
  BY <1>1, PutType DEF IInv, TypeOK
<1>3. dev' \in Config /\ dev'.peers = Put(k, s) /\ dev'.port = dev.port
  BY <1>2 DEF IInv, TypeOK, Config
<1>4. TypeOK'
  BY <1>1, <1>3 DEF IInv, TypeOK, KeysIn
<1>5. ASSUME NEW j \in Keys \ off' PROVE Has(applied, j)'
  <2>1. dev'.peers[j] = dev.peers[j]
    BY <1>1, <1>3, PutOthers DEF IInv, TypeOK, KeysIn
  <2> QED
    BY <1>1, <2>1 DEF IInv, InStep, Has
<1> QED
  BY <1>1, <1>3, <1>4, <1>5 DEF IInv, TodoIsChange, Halfway, InStep

LEMMA ToolRemovesIInv == IInv /\ ToolRemoves => IInv'
<1> SUFFICES ASSUME IInv, ToolRemoves PROVE IInv'
  OBVIOUS
<1> PICK k \in KeysIn(dev) : /\ dev' = [dev EXCEPT !.peers[k] = NoPeer]
                              /\ off' = off \cup {k}
  BY DEF ToolRemoves
<1>1. pc = "idle" /\ k \in Keys /\ UNCHANGED <<applied, want, pc, todo, portOff>>
  BY DEF ToolRemoves, KeysIn
<1>2. dev' \in Config /\ dev'.peers = [dev.peers EXCEPT ![k] = NoPeer] /\ dev'.port = dev.port
  BY <1>1 DEF IInv, TypeOK, Config, Peers
<1>3. TypeOK'
  BY <1>1, <1>2 DEF IInv, TypeOK
<1>4. ASSUME NEW j \in Keys \ off' PROVE Has(applied, j)'
  BY <1>1, <1>2 DEF IInv, TypeOK, Config, Peers, InStep, Has
<1> QED
  BY <1>1, <1>2, <1>3, <1>4 DEF IInv, TodoIsChange, Halfway, InStep

LEMMA ToolSetsPortIInv == IInv /\ ToolSetsPort => IInv'
<1> SUFFICES ASSUME IInv, ToolSetsPort PROVE IInv'
  OBVIOUS
<1> PICK p \in ToolPorts : dev' = [dev EXCEPT !.port = p]
  BY DEF ToolSetsPort
<1>1. pc = "idle" /\ portOff' /\ UNCHANGED <<applied, want, pc, todo, off>>
  BY DEF ToolSetsPort
<1>2. dev' \in Config /\ dev'.peers = dev.peers
  BY TunnelAssumption DEF IInv, TypeOK, Config
<1>3. TypeOK'
  BY <1>1, <1>2, TunnelAssumption DEF ToolSetsPort, IInv, TypeOK
<1> QED
  BY <1>1, <1>2, <1>3 DEF IInv, TodoIsChange, Halfway, InStep, Has

-----------------------------------------------------------------------------
LEMMA NextIInv == IInv /\ [Next]_vars => IInv'
<1>1. IInv /\ UNCHANGED vars => IInv'
  BY DEF IInv, TypeOK, TodoIsChange, Halfway, InStep, vars, Has, Changed, Sharing, KeysIn
<1> QED
  BY <1>1, UpToDateIInv, ApplyIInv, SetPortIInv, SetPeerIInv, RemovePeerIInv, AppliedIInv,
     ApplyFailsIInv, ReopenIInv, ToolSetsIInv, ToolRemovesIInv, ToolSetsPortIInv
  DEF Next, Daemon

LEMMA Inductive == Spec => []IInv
<1> QED
  BY InitIInv, NextIInv, PTL DEF Spec

\* Type correctness; no Apply both sets and removes a peer (diff).
THEOREM TypeCorrect == Spec => []TypeOK
<1>1. IInv => TypeOK
  BY DEF IInv
<1> QED
  BY <1>1, Inductive, PTL

\* Between two calls the device has what Apply takes it to have, but for what
\* the history puts in doubt (Apply's t.applied, runtime.go:29).
THEOREM DeviceInStep == Spec => []InStep
<1>1. IInv => InStep
  BY DEF IInv
<1> QED
  BY <1>1, Inductive, PTL

\* A step of an IpcSet leaves alone every peer this Apply does not change.
LEMMA StepLeavesAlone ==
  IInv /\ [Next]_vars => (pc = "ipc" => \A k \in Keys \ Changed : LeavesAlone(k))
<1> SUFFICES ASSUME IInv, [Next]_vars, pc = "ipc", NEW j \in Keys \ Changed
             PROVE  LeavesAlone(j)
  OBVIOUS
<1>1. ASSUME dev'.peers[j] = dev.peers[j] PROVE LeavesAlone(j)
  BY <1>1 DEF LeavesAlone
\* A block of another peer takes its allowed IPs only.
<1>2. ASSUME NEW k \in KeysIn(want), k \in Changed, NEW s \in Settings,
             s.ips \subseteq want.peers[k].ips, dev'.peers = Put(k, s)
      PROVE  LeavesAlone(j)
  <2>1. dev \in Config /\ k \in Keys /\ j # k
    BY <1>2 DEF IInv, TypeOK, KeysIn
  <2>2. want.peers[k] # NoPeer
    BY DEF KeysIn
  <2> QED
    BY <1>2, <2>1, <2>2, PutOthers DEF LeavesAlone
<1>3. CASE UNCHANGED dev
  BY <1>1, <1>3
<1>4. CASE SetPort
  BY <1>1, <1>4 DEF SetPort, IInv, TypeOK, Config
<1>5. ASSUME NEW k \in Keys, NextPeer(k), NEW s \in Settings, s.ips \subseteq want.peers[k].ips,
             dev' = [dev EXCEPT !.peers = Put(k, s)]
      PROVE  LeavesAlone(j)
  <2>1. k \in KeysIn(want) /\ k \in Changed
    BY <1>5 DEF IInv, TodoIsChange, NextPeer
  <2>2. dev'.peers = Put(k, s)
    BY <1>5 DEF IInv, TypeOK, Config
  <2> QED
    BY <1>2, <1>5, <2>1, <2>2
<1>6. CASE SetPeer
  <2> PICK k \in Keys : NextPeer(k) /\ dev' = [dev EXCEPT !.peers = Put(k, want.peers[k])]
    BY <1>6 DEF SetPeer
  <2>1. want.peers[k] \in Settings
    BY WantSettings DEF IInv, TodoIsChange, NextPeer
  <2> QED
    BY <1>5, <2>1
<1>7. CASE RemovePeer
  BY <1>1, <1>7 DEF RemovePeer, IInv, TodoIsChange, TypeOK, Config, Peers
<1>8. CASE ApplyFails
  <2>1. CASE dev' = [dev EXCEPT !.port = NoPort]
    BY <1>1, <2>1 DEF IInv, TypeOK, Config
  <2>2. ASSUME NEW k \in Keys, NextPeer(k), NEW some \in SUBSET want.peers[k].ips,
               dev' = [dev EXCEPT !.peers = Put(k, [want.peers[k] EXCEPT !.ips = some])]
        PROVE  LeavesAlone(j)
    <3>1. want.peers[k] \in Settings
      BY <2>2, WantSettings DEF IInv, TodoIsChange, NextPeer
    <3>2. /\ [want.peers[k] EXCEPT !.ips = some] \in Settings
          /\ [want.peers[k] EXCEPT !.ips = some].ips \subseteq want.peers[k].ips
      BY <3>1 DEF Settings
    <3> QED
      BY <1>5, <2>2, <3>2
  <2> QED
    BY <1>3, <1>8, <2>1, <2>2 DEF ApplyFails
<1> QED
  BY <1>3, <1>4, <1>6, <1>7, <1>8
  DEF Next, Daemon, vars, UpToDate, Apply, Applied, Reopen, ToolSets, ToolRemoves, ToolSetsPort

\* Peers an Apply does not change, those of other tools among them, keep their
\* place and endpoint, and all allowed IPs it does not give to another peer.
THEOREM OthersAreLeftAlone == Spec => OthersLeftAlone
<1> QED
  BY Inductive, StepLeavesAlone, PTL DEF Spec, OthersLeftAlone
=============================================================================
