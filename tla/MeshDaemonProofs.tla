-------------------------- MODULE MeshDaemonProofs --------------------------
(***************************************************************************)
(* What TLAPS proves of meshd for every set of keys, addresses, settings   *)
(* and peer lists, every choice of failing operations and every number of  *)
(* upsets.                                                                 *)
(***************************************************************************)
EXTENDS MeshDaemon, TLAPS

(***************************************************************************)
(* The peer book's lists.                                                  *)
(***************************************************************************)

LEMMA ByKeySubset ==
  ASSUME NEW list
  PROVE  ByKey(list) \subseteq list
  BY DEF ByKey, KeysOf

LEMMA ByKeyIsMap ==
  ASSUME NEW list
  PROVE  IsMap(ByKey(list))
<1> SUFFICES ASSUME NEW p \in ByKey(list), NEW q \in ByKey(list), p.key = q.key
             PROVE  p = q
  BY DEF IsMap
<1>1. PICK k \in KeysOf(list) : p = CHOOSE r \in list : r.key = k
  BY DEF ByKey
<1>2. PICK l \in KeysOf(list) : q = CHOOSE r \in list : r.key = l
  BY DEF ByKey
<1>3. p.key = k
  BY <1>1 DEF KeysOf
<1>4. q.key = l
  BY <1>2 DEF KeysOf
<1> QED
  BY <1>1, <1>2, <1>3, <1>4

LEMMA OnlySubset ==
  ASSUME NEW list, NEW s
  PROVE  Only(list, s) \subseteq list
  BY DEF Only

LEMMA NewType == New \in Book
  BY DEF New, Book

LEMMA LoadType ==
  ASSUME NEW b \in Book, NEW list \in SUBSET Peer, NEW useServer \in BOOLEAN
  PROVE  LoadFromConfig(b, list, useServer) \in Book
<1>1. \A s \in Source : ByKey(Only(list, s)) \in SUBSET Peer
  BY ByKeySubset, OnlySubset
<1> QED
  BY <1>1 DEF LoadFromConfig, Book, Source

LEMMA UpdateManualType ==
  ASSUME NEW b \in Book, NEW list \in SUBSET Peer, NEW useServer \in BOOLEAN
  PROVE  UpdateManualPeers(b, list, useServer) \in Book
<1>1. \A s \in Source : ByKey(Only(list, s)) \in SUBSET Peer
  BY ByKeySubset, OnlySubset
<1>2. \A x, y : NotManual(b.synced, x, y) \in SUBSET Peer
  BY DEF NotManual, Book
<1>3. b.dirty \in BOOLEAN
  BY DEF Book
<1> QED
  BY <1>1, <1>2, <1>3 DEF UpdateManualPeers, Book, Source

\* The server's list as the book will hold it.
LEMMA TaggedType ==
  ASSUME NEW list \in SUBSET Peer, NEW x, NEW y
  PROVE  {[p EXCEPT !.source = "synced"] : p \in NotManual(list, x, y)} \in SUBSET Peer
  BY DEF NotManual, Peer, Source

LEMMA SetFromServerType ==
  ASSUME NEW b \in Book, NEW list \in SUBSET Peer
  PROVE  SetFromServer(b, list) \in Book
<1> DEFINE tagged == {[p EXCEPT !.source = "synced"] :
                         p \in NotManual(list, b.static, b.blocked)}
<1>1. ByKey(tagged) \in SUBSET Peer
  BY TaggedType, ByKeySubset
<1>2. b.dirty \in BOOLEAN
  BY DEF Book
<1> QED
  BY <1>1, <1>2 DEF SetFromServer, Book

LEMMA MergeType ==
  ASSUME NEW onDisk \in SUBSET Peer, NEW fromServer \in SUBSET Peer
  PROVE  MergePeers(onDisk, fromServer) \in SUBSET Peer
  BY DEF MergePeers, Manual

-----------------------------------------------------------------------------
(* One entry for each key. *)

LEMMA SubMap ==
  ASSUME NEW m, IsMap(m), NEW n, n \subseteq m
  PROVE  IsMap(n)
  BY DEF IsMap

LEMMA ByKeyKeys ==
  ASSUME NEW list
  PROVE  KeysOf(ByKey(list)) \subseteq KeysOf(list)
  BY ByKeySubset DEF KeysOf

\* In a list with one entry for each key, no two sources share one.
LEMMA SourcesApart ==
  ASSUME NEW list, IsMap(list), NEW s, NEW t, s # t
  PROVE  KeysOf(ByKey(Only(list, s))) \cap KeysOf(ByKey(Only(list, t))) = {}
<1>1. KeysOf(Only(list, s)) \cap KeysOf(Only(list, t)) = {}
  BY DEF KeysOf, Only, IsMap
<1> QED
  BY <1>1, ByKeyKeys

LEMMA NewOneEntry == OneEntryPerKey(New)
  BY DEF OneEntryPerKey, New, IsMap, KeysOf

LEMMA LoadOneEntry ==
  ASSUME NEW b \in Book, NEW list \in SUBSET Peer, IsMap(list), NEW useServer \in BOOLEAN
  PROVE  OneEntryPerKey(LoadFromConfig(b, list, useServer))
<1> DEFINE new     == LoadFromConfig(b, list, useServer)
           static  == ByKey(Only(list, "static"))
           blocked == ByKey(Only(list, "blocked"))
           synced  == ByKey(Only(list, "synced"))
<1>1. new.static = static /\ new.blocked = blocked /\ new.synced \in {synced, {}}
  BY DEF LoadFromConfig, Book
<1>2. IsMap(static) /\ IsMap(blocked) /\ IsMap(synced) /\ IsMap({})
  BY ByKeyIsMap DEF IsMap
<1>3. /\ KeysOf(static) \cap KeysOf(blocked) = {}
      /\ KeysOf(synced) \cap KeysOf(static) = {}
      /\ KeysOf(synced) \cap KeysOf(blocked) = {}
  BY SourcesApart
<1>4. KeysOf(static \cup blocked) = KeysOf(static) \cup KeysOf(blocked)
  BY DEF KeysOf
<1>5. KeysOf({}) = {}
  BY DEF KeysOf
<1> SUFFICES OneEntryPerKey(new)
  OBVIOUS
<1> HIDE DEF new, static, blocked, synced
<1> QED
  BY <1>1, <1>2, <1>3, <1>4, <1>5 DEF OneEntryPerKey

\* The server's entries that are left have no key of the user's.
LEMMA NotManualApart ==
  ASSUME NEW list, NEW x, NEW y
  PROVE  KeysOf(NotManual(list, x, y)) \cap KeysOf(x \cup y) = {}
  BY DEF NotManual, KeysOf

LEMMA UpdateManualOneEntry ==
  ASSUME NEW b \in Book, OneEntryPerKey(b),
         NEW list \in SUBSET Peer, IsMap(list), NEW useServer \in BOOLEAN
  PROVE  OneEntryPerKey(UpdateManualPeers(b, list, useServer))
<1> DEFINE new     == UpdateManualPeers(b, list, useServer)
           static  == ByKey(Only(list, "static"))
           blocked == ByKey(Only(list, "blocked"))
           synced  == NotManual(b.synced, static, blocked)
<1>1. new.static = static /\ new.blocked = blocked /\ new.synced = synced
  BY DEF UpdateManualPeers
<1>2. IsMap(static) /\ IsMap(blocked)
  BY ByKeyIsMap
<1>3. IsMap(synced)
  BY SubMap DEF OneEntryPerKey, NotManual
<1>4. KeysOf(static) \cap KeysOf(blocked) = {}
  BY SourcesApart
<1>5. KeysOf(synced) \cap KeysOf(static \cup blocked) = {}
  BY NotManualApart
<1> SUFFICES OneEntryPerKey(new)
  OBVIOUS
<1> HIDE DEF new, static, blocked, synced
<1> QED
  BY <1>1, <1>2, <1>3, <1>4, <1>5 DEF OneEntryPerKey

LEMMA SetFromServerOneEntry ==
  ASSUME NEW b \in Book, OneEntryPerKey(b), NEW list \in SUBSET Peer
  PROVE  OneEntryPerKey(SetFromServer(b, list))
<1> DEFINE new    == SetFromServer(b, list)
           kept   == NotManual(list, b.static, b.blocked)
           tagged == {[p EXCEPT !.source = "synced"] : p \in kept}
<1>1. new.static = b.static /\ new.blocked = b.blocked /\ new.synced = ByKey(tagged)
  BY DEF SetFromServer, Book
<1>2. KeysOf(tagged) \subseteq KeysOf(kept)
  BY DEF KeysOf, NotManual, Peer
<1>3. KeysOf(ByKey(tagged)) \cap KeysOf(b.static \cup b.blocked) = {}
  BY <1>2, ByKeyKeys, NotManualApart
<1>4. IsMap(ByKey(tagged))
  BY ByKeyIsMap
<1> SUFFICES OneEntryPerKey(new)
  OBVIOUS
<1> HIDE DEF new, kept, tagged
<1> QED
  BY <1>1, <1>3, <1>4 DEF OneEntryPerKey

LEMMA MergeIsMap ==
  ASSUME NEW onDisk, IsMap(onDisk), NEW fromServer, IsMap(fromServer)
  PROVE  IsMap(MergePeers(onDisk, fromServer))
<1>1. IsMap(Manual(onDisk))
  BY SubMap DEF Manual
<1> HIDE DEF Manual
<1> QED
  BY <1>1 DEF MergePeers, IsMap, KeysOf

-----------------------------------------------------------------------------
(* Types. *)

\* While a save is under way, what it has read is a config meshd accepts.
DiskValid == pc \in {"keywrite", "write"} => disk \in Config /\ Validate(disk)

LEMMA ParsedIsConfig ==
  ASSUME NEW f \in FileContent, ParseOK(f)
  PROVE  f \in Config /\ Validate(f)
  BY DEF ParseOK, FileContent

LEMMA UseEditsType ==
  ASSUME TypeOK, NEW c \in Config, UseEdits(c)
  PROVE  cfg' \in Cfg /\ book' \in Book /\ missed' \in BOOLEAN
<1>1. cfg' \in Cfg
  BY DEF TypeOK, UseEdits, Cfg, Config
<1>2. c.peers \in SUBSET Peer /\ cfg.server \in BOOLEAN
  BY DEF TypeOK, Cfg, Config
<1>3. book' \in Book
  BY <1>2, UpdateManualType DEF TypeOK, UseEdits
<1> QED
  BY <1>1, <1>3 DEF UseEdits

LEMMA checkConfigType ==
  ASSUME TypeOK, checkConfig
  PROVE  /\ cfg' \in Cfg /\ book' \in Book
         /\ lastRead' \in FileContent \cup {NoRead}
         /\ edited' \in {"no", "before", "during"} /\ missed' \in BOOLEAN
<1>1. edited' \in {"no", "before", "during"}
  BY DEF checkConfig
<1>2. CASE UNCHANGED <<cfg, book, missed>> /\ lastRead' \in {lastRead, file}
  BY <1>1, <1>2 DEF TypeOK
<1>3. CASE ParseOK(file) /\ lastRead' = file /\ UseEdits(file)
  BY <1>1, <1>3, ParsedIsConfig, UseEditsType DEF TypeOK
<1> QED
  BY <1>2, <1>3 DEF checkConfig

LEMMA SavedType ==
  ASSUME TypeOK, NEW d \in Config
  PROVE  Saved(d) \in Config
<1>1. MergePeers(d.peers, ServerPeers(book)) \in SUBSET Peer
  BY MergeType DEF TypeOK, Config, Book, ServerPeers
<1> QED
  BY <1>1 DEF Saved, TypeOK, Config, Cfg

LEMMA FreshType == Fresh \in Device
  BY DEF Fresh, Device

DoubtType == [live : BOOLEAN, keys : SUBSET Keys, skipped : BOOLEAN]

LEMMA NoDoubtType == NoDoubt \in DoubtType
  BY DEF NoDoubt, DoubtType

LEMMA ExitType ==
  ASSUME TypeOK, Exit, UNCHANGED file, upsets' \in 0 .. MaxUpsets
  PROVE  TypeOK'
  BY NewType, FreshType, NoDoubtType
     DEF TypeOK, Exit, NilCfg, Cfg, BootPcs, LoopPcs, DoubtType

LEMMA BlockOfType ==
  ASSUME NEW p \in Peer
  PROVE  BlockOf(p) \in Block
  BY DEF Peer, BlockOf, Block

LEMMA WantType ==
  ASSUME TypeOK, IsValid(cfg.addr)
  PROVE  Want \in Tunnel
<1>1. Peers(book) \in SUBSET Peer
  BY DEF TypeOK, Book, Peers
<1>2. {BlockOf(p) : p \in {q \in Peers(book) : q.key # cfg.key}} \in SUBSET Block
  BY <1>1, BlockOfType
<1>3. cfg.addr \in Addrs /\ cfg.live \in Settings \cup {Unset}
  BY DEF TypeOK, Cfg, IsValid
<1> QED
  BY <1>2, <1>3 DEF Want, Tunnel

LEMMA OpenedType ==
  ASSUME TypeOK, IsValid(cfg.addr)
  PROVE  Opened \in Tunnel
  BY DEF TypeOK, IsValid, Opened, MustOpen, Tunnel, Cfg

LEMMA OpenedDevType ==
  ASSUME TypeOK
  PROVE  OpenedDev \in Device
  BY FreshType DEF TypeOK, OpenedDev

LEMMA OpenedDoubtType ==
  ASSUME TypeOK
  PROVE  OpenedDoubt \in DoubtType
  BY NoDoubtType DEF TypeOK, OpenedDoubt, DoubtType

\* What an Apply sends is of peers.
LEMMA SentType ==
  ASSUME TypeOK, IsValid(cfg.addr)
  PROVE  /\ ToSet \in SUBSET Block
         /\ KeysOf(ToSet) \in SUBSET Keys
         /\ Sent \in SUBSET Keys
<1>1. Want.peers \in SUBSET Block /\ Opened.peers \in SUBSET Block
  BY WantType, OpenedType DEF Tunnel
<1>2. \A list \in SUBSET Block : KeysOf(list) \in SUBSET Keys
  BY DEF KeysOf, Block
<1>3. ToSet \in SUBSET Block
  BY <1>1 DEF ToSet
<1>4. KeysOf(ToSet) \in SUBSET Keys /\ KeysOf(Opened.peers) \in SUBSET Keys
  BY <1>1, <1>2, <1>3
<1> QED
  BY <1>3, <1>4 DEF Sent, ToRemove

LEMMA KeptType ==
  ASSUME TypeOK, IsValid(cfg.addr)
  PROVE  Kept \in Device
<1>1. Want.live \in Settings \cup {Unset}
  BY WantType DEF Tunnel
<1>2. OpenedDev \in Device
  BY OpenedDevType
<1> HIDE DEF Want, OpenedDev, NewPort, Sent
<1> QED
  BY <1>1, <1>2 DEF Kept, Device

LEMMA DoneType ==
  ASSUME TypeOK, IsValid(cfg.addr)
  PROVE  Done \in Device
  BY KeptType, SentType DEF Done, Device

\* What a failed Apply leaves.
LEMMA FailureType ==
  ASSUME TypeOK, IsValid(cfg.addr), PortFails \/ PeerFails
  PROVE  dev' \in Device /\ doubt' \in DoubtType
<1>1. OpenedDev \in Device /\ OpenedDoubt \in DoubtType
  BY OpenedDevType, OpenedDoubtType
<1>2. CASE PortFails
  BY <1>1, <1>2 DEF PortFails, Device, DoubtType
<1>3. CASE PeerFails
  <2>1. PICK reached \in SUBSET KeysOf(ToSet) :
          dev' = [Kept EXCEPT !.peers = @ \cup
                    [key  : reached \cup (KeysOf(OpenedDev.peers) \cap Sent),
                     data : {Unset}]]
    BY <1>3 DEF PeerFails
  <2>2. reached \cup (KeysOf(OpenedDev.peers) \cap Sent) \in SUBSET Keys
    BY SentType
  <2>3. dev' \in Device
    BY <2>1, <2>2, KeptType DEF Device, Block
  <2>4. doubt' \in DoubtType
    BY <1>1, <1>3, SentType DEF PeerFails, DoubtType, NewPort
  <2> QED
    BY <2>3, <2>4
<1> QED
  BY <1>2, <1>3

\* The addresses that the server's answers lead to.
LEMMA PrefixFromType ==
  ASSUME NEW ip \in IPs, NEW bits
  PROVE  PrefixFrom(ip, bits) \in Addrs \cup {BadAddr}
  BY DEF PrefixFrom, Addrs

LEMMA RegisterType ==
  ASSUME TypeOK, Register
  PROVE  cfg' \in Cfg
<1>1. PICK ip \in IPs, bits \in CidrBits \cup {NoCidr} :
        cfg' = [cfg EXCEPT !.addr = addressWithPrefix(ip, bits)]
  BY DEF Register
<1>2. addressWithPrefix(ip, bits) \in Addrs \cup {BadAddr}
  BY PrefixFromType DEF addressWithPrefix
<1> QED
  BY <1>1, <1>2 DEF TypeOK, Cfg

LEMMA SyncType ==
  ASSUME TypeOK, Sync
  PROVE  cfg' \in Cfg /\ book' \in Book /\ unsaved' \in BOOLEAN
<1>1. PICK ip \in IPs \cup {NoAddr}, list \in ServerLists :
        /\ cfg' = [cfg EXCEPT !.addr = Readdressed(ip)]
        /\ unsaved' = (unsaved \/ Moved(ip))
        /\ book' = SetFromServer(book, list)
  BY DEF Sync
<1>2. Readdressed(ip) \in Addrs \cup {BadAddr, cfg.addr}
  BY PrefixFromType DEF Readdressed, Moved
<1>3. cfg' \in Cfg
  BY <1>1, <1>2 DEF TypeOK, Cfg
<1>4. book' \in Book
  BY <1>1, SetFromServerType, DaemonAssumption DEF TypeOK
<1>5. unsaved' \in BOOLEAN
  BY <1>1, Zenon DEF TypeOK, Moved
<1> QED
  BY <1>3, <1>4, <1>5

LEMMA TypeInit == Init => TypeOK /\ DiskValid
<1> SUFFICES ASSUME Init PROVE TypeOK /\ DiskValid
  OBVIOUS
<1>1. file \in FileContent /\ minted \subseteq IdKeys
  BY DaemonAssumption DEF Init, FileContent, Config
<1>2. cfg \in Cfg /\ book \in Book
  BY NewType DEF Init, NilCfg, Cfg
<1>3. upsets \in 0 .. MaxUpsets
  BY DaemonAssumption DEF Init
<1> QED
  BY <1>1, <1>2, <1>3, FreshType, NoDoubtType DEF Init, TypeOK, DiskValid, DoubtType

LEMMA TypeStep == TypeOK /\ DiskValid /\ [Next]_vars => TypeOK'
<1> SUFFICES ASSUME TypeOK, DiskValid, [Next]_vars
             PROVE  TypeOK'
  OBVIOUS
<1> USE DEF vars, world, inMemory, device, history, BootPcs, LoopPcs
<1>1. CASE Start
  <2>1. file \in Config
    BY <1>1, ParsedIsConfig DEF Start, TypeOK
  <2>2. cfg' \in Cfg
    BY <1>1, <2>1 DEF Start, Cfg, Config
  <2>3. book' \in Book
    BY <1>1, <2>1, NewType, LoadType DEF Start, Config
  <2> QED
    BY <1>1, <2>2, <2>3 DEF Start, TypeOK
<1>2. CASE StartFails
  BY <1>2 DEF StartFails, TypeOK
<1>3. CASE Boot
  BY <1>3, checkConfigType DEF Boot, TypeOK
<1>4. CASE HasKey
  BY <1>4 DEF HasKey, TypeOK
<1>5. CASE GenerateKey
  <2>1. cfg' \in Cfg /\ minted' \subseteq IdKeys
    BY <1>5 DEF GenerateKey, TypeOK, Cfg
  <2> QED
    BY <1>5, <2>1 DEF GenerateKey, TypeOK
<1>6. CASE WakeByTicker
  BY <1>6 DEF WakeByTicker, Wake, TypeOK
<1>7. CASE WakeBySyncDue
  BY <1>7 DEF WakeBySyncDue, Wake, TypeOK
<1>8. CASE WakeBySighup
  BY <1>8 DEF WakeBySighup, Wake, TypeOK
<1>9. CASE WakeByTunnelStopped
  BY <1>9 DEF WakeByTunnelStopped, Wake, TypeOK
<1>10. CASE BeginPass
  <2>1. /\ tun' \in Tunnel \cup {NoTunnel} /\ dead' \in BOOLEAN
        /\ dev' \in Device /\ doubt' \in DoubtType
    BY <1>10, FreshType, NoDoubtType DEF BeginPass, TypeOK, DoubtType
  <2> QED
    BY <1>10, <2>1, checkConfigType DEF BeginPass, TypeOK, DoubtType
<1>11. CASE NoAddressYet
  <2>1. doubt' \in DoubtType
    BY <1>11 DEF NoAddressYet, TypeOK, DoubtType
  <2> QED
    BY <1>11, <2>1 DEF NoAddressYet, AfterTunnel, TypeOK, DoubtType
<1>12. CASE UpdateTunnel
  <2>1. Want \in Tunnel /\ Done \in Device /\ OpenedDoubt \in DoubtType
    BY <1>12, WantType, DoneType, OpenedDoubtType DEF UpdateTunnel, Updating
  <2>2. doubt' \in DoubtType
    BY <1>12, <2>1 DEF UpdateTunnel, NewPort, DoubtType
  <2>3. dead' \in BOOLEAN /\ pc' \in LoopPcs
    BY <1>12 DEF UpdateTunnel, Updating, AfterTunnel, TypeOK
  <2> QED
    BY <1>12, <2>1, <2>2, <2>3 DEF UpdateTunnel, Updating, TypeOK, DoubtType
<1>13. CASE ApplyFails
  <2>1. Opened \in Tunnel
    BY <1>13, OpenedType DEF ApplyFails, Updating
  <2>2. dev' \in Device /\ doubt' \in DoubtType
    BY <1>13, FailureType DEF ApplyFails, Updating
  <2>3. dead' \in BOOLEAN /\ pc' \in LoopPcs
    BY <1>13 DEF ApplyFails, Updating, AfterTunnel, TypeOK
  <2> QED
    BY <1>13, <2>1, <2>2, <2>3 DEF ApplyFails, Updating, TypeOK, DoubtType
<1>14. CASE OpenFails
  BY <1>14, ExitType DEF OpenFails, TypeOK
<1>15. CASE NotDue
  BY <1>15 DEF NotDue, TypeOK
<1>16. CASE Register
  BY <1>16, RegisterType DEF Register, TypeOK
<1>17. CASE Sync
  <2>1. cfg' \in Cfg /\ book' \in Book /\ unsaved' \in BOOLEAN
    BY <1>17, SyncType
  <2>2. /\ due' = FALSE /\ pc' = "retunnel"
        /\ UNCHANGED <<world, newKey, lastRead, disk, device, hup, history, upsets>>
    BY <1>17 DEF Sync
  <2> QED
    BY <2>1, <2>2 DEF TypeOK
<1>18. CASE UnknownMachine
  BY <1>18 DEF UnknownMachine, TypeOK
<1>19. CASE ServerFails
  <2>1. /\ due' = FALSE /\ pc' = "save"
        /\ UNCHANGED <<world, inMemory, device, hup, history, upsets>>
    BY <1>19 DEF ServerFails
  <2>2. pc' \in LoopPcs /\ due' \in BOOLEAN
    BY <2>1
  <2>3. UNCHANGED <<file, minted, cfg, book, unsaved, newKey, lastRead, disk, tun, dev,
                    dead, applyProblem, doubt, hup, edited, missed, upsets>>
    BY <2>1
  <2> QED
    BY <2>2, <2>3 DEF TypeOK
<1>20. CASE NothingToSave
  BY <1>20 DEF NothingToSave, TypeOK
<1>21. CASE ReadForSave
  <2>1. file \in Config
    BY <1>21, ParsedIsConfig DEF ReadForSave, TypeOK
  <2>2. cfg' \in Cfg /\ book' \in Book /\ missed' \in BOOLEAN
    BY <1>21, <2>1, UseEditsType DEF ReadForSave, TypeOK
  <2> QED
    BY <1>21, <2>1, <2>2 DEF ReadForSave, TypeOK
<1>22. CASE WriteFile
  <2>1. Saved(disk) \in Config
    BY <1>22, SavedType DEF WriteFile, DiskValid
  <2>2. book' \in Book
    BY <1>22 DEF WriteFile, MarkSaved, TypeOK, Book
  <2> QED
    BY <1>22, <2>1, <2>2 DEF WriteFile, TypeOK, FileContent
<1>23. CASE SaveFails
  <2>1. missed' \in BOOLEAN
    BY <1>23 DEF SaveFails, TypeOK
  <2> QED
    BY <1>23, <2>1 DEF SaveFails, TypeOK
<1>24. CASE KeySaveFails
  BY <1>24, ExitType DEF KeySaveFails, TypeOK
<1>25. CASE EditFile
  <2>1. file' \in FileContent
    BY <1>25, DaemonAssumption DEF EditFile, TypeOK, FileContent, Config
  <2> QED
    BY <1>25, <2>1, DaemonAssumption DEF EditFile, Upset, EditedNow, TypeOK
<1>26. CASE Retag
  <2>1. file \in Config
    BY <1>26 DEF Retag, TypeOK, FileContent
  <2>2. PICK p \in file.peers, s \in Source :
          file' = [file EXCEPT !.peers = (@ \ {p}) \cup {[p EXCEPT !.source = s]}]
    BY <1>26 DEF Retag
  <2>3. p \in Peer
    BY <2>1, <2>2 DEF Config
  <2>4. [p EXCEPT !.source = s] \in Peer
    BY <2>2, <2>3 DEF Peer
  <2>5. file' \in Config
    BY <2>1, <2>2, <2>4 DEF Config
  <2> QED
    BY <1>26, <2>5, DaemonAssumption DEF Retag, Upset, EditedNow, TypeOK, FileContent
<1>27. CASE Setup
  <2>1. file' \in FileContent /\ minted' \subseteq IdKeys
    BY <1>27, DaemonAssumption DEF Setup, TypeOK, FileContent, Config
  <2> QED
    BY <1>27, <2>1, DaemonAssumption DEF Setup, Upset, EditedNow, TypeOK
<1>28. CASE TunnelDies
  BY <1>28, DaemonAssumption DEF TunnelDies, Upset, TypeOK
<1>29. CASE Sighup
  BY <1>29, DaemonAssumption DEF Sighup, Upset, TypeOK
<1>30. CASE Stop
  BY <1>30, ExitType, DaemonAssumption DEF Stop, Upset, TypeOK
<1>31. CASE SyncTimePasses
  BY <1>31 DEF SyncTimePasses, TypeOK
<1>32. CASE UNCHANGED vars
  BY <1>32 DEF TypeOK
<1> QED
  BY <1>1, <1>2, <1>3, <1>4, <1>5, <1>6, <1>7, <1>8, <1>9, <1>10, <1>11, <1>12,
     <1>13, <1>14, <1>15, <1>16, <1>17, <1>18, <1>19, <1>20, <1>21, <1>22, <1>23,
     <1>24, <1>25, <1>26, <1>27, <1>28, <1>29, <1>30, <1>31, <1>32
     DEF Next, Run, World

LEMMA DiskStep == TypeOK /\ DiskValid /\ [Next]_vars => DiskValid'
<1> SUFFICES ASSUME TypeOK, DiskValid, [Next]_vars,
                    pc' \in {"keywrite", "write"}
             PROVE  disk' \in Config /\ Validate(disk')
  BY DEF DiskValid, Validate
<1> USE DEF vars, world, inMemory, device, history, BootPcs, LoopPcs
<1>1. CASE ReadForSave
  BY <1>1, ParsedIsConfig DEF ReadForSave, TypeOK
<1>2. CASE pc' = pc /\ disk' = disk
  BY <1>2 DEF DiskValid
<1>3. CASE Run /\ ~ReadForSave
  BY <1>2, <1>3
     DEF Run, Start, StartFails, Boot, HasKey, GenerateKey, WakeByTicker, WakeBySyncDue,
         WakeBySighup, WakeByTunnelStopped, Wake, BeginPass, NoAddressYet, UpdateTunnel,
         Updating, ApplyFails, OpenFails, AfterTunnel, Exit, NotDue, Register, Sync,
         UnknownMachine, ServerFails, NothingToSave, WriteFile, SaveFails, KeySaveFails
<1>4. CASE World
  BY <1>2, <1>4
     DEF World, EditFile, Retag, Setup, TunnelDies, Sighup, Stop, Exit, SyncTimePasses
<1> QED
  BY <1>1, <1>2, <1>3, <1>4 DEF Next

-----------------------------------------------------------------------------
(* One entry for each key, in every state. *)

LEMMA UseEditsOneEntry ==
  ASSUME TypeOK, SyncedDisjoint, NEW c \in Config, Validate(c), UseEdits(c)
  PROVE  SyncedDisjoint'
<1>1. c.peers \in SUBSET Peer /\ IsMap(c.peers)
  BY DEF Config, Validate
<1>2. OneEntryPerKey(UpdateManualPeers(book, c.peers, cfg.server))
  BY <1>1, UpdateManualOneEntry DEF SyncedDisjoint, TypeOK, Cfg
<1> QED
  BY <1>2 DEF SyncedDisjoint, UseEdits

LEMMA checkConfigOneEntry ==
  ASSUME TypeOK, SyncedDisjoint, checkConfig
  PROVE  SyncedDisjoint'
<1>1. CASE book' = book
  BY <1>1 DEF SyncedDisjoint
<1>2. CASE ParseOK(file) /\ UseEdits(file)
  BY <1>2, ParsedIsConfig, UseEditsOneEntry DEF TypeOK
<1> QED
  BY <1>1, <1>2 DEF checkConfig

LEMMA BookStep == TypeOK /\ SyncedDisjoint /\ [Next]_vars => SyncedDisjoint'
<1> SUFFICES ASSUME TypeOK, SyncedDisjoint, [Next]_vars
             PROVE  SyncedDisjoint'
  OBVIOUS
<1> USE DEF vars, world, inMemory, device, history
<1>1. CASE Start
  <2>1. file \in Config /\ Validate(file)
    BY <1>1, ParsedIsConfig DEF Start, TypeOK
  <2>2. file.peers \in SUBSET Peer /\ IsMap(file.peers) /\ file.server \in BOOLEAN
    BY <2>1 DEF Config, Validate
  <2>3. OneEntryPerKey(LoadFromConfig(New, file.peers, file.server))
    BY <2>2, NewType, LoadOneEntry
  <2> QED
    BY <1>1, <2>3 DEF Start, SyncedDisjoint
<1>2. CASE Boot \/ BeginPass
  BY <1>2, checkConfigOneEntry DEF Boot, BeginPass
<1>3. CASE Sync
  <2>1. PICK list \in ServerLists : book' = SetFromServer(book, list)
    BY <1>3 DEF Sync
  <2>2. OneEntryPerKey(SetFromServer(book, list))
    BY <2>1, SetFromServerOneEntry, DaemonAssumption DEF SyncedDisjoint, TypeOK
  <2> QED
    BY <2>1, <2>2 DEF SyncedDisjoint
<1>4. CASE ReadForSave
  BY <1>4, ParsedIsConfig, UseEditsOneEntry DEF ReadForSave, SyncedDisjoint, TypeOK
<1>5. CASE WriteFile
  BY <1>5 DEF WriteFile, MarkSaved, SyncedDisjoint, OneEntryPerKey, TypeOK, Book
<1>6. CASE Exit
  BY <1>6, NewOneEntry DEF Exit, SyncedDisjoint
<1>7. CASE book' = book
  BY <1>7 DEF SyncedDisjoint
<1>8. CASE Run /\ ~(Start \/ Boot \/ BeginPass \/ Sync \/ ReadForSave \/ WriteFile)
  BY <1>6, <1>7, <1>8
     DEF Run, StartFails, HasKey, GenerateKey, WakeByTicker, WakeBySyncDue,
         WakeBySighup, WakeByTunnelStopped, Wake, NoAddressYet, UpdateTunnel,
         Updating, ApplyFails, OpenFails, NotDue, Register, UnknownMachine, ServerFails,
         NothingToSave, SaveFails, KeySaveFails
<1>9. CASE World
  BY <1>6, <1>7, <1>9
     DEF World, EditFile, Retag, Setup, TunnelDies, Sighup, Stop, SyncTimePasses
<1> QED
  BY <1>1, <1>2, <1>3, <1>4, <1>5, <1>7, <1>8, <1>9 DEF Next

-----------------------------------------------------------------------------
(* The theorems. *)

IInv == TypeOK /\ DiskValid /\ SyncedDisjoint

LEMMA IInvInit == Init => IInv
  BY TypeInit, NewOneEntry DEF IInv, Init, SyncedDisjoint

LEMMA IInvStep == IInv /\ [Next]_vars => IInv'
  BY TypeStep, DiskStep, BookStep DEF IInv

LEMMA Invariance == Spec => []IInv
  BY IInvInit, IInvStep, PTL DEF Spec

\* Every variable keeps its type, whatever the user and the server do
\* (Daemon, daemon.go:29).
THEOREM TypeCorrect == Spec => []TypeOK
  BY Invariance, PTL DEF IInv

\* A key is in at most one map of the peer book (peerbook.go:39), so what the
\* user says of a peer never stands beside what the server says.
THEOREM OneSource == Spec => []SyncedDisjoint
  BY Invariance, PTL DEF IInv

LEMMA SavedParses ==
  ASSUME IInv, NEW d \in Config, Validate(d)
  PROVE  ParseOK(Saved(d)) <=> ~(cfg.server /\ d.server /\ Unfit)
<1> DEFINE merged == MergePeers(d.peers, ServerPeers(book))
<1>1. Saved(d) \in Config
  BY SavedType DEF IInv
<1>2. IsMap(merged)
  BY MergeIsMap DEF IInv, SyncedDisjoint, OneEntryPerKey, ServerPeers, Validate
<1>3. ZeroKey \notin KeysOf(Manual(d.peers))
  BY DEF Validate, Manual, KeysOf
<1>4. ZeroKey \in KeysOf(merged) <=> ZeroKey \in KeysOf(ServerPeers(book))
  BY <1>3 DEF MergePeers, KeysOf
<1>5. CASE cfg.server /\ d.server
  <2>1. /\ Saved(d).server = TRUE /\ Saved(d).addr = cfg.addr
        /\ Saved(d).peers = merged
    BY <1>5 DEF Saved, Config
  <2>2. Validate(Saved(d)) <=> ~Unfit
    BY <1>2, <1>4, <2>1 DEF Validate, Unfit
  <2> QED
    BY <1>1, <1>5, <2>2, SentinelsDistinct DEF ParseOK
<1>6. CASE ~(cfg.server /\ d.server)
  <2>1. /\ Saved(d).server = d.server /\ Saved(d).addr = d.addr
        /\ Saved(d).peers = d.peers
    BY <1>6 DEF Saved, Config
  <2> QED
    BY <1>1, <1>6, <2>1, SentinelsDistinct DEF ParseOK, Validate
<1> QED
  BY <1>5, <1>6

\* meshd writes a file that it would itself refuse (daemon.go:444) exactly when
\* the server has sent it the key of zeros, or an address that is not one: what
\* comes from a user, from an edit or from a merge never spoils the file.
THEOREM SpoiltByServerOnly == Spec => OnlyServerSpoils
<1>1. IInv /\ [Next]_vars =>
        [MeshdWrites =>
           (ParseOK(file') <=> ~(cfg.server /\ file'.server /\ Unfit))]_vars
  <2> SUFFICES ASSUME IInv, [Next]_vars, MeshdWrites
               PROVE  ParseOK(file') <=> ~(cfg.server /\ file'.server /\ Unfit)
    OBVIOUS
  <2> USE DEF vars, world, inMemory, device, history
  <2>1. upsets' # upsets + 1
    BY DaemonAssumption DEF MeshdWrites, IInv, TypeOK
  <2>2. WriteFile
    BY <2>1
       DEF MeshdWrites, Next, Run, World, Start, StartFails, Boot, HasKey, GenerateKey,
           WakeByTicker, WakeBySyncDue, WakeBySighup, WakeByTunnelStopped, Wake,
           BeginPass, NoAddressYet, UpdateTunnel, Updating, ApplyFails, OpenFails,
           NotDue, Register, Sync, UnknownMachine, ServerFails, NothingToSave,
           ReadForSave, SaveFails, KeySaveFails, EditFile, Retag, Setup, TunnelDies,
           Sighup, Stop, Upset, SyncTimePasses
  <2>3. disk \in Config /\ Validate(disk) /\ file' = Saved(disk)
    BY <2>2 DEF WriteFile, IInv, DiskValid
  <2>4. file'.server = disk.server
    BY <2>3 DEF Saved, Config
  <2> QED
    BY <2>3, <2>4, SavedParses
<1> QED
  BY <1>1, Invariance, PTL DEF Spec, OnlyServerSpoils

LEMMA UseEditsShrinks ==
  ASSUME NEW c, UseEdits(c)
  PROVE  book'.synced \subseteq book.synced
  BY DEF UseEdits, UpdateManualPeers, NotManual

\* A server's peer comes into a running book, or changes there, by an answer of
\* the server and in no other way (peerbook.go:108): an old copy of the file,
\* saved by an editor, is taken for the user's peers alone.
THEOREM ServerListFromServer == Spec => OldListNotRevived
<1>1. IInv /\ [Next]_vars => [SyncedGrows => pc' = "retunnel"]_vars
  <2> SUFFICES ASSUME IInv, [Next]_vars, pc \in LoopPcs, ~Sync
               PROVE  book'.synced \subseteq book.synced
    BY DEF SyncedGrows, ServerPeers, Sync
  <2> USE DEF vars, world, inMemory, device, history
  <2>1. CASE book' = book
    BY <2>1
  <2>2. CASE Exit
    BY <2>2 DEF Exit, New
  <2>3. CASE BeginPass
    BY <2>3, UseEditsShrinks DEF BeginPass, checkConfig
  <2>4. CASE ReadForSave
    BY <2>4, UseEditsShrinks DEF ReadForSave
  <2>5. CASE WriteFile
    BY <2>5 DEF WriteFile, MarkSaved, IInv, TypeOK, Book
  <2>6. CASE Run /\ ~BeginPass /\ ~ReadForSave /\ ~WriteFile
    BY <2>1, <2>2, <2>6
       DEF Run, LoopPcs, Start, StartFails, Boot, HasKey, GenerateKey, WakeByTicker,
           WakeBySyncDue, WakeBySighup, WakeByTunnelStopped, Wake, NoAddressYet,
           UpdateTunnel, Updating, ApplyFails, OpenFails, NotDue, Register, UnknownMachine,
           ServerFails, NothingToSave, SaveFails, KeySaveFails
  <2>7. CASE World
    BY <2>1, <2>2, <2>7
       DEF World, EditFile, Retag, Setup, TunnelDies, Sighup, Stop, SyncTimePasses
  <2> QED
    BY <2>1, <2>3, <2>4, <2>5, <2>6, <2>7 DEF Next
<1> QED
  BY <1>1, Invariance, PTL DEF Spec, OldListNotRevived

-----------------------------------------------------------------------------
(* The machine's key. *)

\* The key in use is the one in the file, from the start of the process on; a
\* new one is on its way there.  An edit of the user ends that.
KeyInv ==
  /\ newKey => pc \in {"keysave", "keywrite"}
  /\ (pc # "down" /\ edited = "no") =>
       file \in Config /\ (newKey \/ file.key = cfg.key)
  /\ (pc \in {"keywrite", "write"} /\ edited = "no") => disk = file

LEMMA KeyInvStep == IInv /\ KeyInv /\ [Next]_vars => KeyInv'
<1> SUFFICES ASSUME IInv, KeyInv, [Next]_vars
             PROVE  KeyInv'
  OBVIOUS
<1> USE DEF vars, world, inMemory, device, history
<1>1. CASE Start
  BY <1>1, ParsedIsConfig DEF Start, KeyInv, IInv, TypeOK
<1>2. CASE Boot \/ BeginPass
  <2>1. cfg'.key = cfg.key
    BY <1>2 DEF Boot, BeginPass, checkConfig, UseEdits, IInv, TypeOK, Cfg
  <2> QED
    BY <1>2, <2>1 DEF Boot, BeginPass, checkConfig, KeyInv
<1>3. CASE GenerateKey
  BY <1>3 DEF GenerateKey, KeyInv
<1>4. CASE Register \/ Sync
  <2>1. cfg'.key = cfg.key
    BY <1>4 DEF Register, Sync, IInv, TypeOK, Cfg
  <2>2. pc' \in {"call", "recall", "retunnel"}
    BY <1>4 DEF Register, Sync
  <2>3. pc # "down" /\ UNCHANGED <<newKey, edited, file>>
    BY <1>4 DEF Register, Sync, CanRegister, CanSync
  <2>4. ~newKey
    BY <1>4 DEF Register, Sync, CanRegister, CanSync, KeyInv
  <2> QED
    BY <2>1, <2>2, <2>3, <2>4 DEF KeyInv
<1>5. CASE ReadForSave
  <2>1. cfg'.key = cfg.key
    BY <1>5 DEF ReadForSave, UseEdits, IInv, TypeOK, Cfg
  <2> QED
    BY <1>5, <2>1 DEF ReadForSave, MustSave, KeyInv
<1>6. CASE WriteFile
  <2>1. disk \in Config /\ Validate(disk)
    BY <1>6 DEF WriteFile, IInv, DiskValid
  <2>2. file' \in Config
    BY <1>6, <2>1, SavedType DEF WriteFile, IInv
  <2>3. Saved(disk).key = IF newKey THEN cfg.key ELSE disk.key
    BY <2>1 DEF Saved, Config
  <2>4. edited = "no" => file'.key = cfg'.key
    BY <1>6, <2>3 DEF WriteFile, KeyInv
  <2> QED
    BY <1>6, <2>2, <2>4 DEF WriteFile, KeyInv
<1>7. CASE Exit
  BY <1>7 DEF Exit, KeyInv
<1>8. CASE EditFile \/ Retag \/ Setup
  BY <1>8 DEF EditFile, Retag, Setup, EditedNow, KeyInv
<1>9. CASE UNCHANGED <<file, pc, cfg, newKey, edited, disk>>
  BY <1>9 DEF KeyInv
<1>10. CASE /\ Run
            /\ ~(Start \/ Boot \/ BeginPass \/ GenerateKey \/ Register \/ Sync)
            /\ ~(ReadForSave \/ WriteFile)
  <2>1. CASE Exit
    BY <2>1, <1>7
  <2>2. CASE ~Exit
    <3>1. UNCHANGED <<file, cfg, newKey, edited>>
      BY <1>10, <2>2
         DEF Run, StartFails, HasKey, WakeByTicker, WakeBySyncDue, WakeBySighup,
             WakeByTunnelStopped, Wake, NoAddressYet, UpdateTunnel, Updating, ApplyFails,
             OpenFails, NotDue, UnknownMachine, ServerFails, NothingToSave, SaveFails,
             KeySaveFails
    <3>2. \/ UNCHANGED <<pc, disk>>
          \/ pc # "down" /\ ~newKey /\ pc' \notin {"down", "keywrite", "write"}
      BY <1>10, <2>2
         DEF Run, StartFails, HasKey, WakeByTicker, WakeBySyncDue, WakeBySighup,
             WakeByTunnelStopped, Wake, NoAddressYet, UpdateTunnel, Updating, ApplyFails,
             OpenFails, AtTunnel, AfterTunnel, NotDue, UnknownMachine, ServerFails,
             CanRegister, CanSync, NothingToSave, SaveFails, KeySaveFails, KeyInv
    <3> QED
      BY <3>1, <3>2 DEF KeyInv
  <2> QED
    BY <2>1, <2>2
<1>11. CASE World
  BY <1>7, <1>8, <1>9, <1>11 DEF World, TunnelDies, Sighup, Stop, SyncTimePasses
<1> QED
  BY <1>1, <1>2, <1>3, <1>4, <1>5, <1>6, <1>9, <1>10, <1>11 DEF Next

\* A meshd that runs uses the key in its file unless the user has edited the
\* file since it started (ensureKey, daemon.go:147): a crash at any moment
\* does not cost the machine its identity.
THEOREM KeyIsKept == Spec => []KeyOnDisk
<1>1. Init => KeyInv
  BY DEF Init, KeyInv
<1>2. Spec => []KeyInv
  BY <1>1, Invariance, KeyInvStep, PTL DEF Spec
<1>3. KeyInv => KeyOnDisk
  BY SentinelsDistinct DEF KeyInv, KeyOnDisk, LoopPcs
<1> QED
  BY <1>2, <1>3, PTL
=============================================================================
