----------------------------- MODULE MeshDaemon -----------------------------
(***************************************************************************)
(* One meshd (internal/daemon): the loop that reads meshd.json, keeps the  *)
(* tunnel and the peer book in step with it, syncs with the coordination   *)
(* server and writes its own parts of the file back.                       *)
(*                                                                         *)
(* A pass (bringUpToDate) is a walk of pc through                          *)
(*   check, tunnel, sync, (call, reregister, recall, retunnel,) save,      *)
(*   write, idle,                                                          *)
(* one step for each use of the outside world (the file, the device, the   *)
(* server), with what meshd computes before the next one.  Between any two *)
(* steps the user may edit the file, the tunnel may be shut down, SIGHUP   *)
(* may arrive and the process may die.  The server may answer anything a   *)
(* reply can say, or fail; its own state is not part of this module.       *)
(*                                                                         *)
(* An Apply is one step, which may fail half way.  The device has the      *)
(* listen port and the peers.  What WgTunnel shows of other tools, shared  *)
(* allowed IPs and endpoints that are taken out is left out here.          *)
(*                                                                         *)
(* Bounds: MaxUpsets caps what users and the machine do to a run of the    *)
(* model (edits, setups, signals, deaths); IdKeys caps the keys generated, *)
(* so Setup and EditFile leave one for a meshd that has to make its own.   *)
(***************************************************************************)
EXTENDS ConfigFile

CONSTANTS UserConfigs,  \* what a user may save as meshd.json (any key is put in)
          ServerLists,  \* the peer lists the server may send
          CidrBits,     \* prefix lengths the server may send
          Faults,       \* the local operations that may fail
          MaxUpsets,
          NoRead,       \* meshd has not read the file yet
          NoTunnel,
          Unset         \* a setting of a device that was never configured

Cfg == [server : BOOLEAN, live : Settings \cup {Unset},
        key : IdKeys \cup {NoKey}, addr : Addrs \cup {NoAddr, BadAddr}]

\* What is configured of a peer.
Block == [key : Keys, data : Data \cup {Unset}]

BlockOf(p) == [key |-> p.key, data |-> p.data]

\* The address a tunnel was opened with, and t.applied.
Tunnel == [addr : Addrs, live : Settings \cup {Unset}, peers : SUBSET Block]

\* What the device has.
Device == [live : Settings \cup {Unset}, peers : SUBSET Block]

Fresh == [live |-> Unset, peers |-> {}]

NoDoubt == [live |-> FALSE, keys |-> {}, skipped |-> FALSE]

ASSUME DaemonAssumption ==
  /\ UserConfigs \subseteq Config
  /\ ServerLists \subseteq SUBSET Peer
  /\ CidrBits \subseteq Nat
  /\ Faults \subseteq {"open", "port", "peer", "write"}
  /\ MaxUpsets \in Nat
  /\ NoRead \notin FileContent
  /\ NoTunnel \notin Tunnel
  /\ Unset \notin Settings /\ Unset \notin Data

VARIABLES
  file,          \* meshd.json
  pc,            \* where meshd is; "down" when it does not run
  cfg,           \* d.cfg: server (is server_url set), live, key and addr
  book,          \* d.book
  tun,           \* d.tunAddr and what d.tun has applied
  dev,           \* the tunnel's device
  dead,          \* it was stopped from outside
  applyProblem,  \* the last attempt to update the tunnel failed
  due,           \* the time of the next sync has come
  hup,           \* syncNow holds a request
  unsaved,       \* d.unsaved
  newKey,        \* d.newKey
  lastRead,      \* d.lastRead
  disk,          \* the config saveFile read and is about to write back
  \* The rest is not in the program; it says what has happened.
  edited,        \* the user's last edit, against this process and pass
  missed,        \* a save failed after it had put an edit in use
  doubt,         \* what a failed Apply was to change and none has sent since,
                 \* and whether the last update was skipped
  minted,        \* the private keys that exist
  upsets         \* how many upsets there were

inMemory == <<cfg, book, unsaved, newKey, lastRead, disk>>
world    == <<file, minted>>
device   == <<tun, dev, dead, applyProblem, doubt>>
history  == <<edited, missed>>
vars     == <<world, pc, inMemory, device, due, hup, history, upsets>>

NilCfg == [server |-> FALSE, live |-> Unset, key |-> NoKey, addr |-> NoAddr]

BootPcs == {"boot", "key", "keysave", "keywrite"}
LoopPcs == {"idle", "check", "tunnel", "sync", "call", "reregister", "recall",
            "retunnel", "save", "write"}

TypeOK ==
  /\ file \in FileContent
  /\ pc \in {"down"} \cup BootPcs \cup LoopPcs
  /\ cfg \in Cfg
  /\ book \in Book
  /\ tun \in Tunnel \cup {NoTunnel}
  /\ dev \in Device /\ dead \in BOOLEAN /\ applyProblem \in BOOLEAN
  /\ doubt \in [live : BOOLEAN, keys : SUBSET Keys, skipped : BOOLEAN]
  /\ due \in BOOLEAN /\ hup \in BOOLEAN
  /\ unsaved \in BOOLEAN /\ newKey \in BOOLEAN
  /\ lastRead \in FileContent \cup {NoRead}
  /\ disk \in Config \cup {NoRead}
  /\ edited \in {"no", "before", "during"} /\ missed \in BOOLEAN
  /\ minted \subseteq IdKeys
  /\ upsets \in 0 .. MaxUpsets

Init ==
  /\ \E c \in UserConfigs, k \in IdKeys \cup {NoKey} :
       /\ file = [c EXCEPT !.key = k]
       /\ minted = {k} \ {NoKey}
  /\ pc = "down"
  /\ cfg = NilCfg /\ book = New
  /\ tun = NoTunnel /\ dev = Fresh /\ doubt = NoDoubt
  /\ dead = FALSE /\ applyProblem = FALSE
  /\ due = FALSE /\ hup = FALSE
  /\ unsaved = FALSE /\ newKey = FALSE
  /\ lastRead = NoRead /\ disk = NoRead
  /\ edited = "no" /\ missed = FALSE
  /\ upsets = 0

-----------------------------------------------------------------------------
(* Edits of meshd.json *)

UseEdits(c) ==
  /\ cfg'  = [cfg EXCEPT !.live = c.live,
                         !.addr = IF cfg.server THEN @ ELSE c.addr]
  /\ book' = UpdateManualPeers(book, c.peers, cfg.server)
  /\ missed' = FALSE

\* Not a change since meshd last read or wrote the file, or not readable.
NothingNew == file \in {Unreadable, lastRead}

checkConfig ==
  /\ edited' = IF edited = "no" THEN "no" ELSE "before"
  /\ \/ /\ NothingNew
        /\ UNCHANGED <<cfg, book, lastRead, missed>>
     \/ /\ ~NothingNew /\ ~ParseOK(file)
        /\ lastRead' = file
        /\ UNCHANGED <<cfg, book, missed>>
     \/ /\ ~NothingNew /\ ParseOK(file)
        /\ lastRead' = file
        /\ UseEdits(file)

-----------------------------------------------------------------------------
(* Starting and stopping.  The tunnel lives in the process and goes with it. *)

\* main: load the config; New; Run: loadPeers.
Start ==
  /\ pc = "down" /\ ParseOK(file)
  /\ cfg' = [server |-> file.server, live |-> file.live,
             key |-> file.key, addr |-> file.addr]
  /\ book' = LoadFromConfig(New, file.peers, file.server)
  /\ due' = TRUE
  /\ pc' = "boot"
  /\ UNCHANGED <<world, device, hup, unsaved, newKey, lastRead, disk, history, upsets>>

\* A process that finds a file it cannot use, or with a server a token file or
\* a server_url that it cannot (New), reports it and exits.
StartFails ==
  /\ pc = "down" /\ (ParseOK(file) => file.server)
  /\ UNCHANGED vars

\* The process ends: by SIGTERM, by an error Run returns, or by a crash.  A key
\* that was not written goes with it, and nobody will ever see it.
Exit ==
  /\ pc' = "down"
  /\ minted' = IF newKey THEN minted \ {cfg.key} ELSE minted
  /\ cfg' = NilCfg /\ book' = New
  /\ tun' = NoTunnel /\ dev' = Fresh /\ doubt' = NoDoubt
  /\ dead' = FALSE /\ applyProblem' = FALSE
  /\ due' = FALSE /\ hup' = FALSE
  /\ unsaved' = FALSE /\ newKey' = FALSE
  /\ lastRead' = NoRead /\ disk' = NoRead
  /\ edited' = "no" /\ missed' = FALSE

\* Run, before the loop.
Boot ==
  /\ pc = "boot"
  /\ checkConfig
  /\ pc' = "key"
  /\ UNCHANGED <<world, device, due, hup, unsaved, newKey, disk, upsets>>

HasKey ==
  /\ pc = "key" /\ cfg.key # NoKey
  /\ pc' = "check"
  /\ UNCHANGED <<world, inMemory, device, due, hup, history, upsets>>

GenerateKey ==
  /\ pc = "key" /\ cfg.key = NoKey
  /\ \E k \in IdKeys \ minted :
       /\ cfg' = [cfg EXCEPT !.key = k]
       /\ minted' = minted \cup {k}
  /\ newKey' = TRUE
  /\ pc' = "keysave"
  /\ UNCHANGED <<file, book, unsaved, lastRead, disk, device, due, hup, history, upsets>>

-----------------------------------------------------------------------------
(* A pass begins when Run's select picks a ready channel. *)

Wake ==
  /\ pc = "idle"
  /\ pc' = "check"
  /\ UNCHANGED <<world, inMemory, device, history, upsets>>

WakeByTicker == Wake /\ UNCHANGED <<due, hup>>

WakeBySyncDue == cfg.server /\ due /\ Wake /\ UNCHANGED <<due, hup>>

\* Mutant: the planned time of the next sync stays as it is.
WakeBySighupOnly == hup /\ Wake /\ hup' = FALSE /\ UNCHANGED due

WakeBySighup == hup /\ Wake /\ hup' = FALSE /\ due' = TRUE

WakeByTunnelStopped ==
  tun # NoTunnel /\ dead /\ Wake /\ UNCHANGED <<due, hup>>

\* Mutant: a tunnel stopped from outside is kept.
BeginPassWithDead ==
  /\ pc = "check"
  /\ checkConfig
  /\ pc' = "tunnel"
  /\ UNCHANGED <<world, device, due, hup, unsaved, newKey, disk, upsets>>

\* dropDeadTunnel and checkConfig.
BeginPass ==
  /\ pc = "check"
  /\ IF tun # NoTunnel /\ dead
       THEN tun' = NoTunnel /\ dead' = FALSE /\ dev' = Fresh /\ doubt' = NoDoubt
       ELSE UNCHANGED <<tun, dead, dev, doubt>>
  /\ checkConfig
  /\ pc' = "tunnel"
  /\ UNCHANGED <<world, applyProblem, due, hup, unsaved, newKey, disk, upsets>>

-----------------------------------------------------------------------------
(* updateTunnel, before the sync and after a successful one. *)

AtTunnel == pc \in {"tunnel", "retunnel"}

AfterTunnel == pc' = IF pc = "tunnel" THEN "sync" ELSE "save"

MustOpen == IF tun = NoTunnel THEN TRUE ELSE tun.addr # cfg.addr

\* The tunnel applyPeers works on, and its device: a new one holds nothing yet.
Opened == IF MustOpen THEN [addr |-> cfg.addr, live |-> Unset, peers |-> {}] ELSE tun

OpenedDev == IF MustOpen THEN Fresh ELSE dev

OpenedDoubt == IF MustOpen THEN NoDoubt ELSE [doubt EXCEPT !.skipped = FALSE]

\* This machine's own key is never a peer.
Want == [addr  |-> cfg.addr,
         live  |-> cfg.live,
         peers |-> {BlockOf(p) : p \in {q \in Peers(book) : q.key # cfg.key}}]

\* diff: what an Apply sends.
NewPort == Want.live # Opened.live
ToSet == Want.peers \ Opened.peers
ToRemove == KeysOf(Opened.peers) \ KeysOf(Want.peers)
Sent == KeysOf(ToSet) \cup ToRemove

\* The device with the port set, if it is sent, and none of the peers sent.
Kept == [live  |-> IF NewPort THEN Want.live ELSE OpenedDev.live,
         peers |-> {b \in OpenedDev.peers : b.key \notin Sent}]

\* The device with everything done.
Done == [Kept EXCEPT !.peers = @ \cup ToSet]

\* Without a valid address it returns early, and a tunnel stays as it is.
NoAddressYet ==
  /\ AtTunnel /\ ~IsValid(cfg.addr)
  /\ doubt' = [doubt EXCEPT !.skipped = (tun # NoTunnel)]
  /\ AfterTunnel
  /\ UNCHANGED <<world, inMemory, tun, dev, dead, applyProblem, due, hup, history, upsets>>

\* ensureTunnel and the call of Apply.
Updating ==
  /\ AtTunnel /\ IsValid(cfg.addr)
  /\ dead' = (dead /\ ~MustOpen)
  /\ AfterTunnel
  /\ UNCHANGED <<world, inMemory, due, hup, history, upsets>>

\* Mutant: it does not wait for an address.
UpdateTunnelAnyway ==
  /\ AtTunnel
  /\ tun' = Want /\ dev' = Done /\ doubt' = OpenedDoubt
  /\ applyProblem' = FALSE
  /\ dead' = (dead /\ ~MustOpen)
  /\ AfterTunnel
  /\ UNCHANGED <<world, inMemory, due, hup, history, upsets>>

UpdateTunnel ==
  /\ Updating
  /\ tun' = Want
  /\ dev' = Done
  /\ doubt' = [OpenedDoubt EXCEPT !.live = @ /\ ~NewPort, !.keys = @ \ Sent]
  /\ applyProblem' = FALSE

\* Setting the port, which comes first, fails: if it is in use, the old socket
\* is closed by then.
PortFails ==
  /\ "port" \in Faults /\ NewPort
  /\ dev' \in {OpenedDev, [OpenedDev EXCEPT !.live = Unset]}
  /\ doubt' = [OpenedDoubt EXCEPT !.live = TRUE]

\* The block of a peer fails, and blocks of other peers may have been done.  No
\* peer is gone then; what one that was sent has is left open (Unset).
PeerFails ==
  /\ "peer" \in Faults /\ ToSet # {}
  /\ \E reached \in SUBSET KeysOf(ToSet) :
       LET halfDone == reached \cup (KeysOf(OpenedDev.peers) \cap Sent)
       IN  dev' = [Kept EXCEPT !.peers = @ \cup [key : halfDone, data : {Unset}]]
  /\ doubt' = [OpenedDoubt EXCEPT !.live = @ \/ NewPort, !.keys = @ \cup Sent]

\* IpcSet stops at a command that fails, and t.applied stays as it was.
\* Without a difference nothing is sent.
ApplyFails ==
  /\ Updating
  /\ tun' = Opened
  /\ PortFails \/ PeerFails
  /\ applyProblem' = TRUE

\* Run returns the error and the process exits.
OpenFails ==
  /\ AtTunnel /\ IsValid(cfg.addr)
  /\ "open" \in Faults /\ MustOpen
  /\ Exit
  /\ UNCHANGED <<file, upsets>>

-----------------------------------------------------------------------------
(* syncIfDue and syncServer: register when there is no address yet or the   *)
(* server does not know this machine, then ask for the peers.               *)

SyncDue == cfg.server /\ due

NotDue ==
  /\ pc = "sync" /\ ~SyncDue
  /\ pc' = "save"
  /\ UNCHANGED <<world, inMemory, device, due, hup, history, upsets>>

CanRegister == \/ pc = "sync" /\ SyncDue /\ ~IsValid(cfg.addr)
               \/ pc = "reregister"

CanSync == \/ pc = "sync" /\ SyncDue /\ IsValid(cfg.addr)
           \/ pc \in {"call", "recall"}

\* The error of ParsePrefix is dropped: the prefix is then that of one host.
NoCidr == -1

addressWithPrefix(ip, bits) == PrefixFrom(ip, IF bits = NoCidr THEN BitLen[ip] ELSE bits)

\* The answer: an IP, and the prefix length of a range that need not be of the
\* same family.
Register ==
  /\ CanRegister
  /\ \E ip \in IPs, bits \in CidrBits \cup {NoCidr} :
       cfg' = [cfg EXCEPT !.addr = addressWithPrefix(ip, bits)]
  /\ unsaved' = TRUE
  /\ pc' = IF pc = "sync" THEN "call" ELSE "recall"
  /\ UNCHANGED <<world, book, newKey, lastRead, disk, device, due, hup, history, upsets>>

\* The answer names another IP (NoAddr: none that is valid).  Which one a
\* BadAddr had is not kept: the registration that made it marked it for saving.
Moved(ip) == ip # NoAddr /\ (IsValid(cfg.addr) => ip # cfg.addr.ip)

\* The prefix length in use goes to the new IP, of whatever family.
Readdressed(ip) == IF Moved(ip) THEN PrefixFrom(ip, Bits(cfg.addr)) ELSE cfg.addr

\* Mutant: a new address is not marked for saving.
SyncUnmarked ==
  /\ CanSync
  /\ \E ip \in IPs \cup {NoAddr}, list \in ServerLists :
       /\ cfg' = [cfg EXCEPT !.addr = Readdressed(ip)]
       /\ book' = SetFromServer(book, list)
  /\ due' = FALSE
  /\ pc' = "retunnel"
  /\ UNCHANGED <<world, unsaved, newKey, lastRead, disk, device, hup, history, upsets>>

\* The answer: this machine's IP and the peers, with any key that is 32 bytes.
Sync ==
  /\ CanSync
  /\ \E ip \in IPs \cup {NoAddr}, list \in ServerLists :
       /\ cfg' = [cfg EXCEPT !.addr = Readdressed(ip)]
       /\ unsaved' = (unsaved \/ Moved(ip))
       /\ book' = SetFromServer(book, list)
  /\ due' = FALSE
  /\ pc' = "retunnel"
  /\ UNCHANGED <<world, newKey, lastRead, disk, device, hup, history, upsets>>

\* Mutant: it registers again however often it is unknown.
UnknownMachineAgain ==
  /\ CanSync
  /\ pc' = "reregister"
  /\ UNCHANGED <<world, inMemory, device, due, hup, history, upsets>>

UnknownMachine ==
  /\ CanSync /\ pc # "recall"
  /\ pc' = "reregister"
  /\ UNCHANGED <<world, inMemory, device, due, hup, history, upsets>>

\* The call fails; the next sync waits for the backoff.
ServerFails ==
  /\ CanRegister \/ CanSync
  /\ due' = FALSE
  /\ pc' = "save"
  /\ UNCHANGED <<world, inMemory, device, hup, history, upsets>>

-----------------------------------------------------------------------------
(* saveIfNeeded and saveFile, which ensureKey calls too. *)

NothingToSave ==
  /\ pc = "save" /\ ~unsaved /\ ~NeedsSave(book)
  /\ pc' = "idle"
  /\ UNCHANGED <<world, inMemory, device, due, hup, history, upsets>>

MustSave == pc = "keysave" \/ (pc = "save" /\ (unsaved \/ NeedsSave(book)))

\* Mutant: an edit the last check has not seen is not put in use.
ReadForSaveOnly ==
  /\ MustSave /\ ParseOK(file)
  /\ disk' = file
  /\ pc' = IF pc = "keysave" THEN "keywrite" ELSE "write"
  /\ UNCHANGED <<world, cfg, book, unsaved, newKey, lastRead, device, due, hup, history, upsets>>

\* saveFile reads the file, and uses it if it was edited since the last check.
ReadForSave ==
  /\ MustSave /\ ParseOK(file)
  /\ disk' = file
  /\ IF file = lastRead THEN UNCHANGED <<cfg, book, missed>> ELSE UseEdits(file)
  /\ pc' = IF pc = "keysave" THEN "keywrite" ELSE "write"
  /\ UNCHANGED <<world, unsaved, newKey, lastRead, device, due, hup, edited, upsets>>

\* Mutant: the key in use is always written.
SavedWithKey(d) ==
  IF cfg.server /\ d.server
    THEN [d EXCEPT !.addr  = cfg.addr, !.key = cfg.key,
                   !.peers = MergePeers(d.peers, ServerPeers(book))]
    ELSE [d EXCEPT !.key = cfg.key]

\* What saveFile writes for the config d it has read.
Saved(d) ==
  LET merged == IF cfg.server /\ d.server
                  THEN [d EXCEPT !.addr  = cfg.addr,
                                 !.peers = MergePeers(d.peers, ServerPeers(book))]
                  ELSE d
  IN  [merged EXCEPT !.key = IF newKey THEN cfg.key ELSE @]

\* WriteAtomic's rename: the file is replaced in one step.
WriteFile ==
  /\ pc \in {"keywrite", "write"}
  /\ file' = Saved(disk)
  /\ lastRead' = Saved(disk)
  /\ unsaved' = FALSE /\ newKey' = FALSE
  /\ book' = MarkSaved(book)
  /\ disk' = NoRead
  /\ pc' = IF pc = "keywrite" THEN "check" ELSE "idle"
  /\ UNCHANGED <<cfg, minted, device, due, hup, history, upsets>>


\* A save that fails is tried again on the next pass.
SaveFails ==
  /\ \/ pc = "save" /\ MustSave /\ ~ParseOK(file) /\ UNCHANGED missed
     \/ pc = "write" /\ "write" \in Faults /\ missed' = (missed \/ disk # lastRead)
  /\ disk' = NoRead
  /\ pc' = "idle"
  /\ UNCHANGED <<world, cfg, book, unsaved, newKey, lastRead, device, due, hup, edited, upsets>>

\* Mutant: meshd goes on with a key it could not save.
KeySaveFailsQuietly ==
  /\ \/ pc = "keysave" /\ ~ParseOK(file)
     \/ pc = "keywrite" /\ "write" \in Faults
  /\ disk' = NoRead
  /\ pc' = "check"
  /\ UNCHANGED <<world, cfg, book, unsaved, newKey, lastRead, device, due, hup, history, upsets>>

\* A new key that cannot be saved is not used.
KeySaveFails ==
  /\ \/ pc = "keysave" /\ ~ParseOK(file)
     \/ pc = "keywrite" /\ "write" \in Faults
  /\ Exit
  /\ UNCHANGED <<file, upsets>>

-----------------------------------------------------------------------------
(* The world around meshd. *)

Upset == upsets < MaxUpsets /\ upsets' = upsets + 1

EditedNow == edited' = IF pc = "down" THEN "no" ELSE "during"

\* A user saves a whole file: a new one, or a copy opened earlier.
EditFile ==
  /\ Upset
  /\ \/ \E c \in UserConfigs, k \in minted \cup {NoKey} :
          /\ k = NoKey => minted # IdKeys
          /\ file' = [c EXCEPT !.key = k]
     \/ file' \in {Garbage, Unreadable}
  /\ EditedNow
  /\ UNCHANGED <<minted, pc, inMemory, device, due, hup, missed>>

\* A user changes the source of one peer: pins it, blocks it or releases it.
Retag ==
  /\ Upset
  /\ file \notin {Garbage, Unreadable}
  /\ \E p \in file.peers, s \in Source :
       file' = [file EXCEPT !.peers = (@ \ {p}) \cup {[p EXCEPT !.source = s]}]
  /\ EditedNow
  /\ UNCHANGED <<minted, pc, inMemory, device, due, hup, missed>>

\* meshd -setup (-force when there is a file): new settings and a new key.
Setup ==
  /\ Upset
  /\ \E c \in UserConfigs, k \in IdKeys \ minted :
       /\ Only(c.peers, "static") = c.peers
       /\ c.server => c.addr = NoAddr
       /\ Validate(c)
       /\ minted \cup {k} # IdKeys
       /\ file' = [c EXCEPT !.key = k]
       /\ minted' = minted \cup {k}
  /\ EditedNow
  /\ UNCHANGED <<pc, inMemory, device, due, hup, missed>>

\* The interface or its control socket is deleted by another tool.
TunnelDies ==
  /\ Upset
  /\ tun # NoTunnel /\ ~dead
  /\ dead' = TRUE
  /\ UNCHANGED <<world, pc, inMemory, tun, dev, applyProblem, doubt, due, hup, history>>

\* A request that finds another one waiting is dropped.
Sighup ==
  /\ Upset
  /\ pc # "down" /\ ~hup
  /\ hup' = TRUE
  /\ UNCHANGED <<world, pc, inMemory, device, due, history>>

Stop ==
  /\ Upset
  /\ pc # "down"
  /\ Exit
  /\ UNCHANGED file

\* Only read at "sync", so it does not matter in which step of a pass it passes.
SyncTimePasses ==
  /\ pc = "idle" /\ cfg.server /\ ~due
  /\ due' = TRUE
  /\ UNCHANGED <<world, pc, inMemory, device, hup, history, upsets>>

-----------------------------------------------------------------------------

Run == \/ Start \/ StartFails \/ Boot \/ HasKey \/ GenerateKey
       \/ WakeByTicker \/ WakeBySyncDue \/ WakeBySighup \/ WakeByTunnelStopped
       \/ BeginPass
       \/ NoAddressYet \/ UpdateTunnel \/ ApplyFails \/ OpenFails
       \/ NotDue \/ Register \/ Sync \/ UnknownMachine \/ ServerFails
       \/ NothingToSave \/ ReadForSave \/ WriteFile \/ SaveFails \/ KeySaveFails

World == \/ EditFile \/ Retag \/ Setup
         \/ TunnelDies \/ Sighup \/ Stop \/ SyncTimePasses

Next == Run \/ World

Spec == Init /\ [][Next]_vars

-----------------------------------------------------------------------------
(* Properties *)

Idle == pc = "idle"

\* Nobody has edited the file since this pass looked at it.
Quiet == edited # "during"

\* What the user's part of the file f says of the device, for the listen port
\* unless it is in doubt and the peers that are not.
HonoursBut(f, portInDoubt, keysInDoubt) ==
  /\ tun # NoTunnel
  /\ portInDoubt \/ dev.live = f.live
  /\ \A p \in Only(f.peers, "blocked") :
       p.key \in keysInDoubt \/ p.key \notin KeysOf(dev.peers)
  /\ \A p \in Only(f.peers, "static") :
       p.key \in keysInDoubt \cup {cfg.key} \/ BlockOf(p) \in dev.peers

Honours(f) == HonoursBut(f, doubt.live, doubt.keys)

HonoursInFull(f) == HonoursBut(f, FALSE, {})

\* A key is in the book once, so the server's entry for a key never stands
\* beside the user's (peerbook.go:42 and the reliance on Validate at :82).
SyncedDisjoint == OneEntryPerKey(book)

\* After a pass with no edit in it and no error, with a tunnel that runs.
InStep ==
  Idle /\ Quiet /\ ~applyProblem /\ tun # NoTunnel /\ ~dead /\ ParseOK(file)

\* Then the device is as the user's part of the file says: blocked peers out,
\* static ones in, settings in use; but for what a failed Apply was to change,
\* until it is sent again or the tunnel opened anew, and unless the pass had no
\* valid address.
FileDecides == (InStep /\ ~missed /\ ~doubt.skipped) => Honours(file)

\* With nothing marked for saving, the file remembers the server's peers as
\* the book has them, whatever copies of it the user has saved meanwhile.
MemoryOnDisk ==
  (Idle /\ Quiet /\ ~missed /\ ~unsaved /\ ~NeedsSave(book)
     /\ cfg.server /\ ParseOK(file) /\ file.server)
  => Only(file.peers, "synced") = ServerPeers(book)

\* A machine never acts under a key that is not in its file, unless the user
\* took it out: losing the key would give the machine a new identity.
KeyOnDisk ==
  (pc \in LoopPcs /\ edited = "no")
  => file \notin {Garbage, Unreadable} /\ file.key = cfg.key

\* What came from the server and no file may have.
Unfit == cfg.addr = BadAddr \/ ZeroKey \in KeysOf(ServerPeers(book))

\* With no edit and nothing marked for saving, the file holds the identity,
\* address, settings and peers in use, and a process started from it would have
\* them all, unless the server sent what makes meshd refuse the file.
RestartForgetsNothing ==
  (Idle /\ edited = "no" /\ ~unsaved /\ ~NeedsSave(book))
  => /\ file \notin {Garbage, Unreadable}
     /\ ParseOK(file) \/ (cfg.server /\ Unfit)
     /\ file.key = cfg.key /\ file.addr = cfg.addr /\ file.live = cfg.live
     /\ LoadFromConfig(New, file.peers, file.server) = book

\* A step of meshd that changes the file.
MeshdWrites == upsets' = upsets /\ file' # file

\* meshd writes a file that it would refuse to load just when the server has
\* sent the zero key or an IP that does not fit the prefix length.
OnlyServerSpoils ==
  [][MeshdWrites => (ParseOK(file') <=> ~(cfg.server /\ file'.server /\ Unfit))]_vars

\* Into the file it has read meshd writes its own parts and nothing else.
UsersPart(f) == <<f.server, f.live, Manual(f.peers)>>
WritesOnlyItsParts ==
  [][(MeshdWrites /\ file = disk) =>
       /\ UsersPart(file') = UsersPart(file)
       /\ ~newKey => file'.key = file.key
       /\ ~(cfg.server /\ file.server) =>
            file'.addr = file.addr /\ file'.peers = file.peers]_vars

\* An old copy of the file cannot bring back an old server list: while meshd
\* runs, only an answer of the server adds to the synced peers or changes one.
SyncedGrows == pc \in LoopPcs /\ ~(ServerPeers(book') \subseteq ServerPeers(book))
OldListNotRevived == [][SyncedGrows => pc' = "retunnel"]_vars

-----------------------------------------------------------------------------
(* What the fleet sees of this meshd. *)

Phase ==
  CASE pc = "sync" /\ SyncDue -> IF IsValid(cfg.addr) THEN "sync" ELSE "register"
    [] pc = "call"            -> "sync"
    [] pc = "recall"          -> "resync"
    [] pc \in {"down", "reregister"} -> pc
    [] OTHER                  -> "idle"

ViewInUse == [server |-> cfg.server, addr |-> cfg.addr, peers |-> ServerPeers(book)]

\* What loadPeers takes of a file.
ViewOf(f) ==
  IF ParseOK(f)
    THEN [server |-> f.server, addr |-> f.addr,
          peers  |-> IF f.server THEN Only(f.peers, "synced") ELSE {}]
    ELSE [server |-> FALSE, addr |-> NoAddr, peers |-> {}]

Untouched == edited = "no"

AsMember == INSTANCE Member
  WITH Entry    <- [source : {"synced"}, key : Keys, data : Data],
       BadEntry <- [source : {"synced"}, key : {ZeroKey}, data : Data],
       phase <- Phase, view <- ViewInUse, saved <- ViewOf(file),
       untouched <- Untouched

\* To the fleet, this process of a dozen steps, failures and edits is a Member:
\* its calls come in the order of syncServer (daemon.go:262) with one retry at
\* most, only answers bring it an address or peers, and what it saves is what
\* it uses, or a file it refuses when the answers were bad.
ActsAsMember == AsMember!Spec

-----------------------------------------------------------------------------
(* Fairness: the loop never stops by itself, and what is tried again and   *)
(* again (starting with a good file, opening, configuring, registering,    *)
(* syncing, writing) succeeds again and again.  Go's select picks at       *)
(* random among the ready channels, so one that is ready whenever the loop *)
(* gets there is picked some time.                                         *)

LoopFairness ==
  /\ WF_vars(Run)
  /\ SF_vars(UpdateTunnel) /\ SF_vars(WriteFile)
  /\ SF_vars(Register) /\ SF_vars(Sync)
  /\ SF_vars(WakeBySighup)

FairSpec == Spec /\ LoopFairness /\ SF_vars(SyncTimePasses)

\* As FairSpec, with the next planned sync as far away as one likes.
NoTimeSpec == Spec /\ LoopFairness

\* Whatever was edited, failed or died before, the device comes to be as the
\* user's part of the file says, but for what a failed Apply left in doubt: if
\* the file is good and read in full, and there comes to be a valid address.
SettlesOnFile ==
  []<>(\/ ~ParseOK(file)
       \/ missed
       \/ pc # "down" /\ ~cfg.server /\ cfg.addr = NoAddr
       \/ cfg.addr = BadAddr
       \/ Honours(file) /\ ~dead)


\* A SIGHUP, at whatever moment of a pass it comes, brings a sync attempt.
SighupServed ==
  (hup /\ cfg.server) ~> (pc = "down" \/ (pc = "sync" /\ due))

-----------------------------------------------------------------------------
(* What the documentation says and the code does not do. *)

\* README.md:293: "Your settings and your static and blocked peers stay as
\* you wrote them."
EditsKept == [][MeshdWrites => UsersPart(file') = UsersPart(file)]_vars

\* README.md:289: a blocked peer is "Never in the tunnel, even if the server
\* sends it."
BlockedStaysOut ==
  InStep => \A p \in Only(file.peers, "blocked") : p.key \notin KeysOf(dev.peers)

\* README.md:252: "a running meshd picks up your changes within a few seconds".
EditsTakeEffect == (InStep /\ IsValid(cfg.addr)) => HonoursInFull(file)

\* README.md:75: meshd "remembers the peers in meshd.json, so after a restart
\* the tunnel comes back with them, even while the server is unreachable": a
\* file that nobody has edited is one meshd starts with.
ComesBack ==
  (Idle /\ edited = "no" /\ ~unsaved /\ ~NeedsSave(book)) => ParseOK(file)
=============================================================================
