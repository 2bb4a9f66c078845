--------------------------- MODULE MeshFileProofs ---------------------------
(***************************************************************************)
(* What TLAPS proves of meshd and its file: after a pass the tunnel is as  *)
(* the file says, the file remembers the server's peers, a restart forgets *)
(* nothing, and meshd writes its own parts only.                           *)
(*                                                                         *)
(* The argument follows the content of the file that meshd has in use:     *)
(* the one it read or wrote last, or, in the middle of a save, the one it  *)
(* has read to write back.                                                 *)
(***************************************************************************)
EXTENDS MeshDaemonProofs

(***************************************************************************)
(* The parts of the invariant.                                             *)
(***************************************************************************)

\* What the book holds of the server is marked as the server's.
SyncedTagged == \A p \in book.synced : p.source = "synced"

\* A process that starts has read nothing and has no tunnel; a save does not
\* lose an edit where there was none.
Standing ==
  /\ pc \in {"down", "boot"} => lastRead = NoRead
  /\ pc = "down" => edited = "no" /\ tun = NoTunnel
  /\ edited = "no" => ~missed

ServerAsked ==
  /\ pc \in {"call", "reregister", "recall"} => cfg.server
  /\ ~cfg.server => book.synced = {}

\* Without an edit in this pass, the file is as it was last read or written.
FileSeen == (pc \notin {"down", "boot"} /\ Quiet) => file \in {lastRead, Unreadable}

InUse == IF pc \in {"keywrite", "write"} THEN disk ELSE lastRead

\* The settings d and the book b are what the config c says.
Used(d, b, c) ==
  /\ d.live = c.live
  /\ ~d.server => d.addr = c.addr
  /\ b.static = Only(c.peers, "static")
  /\ b.blocked = Only(c.peers, "blocked")
  /\ (d.server /\ c.server /\ ~b.dirty) => b.synced = Only(c.peers, "synced")

Accepted(c) == c \in Config /\ Validate(c)

\* The content in use is one that meshd takes, or that only meshd has written.
InUseGood == Accepted(InUse) \/ (edited = "no" /\ pc \notin {"down", "boot"})

EditsUsed == (InUseGood /\ ~missed) => Used(cfg, book, InUse)

\* What a server can spoil of a file is its own part.
Sound(c) ==
  /\ c \in Config
  /\ IsMap(c.peers)
  /\ ZeroKey \notin KeysOf(Manual(c.peers))
  /\ c.server \/ Validate(c)

AddressSaved ==
  (pc # "down" /\ edited = "no") =>
    /\ Sound(file)
    /\ pc = "boot" => Accepted(file)
    /\ file.server = cfg.server
    /\ unsaved \/ file.addr = cfg.addr

\* What is configured is what the book and the settings say.
TunnelAsBook ==
  /\ tun.live = cfg.live
  /\ \A p \in book.static : p.key # cfg.key => BlockOf(p) \in tun.peers
  /\ KeysOf(book.blocked) \cap KeysOf(tun.peers) = {}

Updated == {"sync", "call", "reregister", "recall", "save", "write", "idle"}

TunnelInStep ==
  (pc \in Updated /\ Quiet /\ ~applyProblem /\ tun # NoTunnel /\ ~doubt.skipped)
  => TunnelAsBook

\* The device is as t.applied says, but for what is in doubt.
DeviceKnown ==
  tun # NoTunnel =>
    /\ IsMap(tun.peers)
    /\ doubt.live \/ dev.live = tun.live
    /\ \A b \in Block : b.key \in doubt.keys \/ (b \in dev.peers <=> b \in tun.peers)

-----------------------------------------------------------------------------
(* The steps of meshd, by what they do to the file, the book and the tunnel. *)

Edits == EditFile \/ Retag \/ Setup

Quits == Exit /\ UNCHANGED file

\* updateTunnel, however it goes, if the process lives on.
Updates == NoAddressYet \/ UpdateTunnel \/ ApplyFails

\* A step that only moves on in a pass, or does nothing here.
Moves ==
  /\ UNCHANGED <<file, cfg, book, unsaved, lastRead, disk, edited, missed>>
  /\ UNCHANGED <<tun, dev, doubt, applyProblem>>
  /\ \/ pc' = pc
     \/ /\ {pc, pc'} \cap {"down", "boot", "keywrite", "write"} = {}
        /\ pc' \notin {"call", "recall"}
        /\ pc' = "reregister" => (pc = "call" \/ cfg.server)
        /\ pc' \in Updated => pc \in Updated

LEMMA StepKinds ==
  ASSUME [Next]_vars
  PROVE  \/ Start \/ Boot \/ GenerateKey \/ BeginPass \/ Updates
         \/ Register \/ Sync \/ ReadForSave \/ WriteFile \/ SaveFails
         \/ Quits \/ Edits \/ Moves
<1> USE DEF vars, world, inMemory, device, history
<1>1. CASE UNCHANGED vars
  BY <1>1 DEF Moves
<1>2. CASE StartFails
  BY <1>2 DEF StartFails, Moves
<1>3. CASE HasKey
  BY <1>3 DEF HasKey, Moves, Updated
<1>4. CASE WakeByTicker \/ WakeBySyncDue \/ WakeBySighup \/ WakeByTunnelStopped
  BY <1>4 DEF WakeByTicker, WakeBySyncDue, WakeBySighup, WakeByTunnelStopped, Wake,
              Moves, Updated
<1>6. CASE OpenFails \/ KeySaveFails \/ Stop
  BY <1>6 DEF OpenFails, KeySaveFails, Stop, Quits
<1>7. CASE NotDue \/ NothingToSave
  BY <1>7 DEF NotDue, NothingToSave, Moves, Updated
<1>8. CASE UnknownMachine
  BY <1>8 DEF UnknownMachine, CanSync, SyncDue, Moves, Updated
<1>9. CASE ServerFails
  BY <1>9 DEF ServerFails, CanRegister, CanSync, Moves, Updated
<1>10. CASE TunnelDies \/ Sighup \/ SyncTimePasses
  BY <1>10 DEF TunnelDies, Sighup, SyncTimePasses, Moves
<1> QED
  BY <1>1, <1>2, <1>3, <1>4, <1>6, <1>7, <1>8, <1>9, <1>10
     DEF Next, Run, World, Edits, Updates

-----------------------------------------------------------------------------
(* The user's edits in the book, and the book in the file. *)

LEMMA ByKeyOfMap ==
  ASSUME NEW m, IsMap(m)
  PROVE  ByKey(m) = m
<1>1. ByKey(m) \subseteq m
  BY ByKeySubset
<1>2. ASSUME NEW p \in m
      PROVE  p \in ByKey(m)
  <2> DEFINE q == CHOOSE r \in m : r.key = p.key
  <2>1. q \in m /\ q.key = p.key
    OBVIOUS
  <2>2. q = p
    BY <2>1 DEF IsMap
  <2>3. p.key \in KeysOf(m)
    BY DEF KeysOf
  <2> QED
    BY <2>2, <2>3 DEF ByKey
<1> QED
  BY <1>1, <1>2

LEMMA ByKeyOfOnly ==
  ASSUME NEW list, IsMap(list), NEW s
  PROVE  ByKey(Only(list, s)) = Only(list, s)
  BY OnlySubset, SubMap, ByKeyOfMap

\* What checkConfig and saveFile put in use is in use.
LEMMA UseEditsUsed ==
  ASSUME TypeOK, NEW c, Accepted(c), UseEdits(c)
  PROVE  Used(cfg', book', c)
<1>1. c.peers \in SUBSET Peer /\ IsMap(c.peers)
  BY DEF Accepted, Config, Validate
<1>2. /\ cfg'.live = c.live /\ cfg'.server = cfg.server
      /\ ~cfg.server => cfg'.addr = c.addr
  BY DEF UseEdits, TypeOK, Cfg
<1>3. \A s : ByKey(Only(c.peers, s)) = Only(c.peers, s)
  BY <1>1, ByKeyOfOnly
<1>4. /\ book'.static = Only(c.peers, "static")
      /\ book'.blocked = Only(c.peers, "blocked")
  BY <1>3 DEF UseEdits, UpdateManualPeers
<1>5. (cfg.server /\ ~book'.dirty) => book'.synced = Only(c.peers, "synced")
  BY <1>3 DEF UseEdits, UpdateManualPeers
<1> QED
  BY <1>2, <1>4, <1>5 DEF Used

\* mergePeers keeps what is the user's and puts the server's peers in place of
\* those the file had of it.
LEMMA MergeParts ==
  ASSUME NEW onDisk \in SUBSET Peer, NEW fromServer \in SUBSET Peer,
         \A p \in fromServer : p.source = "synced"
  PROVE  LET merged == MergePeers(onDisk, fromServer)
         IN  /\ Manual(merged) = Manual(onDisk)
             /\ Only(merged, "static") = Only(onDisk, "static")
             /\ Only(merged, "blocked") = Only(onDisk, "blocked")
             /\ Only(merged, "synced") = NotManual(fromServer, Manual(onDisk), {})
  BY DEF MergePeers, Manual, Only, NotManual

LEMMA ManualParts ==
  ASSUME NEW list \in SUBSET Peer
  PROVE  Manual(list) = Only(list, "static") \cup Only(list, "blocked")
  BY DEF Manual, Only, Peer, Source

LEMMA SavedFields ==
  ASSUME NEW d \in Config
  PROVE  LET both == cfg.server /\ d.server
         IN  /\ Saved(d).live = d.live /\ Saved(d).server = d.server
             /\ Saved(d).key = IF newKey THEN cfg.key ELSE d.key
             /\ Saved(d).addr = IF both THEN cfg.addr ELSE d.addr
             /\ Saved(d).peers = IF both THEN MergePeers(d.peers, book.synced)
                                         ELSE d.peers
<1>1. CASE cfg.server /\ d.server
  BY <1>1 DEF Saved, Config, ServerPeers
<1>2. CASE ~(cfg.server /\ d.server)
  BY <1>2 DEF Saved, Config
<1> QED
  BY <1>1, <1>2

\* What saveFile writes for a config in use is in use, and saved.
LEMMA SavedUsed ==
  ASSUME TypeOK, SyncedDisjoint, SyncedTagged, NEW d, Accepted(d), Used(cfg, book, d)
  PROVE  Used(cfg, MarkSaved(book), Saved(d))
<1> DEFINE merged == MergePeers(d.peers, book.synced)
<1>1. d \in Config /\ d.peers \in SUBSET Peer /\ book.synced \in SUBSET Peer
  BY DEF Accepted, Config, TypeOK, Book
<1>2. /\ MarkSaved(book).static = book.static
      /\ MarkSaved(book).blocked = book.blocked
      /\ MarkSaved(book).synced = book.synced
  BY DEF MarkSaved, TypeOK, Book
<1>3. /\ Saved(d).live = d.live /\ Saved(d).server = d.server
      /\ ~cfg.server => Saved(d).addr = d.addr
      /\ Saved(d).peers = IF cfg.server /\ d.server THEN merged ELSE d.peers
  BY <1>1, SavedFields
<1>4. /\ Only(merged, "static") = Only(d.peers, "static")
      /\ Only(merged, "blocked") = Only(d.peers, "blocked")
      /\ Only(merged, "synced") = NotManual(book.synced, Manual(d.peers), {})
  BY <1>1, MergeParts DEF SyncedTagged
<1>5. Manual(d.peers) = book.static \cup book.blocked
  BY <1>1, ManualParts DEF Used
<1>6. NotManual(book.synced, Manual(d.peers), {}) = book.synced
  BY <1>5 DEF SyncedDisjoint, OneEntryPerKey, NotManual, KeysOf
<1> HIDE DEF merged
<1> QED
  BY <1>2, <1>3, <1>4, <1>6 DEF Used

-----------------------------------------------------------------------------
(* Each part of the invariant, step by step. *)

FileInv ==
  /\ SyncedTagged /\ Standing /\ ServerAsked /\ FileSeen
  /\ EditsUsed /\ AddressSaved /\ TunnelInStep /\ DeviceKnown

AllInv == IInv /\ KeyInv /\ FileInv

LEMMA Parsed ==
  ASSUME TypeOK, ParseOK(file)
  PROVE  Accepted(file) /\ file \notin {Garbage, Unreadable}
  BY ParsedIsConfig DEF TypeOK, Accepted, ParseOK

\* What checkConfig and the read of a save do to settings and book.
LEMMA CheckChanges ==
  ASSUME TypeOK, checkConfig
  PROVE  \/ /\ UNCHANGED <<cfg, book, missed>>
            /\ lastRead' = lastRead \/ (lastRead' = file /\ ~Accepted(file))
            /\ file \in {lastRead', Unreadable}
         \/ UseEdits(file) /\ Accepted(file) /\ lastRead' = file
<1>1. CASE NothingNew
  BY <1>1, Parsed DEF checkConfig, NothingNew
<1>2. CASE ~NothingNew /\ ~ParseOK(file)
  <2>1. Accepted(file) => FALSE
    BY <1>2, SentinelsDistinct DEF Accepted, ParseOK
  <2> QED
    BY <1>2, <2>1 DEF checkConfig
<1>3. CASE ~NothingNew /\ ParseOK(file)
  BY <1>3, Parsed DEF checkConfig
<1> QED
  BY <1>1, <1>2, <1>3

LEMMA ReadChanges ==
  ASSUME TypeOK, ReadForSave
  PROVE  /\ Accepted(file)
         /\ \/ file = lastRead /\ UNCHANGED <<cfg, book, missed>>
            \/ file # lastRead /\ UseEdits(file)
  BY Parsed DEF ReadForSave

\* An edit in use: whose the server's peers are, and whose the address.
LEMMA UseEditsKeeps ==
  ASSUME TypeOK, NEW c, UseEdits(c)
  PROVE  /\ cfg'.server = cfg.server /\ cfg'.key = cfg.key
         /\ cfg.server => cfg'.addr = cfg.addr
         /\ book'.synced \subseteq book.synced
         /\ ~missed'
  BY UseEditsShrinks DEF UseEdits, TypeOK, Cfg

LEMMA SyncChanges ==
  ASSUME TypeOK, ServerAsked, Sync
  PROVE  /\ cfg.server /\ pc' = "retunnel"
         /\ pc \in {"sync", "call", "recall"}
         /\ cfg'.server = cfg.server /\ cfg'.live = cfg.live /\ cfg'.key = cfg.key
         /\ ~unsaved' => ~unsaved /\ cfg'.addr = cfg.addr
         /\ cfg'.addr \in Addrs \cup {BadAddr, cfg.addr}
         /\ book'.static = book.static /\ book'.blocked = book.blocked
         /\ ~book'.dirty => ~book.dirty /\ book'.synced = book.synced
         /\ \A p \in book'.synced : p.source = "synced"
         /\ UNCHANGED <<file, lastRead, disk, edited, missed>>
         /\ UNCHANGED <<tun, dev, doubt, applyProblem>>
<1> USE DEF world, device, history
<1>1. cfg.server /\ pc \in {"sync", "call", "recall"}
  BY DEF Sync, CanSync, SyncDue, ServerAsked
<1>2. PICK ip \in IPs \cup {NoAddr}, list \in ServerLists :
        /\ cfg' = [cfg EXCEPT !.addr = Readdressed(ip)]
        /\ unsaved' = (unsaved \/ Moved(ip))
        /\ book' = SetFromServer(book, list)
  BY DEF Sync
<1>3. /\ cfg'.server = cfg.server /\ cfg'.live = cfg.live /\ cfg'.key = cfg.key
      /\ cfg'.addr = Readdressed(ip)
  BY <1>2 DEF TypeOK, Cfg
<1>4. ~unsaved' => ~unsaved /\ cfg'.addr = cfg.addr
  BY <1>2, <1>3 DEF Readdressed
<1>7. Readdressed(ip) \in Addrs \cup {BadAddr, cfg.addr}
  BY PrefixFromType DEF Readdressed, Moved
<1>5. /\ book'.static = book.static /\ book'.blocked = book.blocked
      /\ ~book'.dirty => ~book.dirty /\ book'.synced = book.synced
  BY <1>2 DEF SetFromServer, TypeOK, Book
<1>6. \A p \in book'.synced : p.source = "synced"
  <2> DEFINE tagged == {[p EXCEPT !.source = "synced"] :
                           p \in NotManual(list, book.static, book.blocked)}
  <2>1. \A p \in tagged : p.source = "synced"
    BY <1>2, DaemonAssumption DEF NotManual, Peer
  <2>2. book'.synced = ByKey(tagged)
    BY <1>2 DEF SetFromServer, TypeOK, Book
  <2> QED
    BY <2>1, <2>2, ByKeySubset
<1> QED
  BY <1>1, <1>3, <1>4, <1>5, <1>6, <1>7 DEF Sync

LEMMA RegisterChanges ==
  ASSUME TypeOK, ServerAsked, Register
  PROVE  /\ cfg.server /\ pc \in {"sync", "reregister"} /\ pc' \in {"call", "recall"}
         /\ cfg'.server = cfg.server /\ cfg'.live = cfg.live /\ cfg'.key = cfg.key
         /\ cfg'.addr \in Addrs \cup {BadAddr} /\ unsaved'
         /\ UNCHANGED <<file, book, lastRead, disk, edited, missed>>
         /\ UNCHANGED <<tun, dev, doubt, applyProblem>>
<1> USE DEF world, device, history
<1>1. cfg.server /\ pc \in {"sync", "reregister"}
  BY DEF Register, CanRegister, SyncDue, ServerAsked
<1>2. PICK ip \in IPs, bits \in CidrBits \cup {NoCidr} :
        cfg' = [cfg EXCEPT !.addr = addressWithPrefix(ip, bits)]
  BY DEF Register
<1>3. addressWithPrefix(ip, bits) \in Addrs \cup {BadAddr}
  BY PrefixFromType DEF addressWithPrefix
<1>4. /\ cfg'.server = cfg.server /\ cfg'.live = cfg.live /\ cfg'.key = cfg.key
      /\ cfg'.addr \in Addrs \cup {BadAddr}
  BY <1>2, <1>3 DEF TypeOK, Cfg
<1> QED
  BY <1>1, <1>4 DEF Register

LEMMA WriteChanges ==
  ASSUME TypeOK, DiskValid, WriteFile
  PROVE  /\ Accepted(disk) /\ pc \in {"keywrite", "write"} /\ pc' \in {"check", "idle"}
         /\ pc' = "idle" => pc = "write"
         /\ file' = Saved(disk) /\ lastRead' = Saved(disk)
         /\ book' = MarkSaved(book) /\ UNCHANGED <<cfg, edited, missed>>
         /\ UNCHANGED <<tun, dev, doubt, applyProblem>>
         /\ book'.static = book.static /\ book'.blocked = book.blocked
         /\ book'.synced = book.synced
  BY DEF WriteFile, DiskValid, Accepted, history, device, MarkSaved, TypeOK, Book

LEMMA StartChanges ==
  ASSUME TypeOK, Standing, Start
  PROVE  /\ Accepted(file) /\ pc' = "boot"
         /\ cfg'.server = file.server /\ cfg'.addr = file.addr
         /\ \A p \in book'.synced : p.source = "synced"
         /\ ~cfg'.server => book'.synced = {}
         /\ lastRead' = NoRead /\ tun' = NoTunnel
         /\ UNCHANGED <<file, edited, missed, unsaved>>
<1> USE DEF world, device, history
<1>1. Accepted(file)
  BY Parsed DEF Start
<1>2. cfg'.server = file.server /\ cfg'.addr = file.addr
  BY DEF Start
<1>3. book'.synced = IF file.server THEN ByKey(Only(file.peers, "synced")) ELSE {}
  BY DEF Start, LoadFromConfig, New
<1>4. \A p \in book'.synced : p.source = "synced"
  BY <1>3, ByKeySubset DEF Only
<1>5. ~cfg'.server => book'.synced = {}
  BY <1>2, <1>3
<1> QED
  BY <1>1, <1>2, <1>4, <1>5 DEF Start, Standing

LEMMA QuitChanges ==
  ASSUME Quits
  PROVE  /\ pc' = "down" /\ book'.synced = {} /\ ~cfg'.server
         /\ lastRead' = NoRead /\ edited' = "no" /\ ~missed' /\ tun' = NoTunnel
  BY DEF Quits, Exit, New, NilCfg

LEMMA EditChanges ==
  ASSUME Edits
  PROVE  /\ edited' = IF pc = "down" THEN "no" ELSE "during"
         /\ UNCHANGED <<pc, cfg, book, unsaved, newKey, lastRead, disk, missed>>
         /\ UNCHANGED <<tun, dev, doubt, applyProblem>>
  BY DEF Edits, EditFile, Retag, Setup, EditedNow, inMemory, device

LEMMA UpdateChanges ==
  ASSUME Updates
  PROVE  /\ pc \in {"tunnel", "retunnel"} /\ pc' \in {"sync", "save"}
         /\ UNCHANGED <<file, cfg, book, unsaved, newKey, lastRead, disk, edited, missed>>
  BY DEF Updates, NoAddressYet, UpdateTunnel, ApplyFails, Updating, AtTunnel, AfterTunnel,
         world, inMemory, history

LEMMA TaggedStep ==
  ASSUME AllInv, [Next]_vars
  PROVE  SyncedTagged'
<1> USE DEF AllInv, IInv, FileInv, SyncedTagged
<1>1. CASE Start
  BY <1>1, StartChanges
<1>2. CASE Boot \/ BeginPass
  BY <1>2, CheckChanges, UseEditsKeeps DEF Boot, BeginPass
<1>3. CASE Sync
  BY <1>3, SyncChanges
<1>4. CASE ReadForSave
  BY <1>4, ReadChanges, UseEditsKeeps
<1>5. CASE WriteFile
  BY <1>5, WriteChanges
<1>6. CASE Quits
  BY <1>6, QuitChanges
<1>7. CASE GenerateKey \/ Updates \/ Register \/ SaveFails \/ Edits \/ Moves
  BY <1>7, UpdateChanges, RegisterChanges, EditChanges DEF GenerateKey, SaveFails, Moves
<1> QED
  BY <1>1, <1>2, <1>3, <1>4, <1>5, <1>6, <1>7, StepKinds

LEMMA StandingStep ==
  ASSUME AllInv, [Next]_vars
  PROVE  Standing'
<1> USE DEF AllInv, IInv, FileInv, Standing
<1>1. CASE Start
  BY <1>1, StartChanges DEF Start
<1>2. CASE Boot \/ BeginPass
  <2>1. pc' \in {"key", "tunnel"}
    BY <1>2 DEF Boot, BeginPass
  <2>2. edited' = "no" => edited = "no"
    BY <1>2 DEF Boot, BeginPass, checkConfig
  <2> QED
    BY <1>2, <2>1, <2>2, CheckChanges, UseEditsKeeps DEF Boot, BeginPass
<1>3. CASE Sync
  BY <1>3, SyncChanges
<1>4. CASE ReadForSave
  <2>1. edited' = edited /\ pc' \in {"keywrite", "write"}
    BY <1>4 DEF ReadForSave
  <2> QED
    BY <1>4, <2>1, ReadChanges, UseEditsKeeps
<1>5. CASE WriteFile
  BY <1>5, WriteChanges
<1>6. CASE Quits
  BY <1>6, QuitChanges
<1>7. CASE GenerateKey
  BY <1>7 DEF GenerateKey, history
<1>8. CASE Updates
  BY <1>8, UpdateChanges
<1>9. CASE Register
  BY <1>9, RegisterChanges
<1>10. CASE SaveFails
  <2>1. pc = "write" /\ edited = "no" => disk = lastRead
    BY <1>10, SentinelsDistinct DEF KeyInv, FileSeen, Quiet, SaveFails
  <2>2. edited' = edited /\ pc' = "idle"
    BY <1>10 DEF SaveFails
  <2>3. edited = "no" => ~missed'
    BY <1>10, <2>1 DEF SaveFails
  <2> QED
    BY <2>2, <2>3
<1>11. CASE Edits
  BY <1>11, EditChanges
<1>12. CASE Moves
  BY <1>12 DEF Moves
<1> QED
  BY <1>1, <1>2, <1>3, <1>4, <1>5, <1>6, <1>7, <1>8, <1>9, <1>10, <1>11, <1>12, StepKinds

LEMMA AskedStep ==
  ASSUME AllInv, [Next]_vars
  PROVE  ServerAsked'
<1> USE DEF AllInv, IInv, FileInv, ServerAsked
<1>1. CASE Start
  BY <1>1, StartChanges
<1>2. CASE Boot \/ BeginPass
  <2>1. tun' \in {tun, NoTunnel} /\ pc' \in {"key", "tunnel"}
    BY <1>2 DEF Boot, BeginPass, device
  <2> QED
    BY <1>2, <2>1, CheckChanges, UseEditsKeeps
       DEF Boot, BeginPass
<1>3. CASE Sync
  BY <1>3, SyncChanges
<1>4. CASE ReadForSave
  <2>1. tun' = tun /\ pc' \in {"keywrite", "write"}
    BY <1>4 DEF ReadForSave, device
  <2> QED
    BY <1>4, <2>1, ReadChanges, UseEditsKeeps
<1>5. CASE WriteFile
  BY <1>5, WriteChanges
<1>6. CASE Quits
  BY <1>6, QuitChanges
<1>7. CASE GenerateKey
  BY <1>7 DEF GenerateKey, device, TypeOK, Cfg
<1>8. CASE Updates
  BY <1>8, UpdateChanges
<1>9. CASE Register
  BY <1>9, RegisterChanges
<1>10. CASE SaveFails
  BY <1>10 DEF SaveFails, device
<1>11. CASE Edits
  BY <1>11, EditChanges
<1>12. CASE Moves
  BY <1>12 DEF Moves
<1> QED
  BY <1>1, <1>2, <1>3, <1>4, <1>5, <1>6, <1>7, <1>8, <1>9, <1>10, <1>11, <1>12, StepKinds

LEMMA SeenStep ==
  ASSUME AllInv, [Next]_vars
  PROVE  FileSeen'
<1> USE DEF AllInv, IInv, FileInv, FileSeen, Quiet
<1>1. CASE Start
  BY <1>1, StartChanges
<1>2. CASE Boot \/ BeginPass
  BY <1>2, CheckChanges DEF Boot, BeginPass, world
<1>3. CASE Sync
  BY <1>3, SyncChanges
<1>4. CASE ReadForSave
  <2>1. UNCHANGED <<file, lastRead, edited>> /\ pc \in {"keysave", "save"}
    BY <1>4 DEF ReadForSave, MustSave, world
  <2> QED
    BY <2>1
<1>5. CASE WriteFile
  BY <1>5, WriteChanges
<1>6. CASE Quits
  BY <1>6, QuitChanges
<1>7. CASE GenerateKey
  BY <1>7 DEF GenerateKey, history
<1>8. CASE Updates
  BY <1>8, UpdateChanges
<1>9. CASE Register
  BY <1>9, RegisterChanges
<1>10. CASE SaveFails
  BY <1>10 DEF SaveFails, world
<1>11. CASE Edits
  BY <1>11, EditChanges
<1>12. CASE Moves
  BY <1>12 DEF Moves
<1> QED
  BY <1>1, <1>2, <1>3, <1>4, <1>5, <1>6, <1>7, <1>8, <1>9, <1>10, <1>11, <1>12, StepKinds

\* A step that leaves the content in use, the settings and the user's part of
\* the book, and makes the server's part match no more than it did.
LEMMA UsedKept ==
  ASSUME EditsUsed, InUse' = InUse, missed' = missed, InUseGood' => InUseGood,
         cfg'.live = cfg.live, cfg'.server = cfg.server,
         ~cfg.server => cfg'.addr = cfg.addr,
         book'.static = book.static, book'.blocked = book.blocked,
         ~book'.dirty => (~book.dirty /\ book'.synced = book.synced)
  PROVE  EditsUsed'
  BY DEF EditsUsed, Used

LEMMA UsedStep ==
  ASSUME AllInv, [Next]_vars
  PROVE  EditsUsed'
<1> USE DEF AllInv, IInv, FileInv
<1>0. ~Accepted(NoRead)
  BY DaemonAssumption DEF Accepted, FileContent
<1>1. CASE Start
  <2>1. InUse' = NoRead /\ pc' = "boot"
    BY <1>1, StartChanges DEF InUse
  <2> QED
    BY <1>0, <2>1 DEF EditsUsed, InUseGood, Accepted, Validate
<1>2. CASE Boot \/ BeginPass
  <2>1. /\ InUse = lastRead /\ InUse' = lastRead' /\ file' = file /\ checkConfig
        /\ pc \notin {"down", "keywrite", "write"}
    BY <1>2 DEF Boot, BeginPass, InUse, world
  <2>2. CASE UseEdits(file) /\ Accepted(file) /\ lastRead' = file
    BY <2>1, <2>2, UseEditsUsed DEF EditsUsed
  <2>3. CASE UNCHANGED <<cfg, book, missed, lastRead>> /\ file \in {lastRead', Unreadable}
    <3>1. InUseGood' => InUseGood
      <4>1. edited' = "no" => edited = "no"
        BY <2>1 DEF checkConfig
      <4>2. pc # "boot" \/ edited # "no"
        BY <2>1, <2>3, SentinelsDistinct, DaemonAssumption
           DEF KeyInv, Standing, FileContent
      <4> QED
        BY <2>1, <2>3, <4>1, <4>2 DEF InUseGood, Accepted, Validate
    <3> QED
      BY <2>1, <2>3, <3>1, UsedKept
  <2>4. CASE lastRead' = file /\ ~Accepted(file) /\ UNCHANGED <<cfg, book, missed>>
    <3>1. CASE edited = "no"
      <4>1. pc # "boot"
        BY <2>4, <3>1 DEF AddressSaved
      <4>2. file = lastRead
        BY <2>1, <3>1, <4>1, SentinelsDistinct DEF KeyInv, FileSeen, Quiet
      <4>3. InUseGood
        BY <2>1, <3>1, <4>1 DEF InUseGood
      <4> QED
        BY <2>1, <2>4, <4>2, <4>3, UsedKept
    <3>2. CASE edited # "no"
      <4>1. edited' # "no"
        BY <2>1, <3>2 DEF checkConfig
      <4> QED
        BY <2>1, <2>4, <4>1 DEF EditsUsed, InUseGood, Accepted, Validate
    <3> QED
      BY <3>1, <3>2
  <2> QED
    BY <2>1, <2>2, <2>3, <2>4, CheckChanges
<1>3. CASE Sync
  <2>1. InUse' = InUse /\ (InUseGood' => InUseGood)
    BY <1>3, SyncChanges DEF InUse, InUseGood, Accepted, Validate
  <2> QED
    BY <1>3, <2>1, SyncChanges, UsedKept
<1>4. CASE ReadForSave
  <2>1. InUse = lastRead /\ InUse' = file /\ file' = file
    BY <1>4 DEF ReadForSave, MustSave, InUse, world
  <2>2. CASE file = lastRead /\ UNCHANGED <<cfg, book, missed>>
    <3>1. InUseGood
      BY <1>4, <2>1, <2>2, ReadChanges DEF InUseGood
    <3> QED
      BY <2>1, <2>2, <3>1, UsedKept
  <2>3. CASE UseEdits(file) /\ Accepted(file)
    BY <2>1, <2>3, UseEditsUsed DEF EditsUsed
  <2> QED
    BY <1>4, <2>2, <2>3, ReadChanges
<1>5. CASE WriteFile
  <2>1. InUse = disk /\ InUse' = Saved(disk) /\ Accepted(disk)
    BY <1>5, WriteChanges DEF InUse
  <2>2. ~missed => Used(cfg, MarkSaved(book), Saved(disk))
    BY <2>1, SavedUsed DEF EditsUsed, InUseGood
  <2> QED
    BY <1>5, <2>1, <2>2, WriteChanges DEF EditsUsed
<1>6. CASE Quits
  <2>1. InUse' = NoRead /\ pc' = "down"
    BY <1>6, QuitChanges DEF InUse
  <2> QED
    BY <1>0, <2>1 DEF EditsUsed, InUseGood, Accepted, Validate
<1>7. CASE GenerateKey
  <2>1. InUse' = InUse /\ (InUseGood' => InUseGood)
    BY <1>7 DEF GenerateKey, history, InUse, InUseGood, Accepted, Validate
  <2> QED
    BY <1>7, <2>1, UsedKept DEF GenerateKey, history, TypeOK, Cfg
<1>8. CASE Updates
  <2>1. InUse' = InUse /\ (InUseGood' => InUseGood)
    BY <1>8, UpdateChanges DEF InUse, InUseGood, Accepted, Validate
  <2> QED
    BY <1>8, <2>1, UpdateChanges, UsedKept
<1>9. CASE Register
  <2>1. InUse' = InUse /\ (InUseGood' => InUseGood)
    BY <1>9, RegisterChanges DEF InUse, InUseGood, Accepted, Validate
  <2> QED
    BY <1>9, <2>1, RegisterChanges, UsedKept
<1>10. CASE SaveFails
  <2>1. InUse' = lastRead /\ UNCHANGED <<cfg, book, edited>> /\ pc \in {"save", "write"}
    BY <1>10 DEF SaveFails, InUse
  <2>2. CASE missed'
    BY <2>2 DEF EditsUsed
  <2>3. CASE ~missed'
    <3>1. InUse = lastRead /\ missed' = missed
      BY <1>10, <2>3 DEF SaveFails, MustSave, InUse, TypeOK
    <3>2. InUseGood' => InUseGood
      BY <2>1, <3>1 DEF InUseGood, Accepted, Validate
    <3> QED
      BY <2>1, <3>1, <3>2, UsedKept
  <2> QED
    BY <2>2, <2>3
<1>11. CASE Edits
  <2>1. InUse' = InUse
    BY <1>11, EditChanges DEF InUse
  <2>2. InUseGood' => InUseGood
    BY <1>11, <2>1, EditChanges DEF InUseGood, Accepted, Validate
  <2> QED
    BY <1>11, <2>1, <2>2, EditChanges, UsedKept
<1>12. CASE Moves
  <2>1. InUse' = InUse /\ (InUseGood' => InUseGood)
    BY <1>12 DEF InUse, Moves, InUseGood, Accepted, Validate
  <2> QED
    BY <1>12, <2>1, UsedKept DEF Moves
<1> QED
  BY <1>1, <1>2, <1>3, <1>4, <1>5, <1>6, <1>7, <1>8, <1>9, <1>10, <1>11, <1>12, StepKinds

LEMMA AcceptedSound ==
  ASSUME NEW c, Accepted(c)
  PROVE  Sound(c)
  BY DEF Accepted, Sound, Validate, Manual, KeysOf

LEMMA SavedSound ==
  ASSUME IInv, SyncedTagged, NEW d, Accepted(d)
  PROVE  Sound(Saved(d))
<1> DEFINE merged == MergePeers(d.peers, book.synced)
<1>1. d \in Config /\ d.peers \in SUBSET Peer /\ book.synced \in SUBSET Peer
  BY DEF Accepted, Config, IInv, TypeOK, Book
<1>2. Saved(d) \in Config
  BY <1>1, SavedType DEF IInv
<1>3. /\ Saved(d).server = d.server
      /\ Saved(d).addr = IF cfg.server /\ d.server THEN cfg.addr ELSE d.addr
      /\ Saved(d).peers = IF cfg.server /\ d.server THEN merged ELSE d.peers
  BY <1>1, SavedFields
<1>4. IsMap(merged)
  BY MergeIsMap DEF IInv, SyncedDisjoint, OneEntryPerKey, Accepted, Validate
<1>5. Manual(merged) = Manual(d.peers)
  BY <1>1, MergeParts DEF SyncedTagged
<1>6. IsMap(d.peers) /\ ZeroKey \notin KeysOf(Manual(d.peers))
  BY AcceptedSound DEF Sound
<1>7. Saved(d).server \/ Validate(Saved(d))
  BY <1>3 DEF Accepted, Validate
<1> HIDE DEF merged
<1> QED
  BY <1>2, <1>3, <1>4, <1>5, <1>6, <1>7 DEF Sound

LEMMA AddressStep ==
  ASSUME AllInv, [Next]_vars
  PROVE  AddressSaved'
<1> USE DEF AllInv, IInv, FileInv
<1> SUFFICES ASSUME pc' # "down", edited' = "no"
             PROVE  /\ Sound(file')
                    /\ pc' = "boot" => Accepted(file')
                    /\ file'.server = cfg'.server
                    /\ unsaved' \/ file'.addr = cfg'.addr
  BY DEF AddressSaved, Sound, Accepted, Validate
<1>1. CASE Start
  BY <1>1, StartChanges, AcceptedSound
<1>2. CASE Boot \/ BeginPass
  <2>1. /\ edited = "no" /\ pc # "down" /\ file' = file /\ unsaved' = unsaved /\ checkConfig
        /\ pc' # "boot"
    BY <1>2 DEF Boot, BeginPass, checkConfig, world
  <2>2. CASE UNCHANGED cfg
    BY <2>1, <2>2 DEF AddressSaved
  <2>3. CASE UseEdits(file) /\ Accepted(file)
    BY <2>1, <2>3, UseEditsUsed, UseEditsKeeps DEF AddressSaved, Used
  <2> QED
    BY <2>1, <2>2, <2>3, CheckChanges
<1>3. CASE Sync
  BY <1>3, SyncChanges DEF AddressSaved
<1>4. CASE ReadForSave
  <2>1. /\ edited = "no" /\ pc # "down" /\ file' = file /\ unsaved' = unsaved
        /\ pc' # "boot"
    BY <1>4 DEF ReadForSave, MustSave, world
  <2>2. CASE UNCHANGED cfg
    BY <2>1, <2>2 DEF AddressSaved
  <2>3. CASE UseEdits(file) /\ Accepted(file)
    BY <2>1, <2>3, UseEditsUsed, UseEditsKeeps DEF AddressSaved, Used
  <2> QED
    BY <1>4, <2>1, <2>2, <2>3, ReadChanges
<1>5. CASE WriteFile
  <2>1. /\ Accepted(disk) /\ pc \in {"keywrite", "write"} /\ edited = "no"
        /\ file' = Saved(disk) /\ cfg' = cfg /\ pc' # "boot"
    BY <1>5, WriteChanges
  <2>2. disk = file /\ file.server = cfg.server /\ ~missed
    BY <2>1 DEF KeyInv, AddressSaved, Standing
  <2>3. Sound(file')
    BY <2>1, SavedSound
  <2>4. /\ file'.server = disk.server
        /\ file'.addr = IF cfg.server /\ disk.server THEN cfg.addr ELSE disk.addr
    BY <2>1, SavedFields DEF Accepted
  <2>5. ~cfg.server => cfg.addr = disk.addr
    BY <2>1, <2>2 DEF EditsUsed, InUseGood, InUse, Used
  <2>6. cfg.server \in BOOLEAN
    BY DEF TypeOK, Cfg
  <2> QED
    BY <2>1, <2>2, <2>3, <2>4, <2>5, <2>6
<1>6. CASE Quits
  BY <1>6, QuitChanges
<1>7. CASE GenerateKey
  BY <1>7 DEF GenerateKey, AddressSaved, history, TypeOK, Cfg
<1>8. CASE Updates
  BY <1>8, UpdateChanges DEF AddressSaved
<1>9. CASE Register
  BY <1>9, RegisterChanges DEF AddressSaved
<1>10. CASE SaveFails
  BY <1>10 DEF SaveFails, AddressSaved, world
<1>11. CASE Edits
  BY <1>11, EditChanges
<1>12. CASE Moves
  BY <1>12 DEF Moves, AddressSaved
<1> QED
  BY <1>1, <1>2, <1>3, <1>4, <1>5, <1>6, <1>7, <1>8, <1>9, <1>10, <1>11, <1>12, StepKinds

-----------------------------------------------------------------------------
(* The tunnel and its device. *)

\* A step that leaves the tunnel, the settings and the user's part of the book.
LEMMA TunnelKept ==
  ASSUME TunnelInStep, pc \in Updated,
         UNCHANGED <<tun, doubt, applyProblem, edited>>,
         cfg'.live = cfg.live, cfg'.key = cfg.key,
         book'.static = book.static, book'.blocked = book.blocked
  PROVE  TunnelInStep'
  BY DEF TunnelInStep, TunnelAsBook, Quiet

LEMMA WantAsBook ==
  ASSUME SyncedDisjoint, tun' = Want, UNCHANGED <<cfg, book>>
  PROVE  TunnelAsBook'
<1>1. /\ tun'.live = cfg.live
      /\ tun'.peers = {BlockOf(p) : p \in {q \in Peers(book) : q.key # cfg.key}}
  BY DEF Want
<1>2. \A p \in book.static : p.key # cfg.key => BlockOf(p) \in tun'.peers
  BY <1>1 DEF Peers
<1>3. KeysOf(book.blocked) \cap KeysOf(tun'.peers) = {}
  <2>1. KeysOf(tun'.peers) \subseteq KeysOf(Peers(book))
    BY <1>1 DEF KeysOf, BlockOf
  <2>2. KeysOf(book.blocked) \cap KeysOf(Peers(book)) = {}
    BY DEF Peers, KeysOf, SyncedDisjoint, OneEntryPerKey
  <2> QED
    BY <2>1, <2>2
<1> QED
  BY <1>1, <1>2, <1>3 DEF TunnelAsBook

LEMMA TunnelStep ==
  ASSUME AllInv, [Next]_vars
  PROVE  TunnelInStep'
<1> USE DEF AllInv, IInv, FileInv
<1> SUFFICES ASSUME pc' \in Updated, Quiet', tun' # NoTunnel
             PROVE  TunnelInStep'
  BY DEF TunnelInStep
<1>1. CASE Start \/ Boot \/ BeginPass \/ GenerateKey \/ Quits \/ Sync
  BY <1>1, StartChanges, QuitChanges, SyncChanges
     DEF Boot, BeginPass, GenerateKey, Updated
<1>2. CASE UpdateTunnel
  BY <1>2, WantAsBook DEF UpdateTunnel, Updating, inMemory, TunnelInStep
<1>3. CASE ApplyFails
  BY <1>3 DEF ApplyFails, TunnelInStep
<1>4. CASE NoAddressYet
  BY <1>4 DEF NoAddressYet, TunnelInStep, TypeOK
<1>5. CASE Register
  <2>1. UNCHANGED <<tun, doubt, applyProblem, edited, book>> /\ pc \in Updated
    BY <1>5, RegisterChanges DEF Updated
  <2> QED
    BY <1>5, <2>1, RegisterChanges, TunnelKept
<1>6. CASE ReadForSave
  <2>1. /\ pc = "save" /\ UNCHANGED <<tun, doubt, applyProblem, edited>>
        /\ file \notin {Garbage, Unreadable}
    BY <1>6, Parsed DEF ReadForSave, MustSave, Updated, device
  <2>2. UNCHANGED <<cfg, book>>
    BY <1>6, <2>1, ReadChanges DEF FileSeen, Quiet
  <2> QED
    BY <2>1, <2>2, TunnelKept DEF Updated
<1>7. CASE WriteFile
  BY <1>7, WriteChanges, TunnelKept DEF Updated
<1>8. CASE SaveFails
  BY <1>8, TunnelKept DEF SaveFails, Updated, device
<1>9. CASE Edits
  BY <1>9, EditChanges DEF Quiet, Updated
<1>10. CASE Moves
  BY <1>10, TunnelKept DEF Moves
<1> QED
  BY <1>1, <1>2, <1>3, <1>4, <1>5, <1>6, <1>7, <1>8, <1>9, <1>10, StepKinds DEF Updates

\* A key is wanted once, because the book has it once.
LEMMA WantIsMap ==
  ASSUME TypeOK, SyncedDisjoint
  PROVE  IsMap(Want.peers)
<1> SUFFICES ASSUME NEW p \in Peers(book), NEW q \in Peers(book), p.key = q.key
             PROVE  p = q
  BY DEF Want, IsMap, BlockOf
<1> QED
  BY DEF Peers, SyncedDisjoint, OneEntryPerKey, IsMap, KeysOf

\* What the tunnel to work on and its device have in common.
LEMMA OpenedKnown ==
  ASSUME DeviceKnown
  PROVE  /\ IsMap(Opened.peers)
         /\ OpenedDoubt.live \/ OpenedDev.live = Opened.live
         /\ \A b \in Block : \/ b.key \in OpenedDoubt.keys
                             \/ (b \in OpenedDev.peers <=> b \in Opened.peers)
<1>1. CASE MustOpen
  BY <1>1 DEF Opened, OpenedDev, OpenedDoubt, Fresh, IsMap
<1>2. CASE ~MustOpen
  <2>1. tun # NoTunnel /\ Opened = tun /\ OpenedDev = dev
    BY <1>2 DEF MustOpen, Opened, OpenedDev
  <2>2. OpenedDoubt.live = doubt.live /\ OpenedDoubt.keys = doubt.keys
    BY <1>2 DEF OpenedDoubt
  <2> QED
    BY <2>1, <2>2 DEF DeviceKnown
<1> QED
  BY <1>1, <1>2

\* An Apply that is done leaves what is wanted, but for what was in doubt and
\* was not sent.
LEMMA DoneKnown ==
  ASSUME TypeOK, SyncedDisjoint, DeviceKnown, NEW b \in Block,
         b.key \notin OpenedDoubt.keys \ Sent
  PROVE  b \in Done.peers <=> b \in Want.peers
<1> DEFINE want == Want.peers
           had  == Opened.peers
<1>1. Done.peers = {c \in OpenedDev.peers : c.key \notin Sent} \cup (want \ had)
  BY DEF Done, Kept, ToSet
<1>2. IsMap(want) /\ IsMap(had)
  BY WantIsMap, OpenedKnown
<1>3. Sent = KeysOf(want \ had) \cup (KeysOf(had) \ KeysOf(want))
  BY DEF Sent, ToSet, ToRemove
<1>4. CASE b.key \in Sent
  <2>1. b \in Done.peers <=> b \in want \ had
    BY <1>1, <1>4
  <2>2. b \in want => b \notin had
    <3> SUFFICES ASSUME b \in want, b \in had PROVE FALSE
      OBVIOUS
    <3>1. b.key \in KeysOf(want \ had)
      BY <1>3, <1>4 DEF KeysOf
    <3>2. PICK c \in want \ had : c.key = b.key
      BY <3>1 DEF KeysOf
    <3> QED
      BY <1>2, <3>2 DEF IsMap
  <2> QED
    BY <2>1, <2>2
<1>5. CASE b.key \notin Sent
  <2>1. b \notin want \ had
    BY <1>3, <1>5 DEF KeysOf
  <2>2. b \in Done.peers <=> b \in had
    BY <1>1, <1>5, <2>1, OpenedKnown
  <2>3. b \in had => b \in want
    <3> SUFFICES ASSUME b \in had PROVE b \in want
      OBVIOUS
    <3>1. b.key \in KeysOf(want)
      BY <1>3, <1>5 DEF KeysOf
    <3>2. PICK c \in want : c.key = b.key
      BY <3>1 DEF KeysOf
    <3>3. c \in had
      BY <1>3, <1>5, <3>2 DEF KeysOf
    <3> QED
      BY <1>2, <3>2, <3>3 DEF IsMap
  <2> QED
    BY <2>1, <2>2, <2>3
<1> QED
  BY <1>4, <1>5

LEMMA UpdateKnown ==
  ASSUME TypeOK, SyncedDisjoint, DeviceKnown, UpdateTunnel
  PROVE  DeviceKnown'
<1>1. tun' = Want /\ dev' = Done
  BY DEF UpdateTunnel
<1>2. doubt'.live = (OpenedDoubt.live /\ ~NewPort) /\ doubt'.keys = OpenedDoubt.keys \ Sent
  BY OpenedDoubtType DEF UpdateTunnel, DoubtType
<1>3. doubt'.live \/ Done.live = Want.live
  <2>1. Done.live = IF NewPort THEN Want.live ELSE OpenedDev.live
    BY DEF Done, Kept
  <2>2. CASE NewPort
    BY <2>1, <2>2
  <2>3. CASE ~NewPort
    BY <1>2, <2>1, <2>3, OpenedKnown DEF NewPort
  <2> QED
    BY <2>2, <2>3
<1>4. \A b \in Block : b.key \in doubt'.keys \/ (b \in Done.peers <=> b \in Want.peers)
  BY <1>2, DoneKnown
<1> QED
  BY <1>1, <1>3, <1>4, WantIsMap DEF DeviceKnown, IsMap

LEMMA FailureKnown ==
  ASSUME TypeOK, DeviceKnown, ApplyFails
  PROVE  DeviceKnown'
<1>1. tun' = Opened /\ IsMap(Opened.peers)
  BY OpenedKnown DEF ApplyFails
<1>2. CASE PortFails
  <2>1. doubt'.live /\ doubt'.keys = OpenedDoubt.keys
    BY <1>2, OpenedDoubtType DEF PortFails, DoubtType
  <2>2. dev'.peers = OpenedDev.peers
    BY <1>2, OpenedDevType DEF PortFails, Device
  <2> QED
    BY <1>1, <2>1, <2>2, OpenedKnown DEF DeviceKnown, IsMap
<1>3. CASE PeerFails
  <2>1. PICK reached \in SUBSET KeysOf(ToSet) :
          dev' = [Kept EXCEPT !.peers = @ \cup
                    [key  : reached \cup (KeysOf(OpenedDev.peers) \cap Sent),
                     data : {Unset}]]
    BY <1>3 DEF PeerFails
  <2>2. /\ doubt'.live = (OpenedDoubt.live \/ NewPort)
        /\ doubt'.keys = OpenedDoubt.keys \cup Sent
    BY <1>3, OpenedDoubtType DEF PeerFails, DoubtType
  <2>3. /\ dev'.live = IF NewPort THEN Want.live ELSE OpenedDev.live
        /\ dev'.peers = {c \in OpenedDev.peers : c.key \notin Sent} \cup
             [key  : reached \cup (KeysOf(OpenedDev.peers) \cap Sent), data : {Unset}]
    BY <2>1 DEF Kept
  <2>4. reached \cup (KeysOf(OpenedDev.peers) \cap Sent) \subseteq Sent
    BY DEF Sent
  <2>5. ASSUME NEW b \in Block, b.key \notin doubt'.keys
        PROVE  b \in dev'.peers <=> b \in Opened.peers
    BY <2>2, <2>3, <2>4, <2>5, OpenedKnown
  <2>6. doubt'.live \/ dev'.live = Opened.live
    BY <2>2, <2>3, OpenedKnown
  <2> QED
    BY <1>1, <2>5, <2>6 DEF DeviceKnown, IsMap
<1> QED
  BY <1>2, <1>3 DEF ApplyFails

LEMMA DeviceStep ==
  ASSUME AllInv, [Next]_vars
  PROVE  DeviceKnown'
<1> USE DEF AllInv, IInv, FileInv
<1>1. CASE UNCHANGED <<tun, dev>> /\ doubt'.live = doubt.live /\ doubt'.keys = doubt.keys
  BY <1>1 DEF DeviceKnown, IsMap
<1>2. CASE UpdateTunnel
  BY <1>2, UpdateKnown
<1>3. CASE ApplyFails
  BY <1>3, FailureKnown
<1>4. CASE NoAddressYet
  BY <1>1, <1>4 DEF NoAddressYet, TypeOK
<1>5. CASE Start \/ Quits
  BY <1>5, StartChanges, QuitChanges DEF DeviceKnown
<1>6. CASE BeginPass
  BY <1>1, <1>6 DEF BeginPass, DeviceKnown
<1>7. CASE Boot \/ GenerateKey \/ ReadForSave \/ SaveFails
  BY <1>1, <1>7 DEF Boot, GenerateKey, ReadForSave, SaveFails, device
<1>8. CASE Register \/ Sync \/ WriteFile \/ Edits \/ Moves
  BY <1>1, <1>8, RegisterChanges, SyncChanges, WriteChanges, EditChanges DEF Moves
<1> QED
  BY <1>2, <1>3, <1>4, <1>5, <1>6, <1>7, <1>8, StepKinds DEF Updates

-----------------------------------------------------------------------------
(* The theorems. *)

LEMMA FileInvInit == Init => FileInv
<1> SUFFICES ASSUME Init PROVE FileInv
  OBVIOUS
<1>1. ~Accepted(InUse)
  BY DaemonAssumption DEF Init, InUse, Accepted, FileContent
<1> QED
  BY <1>1 DEF Init, FileInv, SyncedTagged, Standing, ServerAsked, FileSeen, EditsUsed,
              InUseGood, AddressSaved, TunnelInStep, DeviceKnown, Updated, New, NilCfg

LEMMA FileInvStep == AllInv /\ [Next]_vars => FileInv'
  BY TaggedStep, StandingStep, AskedStep, SeenStep, UsedStep, AddressStep, TunnelStep,
     DeviceStep
     DEF FileInv

LEMMA AllInvariant == Spec => []AllInv
<1>1. Init => KeyInv
  BY DEF Init, KeyInv
<1> QED
  BY <1>1, IInvInit, IInvStep, KeyInvStep, FileInvInit, FileInvStep, PTL DEF Spec, AllInv

\* Between two passes, without an edit since, the content in use is the file.
LEMMA InUseIsFile ==
  ASSUME AllInv, Idle, Quiet, file \notin {Garbage, Unreadable}
  PROVE  InUse = file
  BY DEF AllInv, IInv, FileInv, FileSeen, Idle, InUse

\* With no edit under way, the device between two passes has the settings and
\* the static peers of the file, and none that the file blocks (updateTunnel,
\* daemon.go:112), however edits, syncs, outside shutdowns and failures came
\* before: but for what was to be changed by an Apply that failed half way and
\* has not been sent since (runtime.go:35), and unless the address in use is not
\* valid, so that the tunnel is left as it was (daemon.go:132).
THEOREM FileIsFollowed == Spec => []FileDecides
<1>1. AllInv => FileDecides
  <2> SUFFICES ASSUME AllInv, InStep, ~missed, ~doubt.skipped
               PROVE  Honours(file)
    BY DEF FileDecides
  <2>1. Used(cfg, book, file)
    <3>1. Accepted(file) /\ file \notin {Garbage, Unreadable}
      BY Parsed DEF InStep, AllInv, IInv
    <3> QED
      BY <3>1, InUseIsFile DEF InStep, AllInv, FileInv, EditsUsed, InUseGood
  <2>2. TunnelAsBook /\ tun # NoTunnel
    BY DEF InStep, Idle, AllInv, FileInv, TunnelInStep, Updated
  <2>3. /\ doubt.live \/ dev.live = tun.live
        /\ \A b \in Block : b.key \in doubt.keys \/ (b \in dev.peers <=> b \in tun.peers)
        /\ dev.peers \in SUBSET Block
    BY <2>2 DEF AllInv, FileInv, DeviceKnown, IInv, TypeOK, Device
  <2>4. doubt.live \/ dev.live = file.live
    BY <2>1, <2>2, <2>3 DEF Used, TunnelAsBook
  <2>5. ASSUME NEW p \in Only(file.peers, "static"), p.key \notin doubt.keys, p.key # cfg.key
        PROVE  BlockOf(p) \in dev.peers
    <3>1. p \in book.static /\ p \in Peer
      BY <2>1, <2>5 DEF Used, AllInv, IInv, TypeOK, Book
    <3>2. BlockOf(p) \in Block /\ BlockOf(p).key = p.key
      BY <3>1, BlockOfType DEF BlockOf
    <3>3. BlockOf(p) \in tun.peers
      BY <2>2, <2>5, <3>1 DEF TunnelAsBook
    <3> QED
      BY <2>3, <2>5, <3>2, <3>3
  <2>6. ASSUME NEW p \in Only(file.peers, "blocked"), p.key \notin doubt.keys
        PROVE  p.key \notin KeysOf(dev.peers)
    <3>1. p.key \notin KeysOf(tun.peers)
      BY <2>1, <2>2 DEF Used, TunnelAsBook, KeysOf
    <3> QED
      BY <2>3, <2>6, <3>1 DEF KeysOf
  <2> QED
    BY <2>2, <2>4, <2>5, <2>6 DEF Honours, HonoursBut
<1> QED
  BY <1>1, AllInvariant, PTL

\* With nothing marked for saving, the file has the server's peers that the
\* book has, whatever the user saved over them (saveIfNeeded, daemon.go:429).
THEOREM FileRemembers == Spec => []MemoryOnDisk
<1>1. AllInv => MemoryOnDisk
  <2> SUFFICES ASSUME AllInv, Idle, Quiet, ~missed, ~NeedsSave(book),
                      cfg.server, ParseOK(file), file.server
               PROVE  Only(file.peers, "synced") = ServerPeers(book)
    BY DEF MemoryOnDisk
  <2>1. Accepted(file) /\ InUse = file
    BY Parsed, InUseIsFile DEF AllInv, IInv
  <2> QED
    BY <2>1 DEF AllInv, FileInv, EditsUsed, InUseGood, Used, NeedsSave, ServerPeers
<1> QED
  BY <1>1, AllInvariant, PTL

\* A process started from the file would be the one that runs, with its key,
\* address, settings and peers (loadPeers, daemon.go:107), unless it refuses the
\* file; and then the server had sent the key of zeros or a bad address.
THEOREM NothingIsForgotten == Spec => []RestartForgetsNothing
<1>1. AllInv => RestartForgetsNothing
  <2> SUFFICES ASSUME AllInv, Idle, edited = "no", ~unsaved, ~NeedsSave(book)
               PROVE  /\ file \notin {Garbage, Unreadable}
                      /\ ParseOK(file) \/ (cfg.server /\ Unfit)
                      /\ file.key = cfg.key /\ file.addr = cfg.addr
                      /\ file.live = cfg.live
                      /\ LoadFromConfig(New, file.peers, file.server) = book
    BY DEF RestartForgetsNothing
  <2>1. file.key = cfg.key /\ file \notin {Garbage, Unreadable}
    BY SentinelsDistinct DEF AllInv, KeyInv, Idle
  <2>2. Sound(file) /\ file.server = cfg.server /\ file.addr = cfg.addr
    BY DEF AllInv, FileInv, AddressSaved, Idle
  <2>3. Used(cfg, book, file)
    <3>1. InUse = file
      BY <2>1, InUseIsFile DEF Quiet
    <3> QED
      BY <3>1 DEF AllInv, FileInv, EditsUsed, InUseGood, Standing, Idle
  <2>4. book \in Book /\ ~book.dirty /\ cfg.server \in BOOLEAN
    BY DEF AllInv, IInv, TypeOK, Cfg, NeedsSave
  <2>5. \A s : ByKey(Only(file.peers, s)) = Only(file.peers, s)
    BY <2>2, ByKeyOfOnly DEF Sound
  <2>6. book.synced = IF cfg.server THEN Only(file.peers, "synced") ELSE {}
    BY <2>2, <2>3, <2>4 DEF Used, AllInv, FileInv, ServerAsked
  <2>7. ParseOK(file) \/ (cfg.server /\ Unfit)
    <3> SUFFICES ASSUME ~Validate(file) PROVE cfg.server /\ Unfit
      BY <2>1 DEF ParseOK
    <3>1. cfg.server /\ file.server
      BY <2>2 DEF Sound
    <3>2. file.addr = BadAddr \/ ZeroKey \in KeysOf(file.peers)
      BY <2>2, <3>1 DEF Sound, Validate
    <3>3. ZeroKey \in KeysOf(file.peers) => ZeroKey \in KeysOf(Only(file.peers, "synced"))
      BY <2>2 DEF Sound, Manual, Only, KeysOf
    <3> QED
      BY <2>2, <2>6, <3>1, <3>2, <3>3 DEF Unfit, ServerPeers
  <2> DEFINE loaded == LoadFromConfig(New, file.peers, file.server)
  <2>8. /\ loaded.static = book.static /\ loaded.blocked = book.blocked
        /\ loaded.synced = book.synced /\ loaded.dirty = book.dirty
    <3>1. /\ loaded.static = ByKey(Only(file.peers, "static"))
          /\ loaded.blocked = ByKey(Only(file.peers, "blocked"))
          /\ loaded.synced = IF file.server THEN ByKey(Only(file.peers, "synced")) ELSE {}
          /\ loaded.dirty = FALSE
      BY DEF LoadFromConfig, New
    <3> HIDE DEF loaded
    <3>2. loaded.static = book.static /\ loaded.blocked = book.blocked
      BY <2>3, <2>5, <3>1 DEF Used
    <3>3. loaded.synced = book.synced
      BY <2>2, <2>5, <2>6, <3>1
    <3>4. book.dirty = FALSE
      BY <2>4 DEF Book
    <3> QED
      BY <3>1, <3>2, <3>3, <3>4
  <2>9. loaded \in Book
    BY <2>2, NewType, LoadType DEF Sound, Config
  <2>10. loaded = book
    BY <2>4, <2>8, <2>9, SMT DEF Book
  <2> QED
    BY <2>1, <2>2, <2>3, <2>7, <2>10 DEF Used
<1> QED
  BY <1>1, AllInvariant, PTL

\* Into the file it has read, saveFile (daemon.go:444) writes its own key,
\* address and server peers; the user's settings, static and blocked peers
\* stay as they are.
THEOREM OwnPartsOnly == Spec => WritesOnlyItsParts
<1> DEFINE Theirs == /\ UsersPart(file') = UsersPart(file)
                     /\ ~newKey => file'.key = file.key
                     /\ ~(cfg.server /\ file.server) =>
                          file'.addr = file.addr /\ file'.peers = file.peers
<1>1. AllInv /\ [Next]_vars => [(MeshdWrites /\ file = disk) => Theirs]_vars
  <2> SUFFICES ASSUME AllInv, [Next]_vars, MeshdWrites, file = disk
               PROVE  Theirs
    OBVIOUS
  <2>1. WriteFile
    <3>1. ~Edits
      BY DaemonAssumption
         DEF Edits, EditFile, Retag, Setup, Upset, MeshdWrites, AllInv, IInv, TypeOK
    <3> QED
      BY <3>1, StepKinds, SyncChanges, RegisterChanges, UpdateChanges
         DEF AllInv, IInv, FileInv, MeshdWrites, Start, Boot, GenerateKey, BeginPass,
             ReadForSave, SaveFails, Quits, Moves, world
  <2>2. Accepted(file) /\ file' = Saved(file)
    BY <2>1, WriteChanges DEF AllInv, IInv
  <2>3. file.peers \in SUBSET Peer /\ book.synced \in SUBSET Peer
    BY <2>2 DEF Accepted, Config, AllInv, IInv, TypeOK, Book
  <2>4. Manual(MergePeers(file.peers, book.synced)) = Manual(file.peers)
    BY <2>3, MergeParts DEF AllInv, FileInv, SyncedTagged
  <2> QED
    BY <2>2, <2>4, SavedFields DEF Accepted, UsersPart
<1> QED
  BY <1>1, AllInvariant, PTL DEF Spec, WritesOnlyItsParts
-----------------------------------------------------------------------------
(***************************************************************************)
(* To the fleet, meshd is a Member.  Each step of meshd is one step of the *)
(* member or none.                                                         *)
(***************************************************************************)

\* Before its first check of the file, an untouched process uses what it has
\* loaded.
Loaded == (pc = "boot" /\ edited = "no") => ViewInUse = ViewOf(file)

Between == BootPcs \cup {"idle", "check", "tunnel", "retunnel", "save", "write"}

PhaseFacts ==
  /\ (Phase = "down") <=> (pc = "down")
  /\ pc \in Between => Phase = "idle"
  /\ pc = "sync" /\ ~SyncDue => Phase = "idle"
  /\ pc = "sync" /\ SyncDue => Phase = IF IsValid(cfg.addr) THEN "sync" ELSE "register"
  /\ pc = "call" => Phase = "sync"
  /\ pc = "reregister" => Phase = "reregister"
  /\ pc = "recall" => Phase = "resync"

LEMMA PhaseOf == PhaseFacts /\ PhaseFacts'
  BY DEF PhaseFacts, Phase, IsValid, Between, BootPcs

LEMMA LoadedView ==
  ASSUME TypeOK, Start
  PROVE  ViewInUse' = ViewOf(file)
<1>1. Accepted(file) /\ ParseOK(file)
  BY Parsed DEF Start
<1>2. ByKey(Only(file.peers, "synced")) = Only(file.peers, "synced")
  BY <1>1, ByKeyOfOnly DEF Accepted, Validate
<1>3. /\ cfg'.server = file.server /\ cfg'.addr = file.addr
      /\ book'.synced = IF file.server THEN ByKey(Only(file.peers, "synced")) ELSE {}
  BY DEF Start, LoadFromConfig, New
<1> QED
  BY <1>1, <1>2, <1>3 DEF ViewInUse, ViewOf, ServerPeers

LEMMA LoadedStep ==
  ASSUME AllInv, Loaded, [Next]_vars
  PROVE  Loaded'
<1> USE DEF AllInv, IInv, FileInv, Loaded
<1>1. CASE Start
  BY <1>1, LoadedView, StartChanges DEF ViewOf, ParseOK, Validate
<1>2. CASE Moves
  BY <1>2 DEF Moves, ViewInUse, ViewOf, ParseOK, Validate
<1>3. CASE Edits
  BY <1>3, EditChanges
<1>4. CASE ~(Start \/ Moves \/ Edits)
  <2>1. pc' # "boot"
    BY <1>4, StepKinds, SyncChanges, RegisterChanges, UpdateChanges, WriteChanges, QuitChanges
       DEF Boot, GenerateKey, BeginPass, ReadForSave, SaveFails
  <2> QED
    BY <2>1
<1> QED
  BY <1>1, <1>2, <1>3, <1>4

LEMMA FileView ==
  ASSUME NEW f \in FileContent
  PROVE  ViewOf(f) \in AsMember!View
<1>1. CASE ParseOK(f)
  <2>1. f.server \in BOOLEAN /\ f.addr \in Addrs \cup {NoAddr, BadAddr} /\ f.peers \in SUBSET Peer
    BY <1>1, ParsedIsConfig DEF Config
  <2>2. Only(f.peers, "synced") \in SUBSET [source : {"synced"}, key : Keys, data : Data]
    BY <2>1 DEF Only, Peer
  <2> QED
    BY <1>1, <2>1, <2>2 DEF ViewOf, AsMember!View
<1>2. CASE ~ParseOK(f)
  BY <1>2 DEF ViewOf, AsMember!View
<1> QED
  BY <1>1, <1>2

\* The file's view as the file.
LEMMA ViewKept ==
  ASSUME file' = file
  PROVE  ViewOf(file)' = ViewOf(file)
  BY DEF ViewOf, ParseOK, Validate

\* A step the fleet does not see.
Unseen == UNCHANGED <<Phase, ViewInUse, ViewOf(file), Untouched>>

MemberStep == AsMember!Next \/ Unseen

\* Between two uses of the server, with settings, book and file as they are.
LEMMA UnseenStep ==
  ASSUME pc \in Between, pc' \in Between, UNCHANGED <<cfg, book, file, edited>>
  PROVE  MemberStep
BY PhaseOf, ViewKept DEF PhaseFacts, MemberStep, Unseen, ViewInUse, Untouched

\* A step into the sync, or past it.
LEMMA PollStep ==
  ASSUME pc \in Between, pc' = "sync", UNCHANGED <<cfg, book, file, edited, due>>
  PROVE  MemberStep
<1>1. UNCHANGED <<ViewInUse, ViewOf(file), Untouched>>
  BY ViewKept DEF ViewInUse, Untouched
<1>2. CASE SyncDue
  <2>1. Phase = "idle" /\ Phase' = IF IsValid(cfg.addr) THEN "sync" ELSE "register"
    BY <1>2, PhaseOf DEF PhaseFacts, SyncDue
  <2>2. ViewInUse.server /\ ViewInUse.addr = cfg.addr
    BY <1>2 DEF ViewInUse, SyncDue
  <2> QED
    BY <1>1, <2>1, <2>2 DEF MemberStep, AsMember!Next, AsMember!Poll, AsMember!Goes, IsValid
<1>3. CASE ~SyncDue
  <2>1. Phase = "idle" /\ Phase' = "idle"
    BY <1>3, PhaseOf DEF PhaseFacts, SyncDue
  <2> QED
    BY <1>1, <2>1 DEF MemberStep, Unseen
<1> QED
  BY <1>2, <1>3

\* An edit that comes into use, or a read of the file that finds none.
LEMMA AdoptsStep ==
  ASSUME AllInv, pc \in Between, pc' \in Between, file' = file, Untouched' = Untouched,
         UNCHANGED <<cfg, book>> \/ (UseEdits(file) /\ ~Untouched),
         TypeOK'
  PROVE  MemberStep
<1> USE DEF AllInv, IInv, FileInv
<1>1. Phase = "idle" /\ Phase' = "idle" /\ ViewOf(file)' = ViewOf(file)
  BY PhaseOf, ViewKept DEF PhaseFacts
<1>2. CASE UNCHANGED <<cfg, book>>
  BY <1>1, <1>2 DEF MemberStep, Unseen, ViewInUse
<1>3. CASE UseEdits(file) /\ ~Untouched
  <2>1. /\ cfg'.server = cfg.server
        /\ cfg.server => cfg'.addr = cfg.addr
        /\ cfg'.addr \in Addrs \cup {NoAddr, BadAddr}
        /\ book'.synced \in SUBSET book.synced
    BY <1>3, UseEditsKeeps DEF TypeOK, Cfg
  <2>2. /\ ViewInUse' = [server |-> cfg.server, addr |-> cfg'.addr, peers |-> book'.synced]
        /\ ViewInUse.peers = book.synced /\ ViewInUse.server = cfg.server
        /\ ViewInUse.addr = cfg.addr
    BY <2>1 DEF ViewInUse, ServerPeers
  <2>3. AsMember!Goes("idle", "idle")
    BY <1>1 DEF AsMember!Goes
  <2>4. AsMember!Adopts
    BY <1>1, <1>3, <2>1, <2>2, <2>3 DEF AsMember!Adopts, AsMember!Uses
  <2> QED
    BY <2>4 DEF MemberStep, AsMember!Next
<1> QED
  BY <1>2, <1>3

\* An untouched process that checks the file it has loaded uses it already.
LEMMA FirstCheck ==
  ASSUME AllInv, Loaded, pc = "boot", Untouched, UseEdits(file), Accepted(file)
  PROVE  UNCHANGED ViewInUse
<1> USE DEF AllInv, IInv, FileInv
<1>1. ParseOK(file) /\ file.peers \in SUBSET Peer /\ IsMap(file.peers)
  BY SentinelsDistinct DEF Accepted, ParseOK, Config, Validate
<1>2. /\ cfg.server = file.server /\ cfg.addr = file.addr
      /\ book.synced = IF file.server THEN Only(file.peers, "synced") ELSE {}
  BY <1>1 DEF Loaded, Untouched, ViewInUse, ViewOf, ServerPeers
<1>3. /\ cfg'.server = cfg.server /\ cfg'.addr = cfg.addr
  BY <1>2, UseEditsKeeps, UseEditsUsed DEF Used
<1>4. \A s : ByKey(Only(file.peers, s)) = Only(file.peers, s)
  BY <1>1, ByKeyOfOnly
<1>5. book'.synced = NotManual(book.synced, Only(file.peers, "static"), Only(file.peers, "blocked"))
  BY <1>4 DEF UseEdits, UpdateManualPeers
<1>6. book'.synced = book.synced
  <2>1. ASSUME NEW p \in Only(file.peers, "synced"),
               NEW q \in Only(file.peers, "static") \cup Only(file.peers, "blocked")
        PROVE  p.key # q.key
    BY <1>1, <2>1 DEF Only, IsMap
  <2>2. NotManual(Only(file.peers, "synced"), Only(file.peers, "static"), Only(file.peers, "blocked"))
        = Only(file.peers, "synced")
    BY <2>1 DEF NotManual, KeysOf
  <2> QED
    BY <1>2, <1>5, <2>2 DEF NotManual
<1> QED
  BY <1>3, <1>6 DEF ViewInUse, ServerPeers

LEMMA CheckStep ==
  ASSUME AllInv, Loaded, Boot \/ BeginPass, TypeOK'
  PROVE  MemberStep
<1> USE DEF AllInv, IInv, FileInv
<1>1. /\ pc \in {"boot", "check"} /\ pc \in Between /\ pc' \in Between
      /\ file' = file /\ checkConfig
      /\ (edited' = "no") <=> (edited = "no")
  BY DEF Boot, BeginPass, checkConfig, world, Between, BootPcs
<1>2. Untouched' = Untouched
  BY <1>1 DEF Untouched
<1>3. CASE UNCHANGED <<cfg, book>>
  BY <1>1, <1>2, <1>3, AdoptsStep
<1>4. CASE UseEdits(file) /\ ~Untouched
  BY <1>1, <1>2, <1>4, AdoptsStep
<1>5. CASE pc = "check" /\ Untouched
  <2>1. NothingNew
    BY <1>5 DEF FileSeen, Quiet, Untouched, NothingNew
  <2> QED
    BY <1>1, <1>3, <2>1 DEF checkConfig
<1>6. CASE pc = "boot" /\ Untouched /\ UseEdits(file) /\ Accepted(file)
  <2>1. UNCHANGED ViewInUse
    BY <1>6, FirstCheck
  <2> QED
    BY <1>1, <1>2, <2>1, PhaseOf, ViewKept DEF PhaseFacts, MemberStep, Unseen
<1> QED
  BY <1>1, <1>3, <1>4, <1>5, <1>6, CheckChanges

LEMMA RegisterMember ==
  ASSUME AllInv, Register, TypeOK'
  PROVE  MemberStep
<1> USE DEF AllInv, IInv, FileInv
<1>1. AsMember!Goes("register", "sync") \/ AsMember!Goes("reregister", "resync")
  BY PhaseOf DEF PhaseFacts, Register, CanRegister, Untouched, history, AsMember!Goes
<1>2. ViewInUse' = [server |-> cfg.server, addr |-> cfg'.addr, peers |-> book.synced]
  BY RegisterChanges DEF ViewInUse, ServerPeers
<1>3. ViewInUse.server = cfg.server /\ ViewInUse.peers = book.synced
  BY DEF ViewInUse, ServerPeers
<1>4. cfg'.addr \in Addrs \cup {BadAddr} /\ ViewOf(file)' = ViewOf(file)
  BY RegisterChanges, ViewKept
<1>5. AsMember!RegisterDone
  BY <1>1, <1>2, <1>3, <1>4 DEF AsMember!RegisterDone, AsMember!Uses
<1> QED
  BY <1>5 DEF MemberStep, AsMember!Next

LEMMA SyncMember ==
  ASSUME AllInv, Sync, TypeOK'
  PROVE  MemberStep
<1> USE DEF AllInv, IInv, FileInv
<1>1. AsMember!Goes("sync", "idle") \/ AsMember!Goes("resync", "idle")
  BY PhaseOf DEF PhaseFacts, Between, Sync, CanSync, Untouched, history, AsMember!Goes
<1>2. cfg'.addr \in Addrs \cup {BadAddr, cfg.addr}
  BY SyncChanges
<1>3. book'.synced \in SUBSET [source : {"synced"}, key : Keys, data : Data]
  BY SyncChanges DEF TypeOK, Book, Peer
<1>4. /\ ViewInUse' = [server |-> cfg.server, addr |-> cfg'.addr, peers |-> book'.synced]
      /\ ViewInUse.server = cfg.server /\ ViewInUse.addr = cfg.addr
  BY SyncChanges DEF ViewInUse, ServerPeers
<1>5. ViewOf(file)' = ViewOf(file)
  BY SyncChanges, ViewKept
<1>6. AsMember!SyncDone
  BY <1>1, <1>2, <1>3, <1>4, <1>5 DEF AsMember!SyncDone, AsMember!Uses
<1> QED
  BY <1>6 DEF MemberStep, AsMember!Next

LEMMA CallEnds ==
  ASSUME AllInv, UnknownMachine \/ ServerFails
  PROVE  MemberStep
<1> USE DEF AllInv, IInv, FileInv
<1>1. UNCHANGED <<ViewInUse, ViewOf(file)>> /\ Untouched' = Untouched
  BY ViewKept DEF UnknownMachine, ServerFails, inMemory, world, history, ViewInUse, Untouched
<1>2. CASE UnknownMachine
  <2>1. AsMember!Goes("sync", "reregister")
    BY <1>1, <1>2, PhaseOf DEF PhaseFacts, UnknownMachine, CanSync, AsMember!Goes
  <2> QED
    BY <1>1, <2>1 DEF MemberStep, AsMember!Next, AsMember!SyncUnknown
<1>3. CASE ServerFails
  <2>1. /\ Phase \in {"register", "sync", "reregister", "resync"} /\ Phase' = "idle"
    BY <1>3, PhaseOf DEF PhaseFacts, Between, ServerFails, CanRegister, CanSync
  <2>2. AsMember!PollFails
    BY <1>1, <2>1 DEF AsMember!PollFails, AsMember!Goes
  <2> QED
    BY <2>2 DEF MemberStep, AsMember!Next
<1> QED
  BY <1>2, <1>3

LEMMA ReadMember ==
  ASSUME AllInv, ReadForSave, TypeOK'
  PROVE  MemberStep
<1> USE DEF AllInv, IInv, FileInv
<1>1. /\ pc \in Between /\ pc' \in Between /\ file' = file /\ edited' = edited
      /\ pc \notin {"down", "boot"}
  BY DEF ReadForSave, MustSave, Between, BootPcs, world
<1>2. Untouched => file = lastRead
  BY <1>1, Parsed DEF ReadForSave, FileSeen, Quiet, Untouched
<1> QED
  BY <1>1, <1>2, ReadChanges, AdoptsStep DEF Untouched

LEMMA QuitMember ==
  ASSUME Quits, pc # "down"
  PROVE  MemberStep
<1>1. /\ Phase # "down" /\ Phase' = "down" /\ ViewOf(file)' = ViewOf(file)
  BY PhaseOf, QuitChanges, ViewKept DEF PhaseFacts, Quits
<1>2. ViewInUse' = AsMember!Nothing
  BY DEF Quits, Exit, New, NilCfg, ViewInUse, ServerPeers, AsMember!Nothing
<1>3. Untouched' = TRUE
  BY QuitChanges DEF Untouched
<1> QED
  BY <1>1, <1>2, <1>3 DEF MemberStep, AsMember!Next, AsMember!Stop

LEMMA EditMember ==
  ASSUME AllInv, Edits, TypeOK'
  PROVE  MemberStep
<1>1. /\ UNCHANGED <<pc, cfg, book>>
      /\ (edited' = "no") <=> (pc = "down")
  BY EditChanges
<1>2. Untouched' = (Phase = "down")
  BY <1>1, PhaseOf DEF Untouched, PhaseFacts
<1>3. due' = due
  BY DEF Edits, EditFile, Retag, Setup
<1>4. Phase' = Phase /\ ViewInUse' = ViewInUse
  BY <1>1, <1>3 DEF Phase, SyncDue, IsValid, ViewInUse
<1>5. ViewOf(file)' \in AsMember!View
  BY FileView DEF TypeOK, ViewOf, ParseOK, Validate
<1> QED
  BY <1>2, <1>4, <1>5 DEF MemberStep, AsMember!Next, AsMember!Edit

\* What no file may have of what the member uses.
LEMMA MembersUnfit ==
  ASSUME TypeOK, SyncedTagged
  PROVE  AsMember!Unfit <=> (cfg.server /\ Unfit)
<1> DEFINE bad == [source : {"synced"}, key : {ZeroKey}, data : Data]
<1>1. ASSUME NEW p \in book.synced
      PROVE  p.key = ZeroKey <=> p \in bad
  BY <1>1 DEF SyncedTagged, TypeOK, Book, Peer
<1>2. ZeroKey \in KeysOf(book.synced) <=> book.synced \cap bad # {}
  BY <1>1 DEF KeysOf
<1>3. /\ ViewInUse.server = cfg.server /\ ViewInUse.addr = cfg.addr
      /\ ViewInUse.peers = book.synced
  BY DEF ViewInUse, ServerPeers
<1> HIDE DEF bad
<1>4. AsMember!Unfit <=>
        (cfg.server /\ (cfg.addr = BadAddr \/ book.synced \cap bad # {}))
  BY <1>3 DEF AsMember!Unfit, bad
<1> QED
  BY <1>2, <1>4 DEF Unfit, ServerPeers

\* An untouched file holds after a save what is in use, unless it is one that
\* meshd refuses.
LEMMA SavedIsUsed ==
  ASSUME AllInv, WriteFile, Untouched
  PROVE  ViewOf(file)' = IF AsMember!Unfit THEN AsMember!Nothing ELSE ViewInUse
<1> USE DEF AllInv, IInv, FileInv
<1>1. Accepted(disk) /\ pc \in {"keywrite", "write"} /\ file' = Saved(disk)
  BY WriteChanges
<1>2. disk = file /\ file.server = cfg.server /\ ~missed
  BY <1>1 DEF KeyInv, AddressSaved, Standing, Untouched
<1>3. Used(cfg, book, disk)
  BY <1>1, <1>2 DEF EditsUsed, InUseGood, InUse
<1>4. Used(cfg, MarkSaved(book), file')
  BY <1>1, <1>3, SavedUsed
<1>5. /\ file'.server = cfg.server
      /\ cfg.server => file'.addr = cfg.addr
  BY <1>1, <1>2, SavedFields DEF Accepted
<1>6. /\ MarkSaved(book).synced = book.synced /\ ~MarkSaved(book).dirty
  BY DEF MarkSaved, TypeOK, Book
<1>7. file'.addr = cfg.addr
  BY <1>4, <1>5 DEF Used
<1>8. book.synced = IF file'.server THEN Only(file'.peers, "synced") ELSE {}
  BY <1>4, <1>5, <1>6 DEF Used, ServerAsked
<1>9. ParseOK(file') <=> ~AsMember!Unfit
  BY <1>1, <1>2, SavedParses, MembersUnfit DEF Accepted
<1>10. CASE ParseOK(file')
  <2>1. ViewOf(file)' = ViewInUse
    BY <1>5, <1>7, <1>8, <1>10 DEF ViewOf, ViewInUse, ServerPeers, ParseOK, Validate
  <2> QED
    BY <1>9, <1>10, <2>1
<1>11. CASE ~ParseOK(file')
  <2>1. ViewOf(file)' = AsMember!Nothing
    BY <1>11 DEF ViewOf, ParseOK, Validate, AsMember!Nothing
  <2> QED
    BY <1>9, <1>11, <2>1
<1> QED
  BY <1>10, <1>11

LEMMA WriteMember ==
  ASSUME AllInv, WriteFile, TypeOK'
  PROVE  MemberStep
<1> USE DEF AllInv, IInv, FileInv
<1>1. /\ Accepted(disk) /\ file' = Saved(disk) /\ ViewInUse' = ViewInUse
      /\ pc \in Between /\ pc' \in Between /\ edited' = edited
  BY WriteChanges DEF ViewInUse, ServerPeers, Between, BootPcs
<1>2. ViewOf(file)' \in AsMember!View
  BY FileView DEF TypeOK, ViewOf, ParseOK, Validate
<1>3. ASSUME ViewInUse.server, ViewOf(file)'.server
      PROVE  /\ ViewOf(file)'.addr = ViewInUse.addr
             /\ ViewOf(file)'.peers \subseteq ViewInUse.peers
  <2>1. /\ cfg.server /\ ViewInUse.addr = cfg.addr /\ ViewInUse.peers = book.synced
        /\ file'.server /\ ViewOf(file)'.addr = file'.addr
        /\ ViewOf(file)'.peers = Only(file'.peers, "synced")
    BY <1>3 DEF ViewInUse, ViewOf, ServerPeers
  <2>2. /\ file'.addr = cfg.addr
        /\ file'.peers = MergePeers(disk.peers, book.synced)
    BY <1>1, <2>1, SavedFields DEF Accepted
  <2>3. disk.peers \in SUBSET Peer /\ book.synced \in SUBSET Peer
    BY <1>1 DEF Accepted, Config, TypeOK, Book
  <2>4. Only(file'.peers, "synced") \subseteq book.synced
    BY <2>2, <2>3, MergeParts DEF SyncedTagged, NotManual
  <2> QED
    BY <2>1, <2>2, <2>4
<1>4. AsMember!Goes("idle", "idle") /\ Untouched' = Untouched
  BY <1>1, PhaseOf DEF PhaseFacts, Untouched, AsMember!Goes
<1>5. AsMember!Saves
  BY <1>1, <1>2, <1>3, <1>4, SavedIsUsed DEF AsMember!Saves
<1> QED
  BY <1>5 DEF MemberStep, AsMember!Next

LEMMA StepOfMember ==
  ASSUME AllInv, Loaded, [Next]_vars, TypeOK'
  PROVE  MemberStep
<1> USE DEF AllInv, IInv, FileInv, vars, world, inMemory, device, history
<1>1. CASE UNCHANGED vars \/ StartFails
  BY <1>1, ViewKept DEF StartFails, MemberStep, Unseen, Phase, SyncDue, IsValid, ViewInUse, Untouched
<1>2. CASE Start
  <2>1. AsMember!Goes("down", "idle")
    BY <1>2, PhaseOf DEF PhaseFacts, Between, BootPcs, Start, Untouched, AsMember!Goes
  <2>2. ViewInUse' = ViewOf(file) /\ ViewOf(file)' = ViewOf(file)
    BY <1>2, LoadedView, StartChanges, ViewKept
  <2> QED
    BY <2>1, <2>2 DEF MemberStep, AsMember!Next, AsMember!Start
<1>3. CASE Boot \/ BeginPass
  BY <1>3, CheckStep
<1>4. CASE HasKey \/ WakeByTicker \/ WakeBySyncDue \/ WakeBySighup \/ WakeByTunnelStopped
           \/ NothingToSave \/ SaveFails
  BY <1>4, UnseenStep
     DEF HasKey, WakeByTicker, WakeBySyncDue, WakeBySighup, WakeByTunnelStopped, Wake,
         NothingToSave, SaveFails, Between, BootPcs
<1>5. CASE GenerateKey
  <2>1. UNCHANGED <<ViewInUse, ViewOf(file)>> /\ Untouched' = Untouched
    BY <1>5, ViewKept DEF GenerateKey, ViewInUse, Untouched, TypeOK, Cfg
  <2>2. Phase = "idle" /\ Phase' = "idle"
    BY <1>5, PhaseOf DEF PhaseFacts, GenerateKey, Between, BootPcs
  <2> QED
    BY <2>1, <2>2 DEF MemberStep, Unseen
<1>6. CASE NoAddressYet \/ UpdateTunnel \/ ApplyFails
  <2>1. /\ pc \in Between /\ UNCHANGED <<cfg, book, file, edited, due>>
        /\ pc' = "sync" \/ pc' \in Between
    BY <1>6 DEF NoAddressYet, UpdateTunnel, ApplyFails, Updating, AtTunnel, AfterTunnel,
                Between
  <2> QED
    BY <2>1, PollStep, UnseenStep
<1>7. CASE NotDue
  <2>1. Phase = "idle" /\ Phase' = "idle"
    BY <1>7, PhaseOf DEF PhaseFacts, NotDue, Between
  <2> QED
    BY <1>7, <2>1, ViewKept DEF NotDue, MemberStep, Unseen, ViewInUse, Untouched
<1>8. CASE Register
  BY <1>8, RegisterMember
<1>9. CASE Sync
  BY <1>9, SyncMember
<1>10. CASE UnknownMachine \/ ServerFails
  BY <1>10, CallEnds
<1>11. CASE ReadForSave
  BY <1>11, ReadMember
<1>12. CASE WriteFile
  BY <1>12, WriteMember
<1>13. CASE OpenFails \/ KeySaveFails \/ Stop
  BY <1>13, QuitMember DEF OpenFails, KeySaveFails, Stop, Quits, AtTunnel
<1>14. CASE Edits
  BY <1>14, EditMember
<1>15. CASE TunnelDies \/ Sighup \/ SyncTimePasses
  <2>1. UNCHANGED <<pc, cfg, book, file, edited>> /\ (due' = due \/ pc = "idle")
    BY <1>15 DEF TunnelDies, Sighup, SyncTimePasses
  <2>2. Phase' = Phase
    BY <2>1 DEF Phase, SyncDue, IsValid
  <2> QED
    BY <2>1, <2>2, ViewKept DEF MemberStep, Unseen, ViewInUse, Untouched
<1> QED
  BY <1>1, <1>2, <1>3, <1>4, <1>5, <1>6, <1>7, <1>8, <1>9, <1>10, <1>11, <1>12, <1>13,
     <1>14, <1>15 DEF Next, Run, World, Edits

\* To the rest of the fleet, the passes of meshd with their failures, deaths
\* and edits are polls of a Member (syncServer, daemon.go:262): at most one
\* registration and one retry in a poll, address and peers from answers only,
\* and an untouched file that is given back what is in use.
THEOREM MeshdIsMember == Spec => ActsAsMember
<1>1. Init => AsMember!Init
  <2> SUFFICES ASSUME Init PROVE AsMember!Init
    OBVIOUS
  <2>1. TypeOK
    BY IInvInit DEF IInv
  <2>2. ViewOf(file) \in AsMember!View
    BY <2>1, FileView DEF TypeOK
  <2>3. Phase = "down" /\ ViewInUse = AsMember!Nothing /\ Untouched = TRUE
    BY PhaseOf DEF Init, PhaseFacts, ViewInUse, ServerPeers, New, NilCfg, AsMember!Nothing, Untouched
  <2> QED
    BY <2>2, <2>3 DEF AsMember!Init
<1>2. Init => Loaded
  BY DEF Init, Loaded
<1>3. AllInv /\ Loaded /\ [Next]_vars => Loaded'
  BY LoadedStep
<1>4. AllInv /\ AllInv' /\ Loaded /\ [Next]_vars => [AsMember!Next]_(AsMember!memberVars)
  BY StepOfMember DEF AllInv, IInv, MemberStep, Unseen, AsMember!memberVars
<1> QED
  BY <1>1, <1>2, <1>3, <1>4, AllInvariant, PTL DEF Spec, ActsAsMember, AsMember!Spec
=============================================================================
