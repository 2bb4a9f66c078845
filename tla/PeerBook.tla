------------------------------ MODULE PeerBook ------------------------------
(***************************************************************************)
(* The peer book of meshd (internal/peerbook): the peers of one machine,   *)
(* by source.  "static" and "blocked" peers are the user's, "synced" peers *)
(* are the coordination server's.  The operators are the methods of Book;  *)
(* a Go map from keys to peers is the set of its entries.                  *)
(*                                                                         *)
(* A peer's allowed IPs and endpoint are one value of Data.  Its name,     *)
(* which only files and logs show, is left out.  The order of a list is    *)
(* left out too: Book turns every list into a map before it uses it.       *)
(***************************************************************************)

CONSTANTS Keys,   \* public keys
          Data    \* what an entry says of a peer: allowed IPs and endpoint

Source == {"static", "synced", "blocked"}

Peer == [source : Source, key : Keys, data : Data]

KeysOf(list) == {p.key : p \in list}

Only(list, s) == {p \in list : p.source = s}

\* One entry for each key of the list.
ByKey(list) == {CHOOSE p \in list : p.key = k : k \in KeysOf(list)}

IsMap(m) == \A p, q \in m : p.key = q.key => p = q

Book == [static  : SUBSET Peer,
         blocked : SUBSET Peer,
         synced  : SUBSET Peer,
         dirty   : BOOLEAN]     \* the server's list changed since the last save

\* Every key has at most one entry, whichever map it is in.
OneEntryPerKey(b) ==
  /\ IsMap(b.static) /\ IsMap(b.blocked) /\ IsMap(b.synced)
  /\ KeysOf(b.static) \cap KeysOf(b.blocked) = {}
  /\ KeysOf(b.synced) \cap KeysOf(b.static \cup b.blocked) = {}

New == [static |-> {}, blocked |-> {}, synced |-> {}, dirty |-> FALSE]

LoadFromConfig(b, list, useServer) ==
  [b EXCEPT !.static  = ByKey(Only(list, "static")),
            !.blocked = ByKey(Only(list, "blocked")),
            !.synced  = IF useServer THEN ByKey(Only(list, "synced")) ELSE {}]

\* Without the entries whose key the user has pinned or blocked.
NotManual(list, static, blocked) ==
  {p \in list : p.key \notin KeysOf(static \cup blocked)}

SetFromServer(b, list) ==
  LET next == ByKey({[p EXCEPT !.source = "synced"] :
                        p \in NotManual(list, b.static, b.blocked)})
  IN  [b EXCEPT !.synced = next,
                !.dirty  = b.dirty \/ b.synced # next]

\* Mutants of UpdateManualPeers: it keeps the server's entry for a key that is
\* manual now; it does not mark the book for saving; it takes the file's list.
UpdateManualPeersKeepingSynced(b, list, useServer) ==
  [b EXCEPT !.static  = ByKey(Only(list, "static")),
            !.blocked = ByKey(Only(list, "blocked")),
            !.dirty   = @ \/ (useServer /\ ByKey(Only(list, "synced")) # b.synced)]

UpdateManualPeersUnmarked(b, list, useServer) ==
  [LoadFromConfig(b, list, useServer) EXCEPT
     !.synced = NotManual(b.synced, Only(list, "static"), Only(list, "blocked"))]

UpdateManualPeersReloading(b, list, useServer) == LoadFromConfig(b, list, useServer)

UpdateManualPeers(b, list, useServer) ==
  LET static  == ByKey(Only(list, "static"))
      blocked == ByKey(Only(list, "blocked"))
      synced  == NotManual(b.synced, static, blocked)
  IN  [static  |-> static,
       blocked |-> blocked,
       synced  |-> synced,
       dirty   |-> b.dirty \/ (useServer /\ ByKey(Only(list, "synced")) # synced)]

\* The peers the tunnel should have, and those to be saved.
Peers(b) == b.static \cup b.synced

ServerPeers(b) == b.synced

NeedsSave(b) == b.dirty

MarkSaved(b) == [b EXCEPT !.dirty = FALSE]
=============================================================================
