-------------------------------- MODULE Member --------------------------------
(***************************************************************************)
(* What the rest of a fleet sees of one meshd: how far its poll is, and    *)
(* the address and the server's list that it uses and that its file        *)
(* holds.  The answers of the server are left open.  The machines of Fleet *)
(* are members with a server whose files nobody edits.                     *)
(***************************************************************************)

CONSTANTS Addrs, NoAddr,
          BadAddr,   \* an address no file may have
          Entry,     \* what the server may list
          BadEntry   \* what no file may list

View == [server : BOOLEAN, addr : Addrs \cup {NoAddr, BadAddr}, peers : SUBSET Entry]

Nothing == [server |-> FALSE, addr |-> NoAddr, peers |-> {}]

VARIABLES phase,     \* of the poll; "idle" between two polls
          view,      \* what it uses
          saved,     \* what a new process would use
          untouched  \* nobody has edited the file since the process started

memberVars == <<phase, view, saved, untouched>>

Init ==
  /\ phase = "down" /\ view = Nothing
  /\ saved \in View
  /\ untouched = TRUE

Goes(from, to) == phase = from /\ phase' = to /\ UNCHANGED untouched

\* Whether there is a server is not changed while it runs.
Uses(a, list) == view' = [server |-> view.server, addr |-> a, peers |-> list]

Start ==
  /\ Goes("down", "idle")
  /\ view' = saved
  /\ UNCHANGED saved

Poll ==
  /\ view.server
  /\ Goes("idle", IF view.addr \in {NoAddr, BadAddr} THEN "register" ELSE "sync")
  /\ UNCHANGED <<view, saved>>

RegisterDone ==
  /\ Goes("register", "sync") \/ Goes("reregister", "resync")
  /\ \E a \in Addrs \cup {BadAddr} : Uses(a, view.peers)
  /\ UNCHANGED saved

SyncUnknown ==
  /\ Goes("sync", "reregister")
  /\ UNCHANGED <<view, saved>>

\* An answer without a valid address leaves the one in use.
SyncDone ==
  /\ Goes("sync", "idle") \/ Goes("resync", "idle")
  /\ \E a \in Addrs \cup {BadAddr, view.addr}, list \in SUBSET Entry : Uses(a, list)
  /\ UNCHANGED saved

PollFails ==
  /\ \E p \in {"register", "sync", "reregister", "resync"} : Goes(p, "idle")
  /\ UNCHANGED <<view, saved>>

\* What a file may not have of what the server sent.
Unfit == view.server /\ (view.addr = BadAddr \/ view.peers \cap BadEntry # {})

\* What is used is saved; a file it does not fit into is of no use to a new
\* process.  Into an edited file, not all of it may go; and the edit may have
\* taken the server away.
Saves ==
  /\ Goes("idle", "idle")
  /\ saved' \in View
  /\ IF untouched
       THEN saved' = IF Unfit THEN Nothing ELSE view
       ELSE view.server /\ saved'.server =>
              saved'.addr = view.addr /\ saved'.peers \subseteq view.peers
  /\ UNCHANGED view

\* An edit comes into use between two polls.  It may take peers from the
\* server's list, but neither adds one nor changes the address, which is the
\* user's on a machine without a server only.
Adopts ==
  /\ ~untouched
  /\ Goes("idle", "idle")
  /\ \E a \in Addrs \cup {NoAddr, BadAddr}, list \in SUBSET view.peers :
       /\ view.server => a = view.addr
       /\ Uses(a, list)
  /\ UNCHANGED saved

\* The end of the process, in whatever step.
Stop ==
  /\ phase # "down" /\ phase' = "down"
  /\ view' = Nothing
  /\ untouched' = TRUE
  /\ UNCHANGED saved

\* A user or setup replaces the file.
Edit ==
  /\ saved' \in View
  /\ untouched' = (phase = "down")
  /\ UNCHANGED <<phase, view>>

Next ==
  \/ Start \/ Poll \/ RegisterDone \/ SyncUnknown \/ SyncDone \/ PollFails
  \/ Saves \/ Adopts \/ Stop \/ Edit

Spec == Init /\ [][Next]_memberVars
=============================================================================
