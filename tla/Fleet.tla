-------------------------------- MODULE Fleet --------------------------------
(***************************************************************************)
(* The machines of a fleet and their coordination server: who has which    *)
(* address, and who believes what of whom, through lost calls and answers, *)
(* late requests, restarts, answers of something that is not the server,   *)
(* and rows that are deleted from the table by hand (README.md:341).       *)
(*                                                                         *)
(* The parts are modelled in detail elsewhere and are coarse here: a       *)
(* request is one step of the server (CoordStore shows that requests do    *)
(* not get in each other's way), a machine is a Member (MeshDaemon shows   *)
(* that meshd is one) with a server and a file that nobody edits, which    *)
(* saves at the end of a poll, and time is only whether a row is fresh: it *)
(* is, of a machine that polls and has not missed two polls in a row       *)
(* (Poll).                                                                 *)
(*                                                                         *)
(* Bounds: MaxTroubles caps the calls and saves that go wrong, the stops   *)
(* and the deletions.                                                      *)
(***************************************************************************)
EXTENDS Integers

CONSTANTS Machines,  \* by their public keys
          NumAddrs,  \* how many addresses there are to give out
          MaxTroubles,
          NoRow, NoAddr

Addrs == 1 .. NumAddrs

Row == [ip : Addrs, fresh : BOOLEAN]

Entry == [key : Machines, ip : Addrs]

\* What meshd knows of the fleet, in memory and in meshd.json.
View == [addr : Addrs \cup {NoAddr}, peers : SUBSET Entry]

Ops == {"register", "sync"}

Answer == [kind : {"ok", "unknown", "failed"}, addr : Addrs \cup {NoAddr}, peers : SUBSET Entry]

ASSUME FleetAssumption ==
  /\ NumAddrs \in Nat /\ MaxTroubles \in Nat
  /\ NoRow \notin Row /\ NoAddr \notin Addrs

VARIABLES
  db,       \* the server's table
  pc,       \* where a machine is in its poll
  view,     \* d.cfg.Address and d.book
  saved,    \* the same in meshd.json
  request,  \* the machine's request is on its way
  answer,   \* what has come back, if it is not
  late,     \* requests nobody waits for any more
  misses,   \* failed polls since the last good one; 2 is two or more, or a new process
  \* The rest is not in the program.
  deleted,  \* machines whose row was ever deleted by hand
  troubles

calls == <<request, answer, late>>
vars  == <<db, pc, view, saved, calls, misses, deleted, troubles>>

NoAnswer == [kind |-> "failed", addr |-> NoAddr, peers |-> {}]

Unknown == [NoAnswer EXCEPT !.kind = "unknown"]

EmptyList == [NoAnswer EXCEPT !.kind = "ok"]

TypeOK ==
  /\ db \in [Machines -> Row \cup {NoRow}]
  /\ pc \in [Machines -> {"down", "idle", "register", "sync", "reregister", "resync"}]
  /\ view \in [Machines -> View] /\ saved \in [Machines -> View]
  /\ request \in [Machines -> BOOLEAN]
  /\ answer \in [Machines -> Answer]
  /\ late \in [Machines -> SUBSET Ops]
  /\ misses \in [Machines -> 0 .. 2]
  /\ deleted \subseteq Machines
  /\ troubles \in 0 .. MaxTroubles

Init ==
  /\ db = [m \in Machines |-> NoRow]
  /\ pc = [m \in Machines |-> "down"]
  /\ view = [m \in Machines |-> [addr |-> NoAddr, peers |-> {}]]
  /\ saved = view
  /\ request = [m \in Machines |-> FALSE]
  /\ answer = [m \in Machines |-> NoAnswer]
  /\ late = [m \in Machines |-> {}]
  /\ misses = [m \in Machines |-> 2]
  /\ deleted = {} /\ troubles = 0

-----------------------------------------------------------------------------
(* The server *)

Used == {db[m].ip : m \in {n \in Machines : db[n] # NoRow}}

\* Mutants: there is one more address; the addresses of silent machines are free.
FreePastTheEnd == (1 .. NumAddrs + 1) \ Used

FreeOfSilent == Addrs \ {db[m].ip : m \in {n \in Machines : db[n] # NoRow /\ db[n].fresh}}

Free == Addrs \ Used

\* RegisterMachine.  Which of the free addresses it is does not matter here.
Registered(m) ==
  IF db[m] # NoRow THEN [db[m] EXCEPT !.fresh = TRUE]
  ELSE IF Free = {} THEN NoRow
  ELSE [ip |-> CHOOSE a \in Free : TRUE, fresh |-> TRUE]

\* Sync.
Refreshed(m) == IF db[m] = NoRow THEN NoRow ELSE [db[m] EXCEPT !.fresh = TRUE]

After(op, m) == IF op = "register" THEN Registered(m) ELSE Refreshed(m)

\* Mutant: all machines are listed.
ListedEver(m) == {[key |-> n, ip |-> db[n].ip] : n \in {n \in Machines \ {m} : db[n] # NoRow}}

Listed(m) ==
  {[key |-> n, ip |-> db[n].ip] :
     n \in {n \in Machines \ {m} : db[n] # NoRow /\ db[n].fresh}}

\* What the handlers answer a request that leaves the row as it is now.
AnswerOf(op, m, row) ==
  IF row # NoRow
    THEN [kind |-> "ok", addr |-> row.ip, peers |-> IF op = "sync" THEN Listed(m) ELSE {}]
    ELSE IF op = "sync" THEN Unknown ELSE NoAnswer

OpOf(m) == IF pc[m] \in {"register", "reregister"} THEN "register" ELSE "sync"

Serve(m) ==
  /\ request[m]
  /\ db' = [db EXCEPT ![m] = After(OpOf(m), m)]
  /\ answer' = [answer EXCEPT ![m] = AnswerOf(OpOf(m), m, After(OpOf(m), m))]
  /\ request' = [request EXCEPT ![m] = FALSE]
  /\ UNCHANGED <<pc, view, saved, late, misses, deleted, troubles>>

\* A request whose caller has given up, or is gone.
ServeLate(m) ==
  /\ \E op \in late[m] :
       /\ db' = [db EXCEPT ![m] = After(op, m)]
       /\ late' = [late EXCEPT ![m] = @ \ {op}]
  /\ UNCHANGED <<pc, view, saved, request, answer, misses, deleted, troubles>>

\* Mutant: a machine that is silent for long is removed.
GoesSilentForGood(m) ==
  /\ db[m] # NoRow /\ db[m].fresh
  /\ pc[m] = "down" \/ misses[m] = 2
  /\ db' = [db EXCEPT ![m] = NoRow]
  /\ UNCHANGED <<pc, view, saved, calls, misses, deleted, troubles>>

\* The peer timeout passes.
GoesSilent(m) ==
  /\ db[m] # NoRow /\ db[m].fresh
  /\ pc[m] = "down" \/ misses[m] = 2
  /\ db' = [db EXCEPT ![m].fresh = FALSE]
  /\ UNCHANGED <<pc, view, saved, calls, misses, deleted, troubles>>

-----------------------------------------------------------------------------
(* A machine *)

Start(m) ==
  /\ pc[m] = "down"
  /\ pc' = [pc EXCEPT ![m] = "idle"]
  /\ view' = [view EXCEPT ![m] = saved[m]]
  /\ misses' = [misses EXCEPT ![m] = 2]
  /\ UNCHANGED <<db, saved, calls, deleted, troubles>>

\* The next call goes out.
Calls(m, next) ==
  /\ pc' = [pc EXCEPT ![m] = next]
  /\ request' = [request EXCEPT ![m] = TRUE]
  /\ answer' = [answer EXCEPT ![m] = NoAnswer]
  /\ UNCHANGED <<db, late, deleted, troubles>>

Poll(m) ==
  /\ pc[m] = "idle"
  /\ Calls(m, IF view[m].addr = NoAddr THEN "register" ELSE "sync")
  /\ UNCHANGED <<view, saved, misses>>

Got(m, kind) ==
  /\ pc[m] \notin {"down", "idle"} /\ ~request[m]
  /\ answer[m].kind = kind

RegisterDone(m) ==
  /\ Got(m, "ok") /\ OpOf(m) = "register"
  /\ view' = [view EXCEPT ![m].addr = answer[m].addr]
  /\ Calls(m, IF pc[m] = "register" THEN "sync" ELSE "resync")
  /\ UNCHANGED <<saved, misses>>

\* Any 404 says so (translateError).
SyncUnknown(m) ==
  /\ Got(m, "unknown") /\ pc[m] = "sync"
  /\ Calls(m, "reregister")
  /\ UNCHANGED <<view, saved, misses>>

\* The poll is over.
Ends(m, v, n) ==
  /\ view' = [view EXCEPT ![m] = v]
  /\ pc' = [pc EXCEPT ![m] = "idle"]
  /\ answer' = [answer EXCEPT ![m] = NoAnswer]
  /\ misses' = [misses EXCEPT ![m] = n]
  /\ UNCHANGED <<db, deleted>>

\* An answer without a valid address leaves the one in use.
SyncDone(m) ==
  /\ Got(m, "ok") /\ OpOf(m) = "sync"
  /\ Ends(m, [addr  |-> IF answer[m].addr = NoAddr THEN view[m].addr ELSE answer[m].addr,
              peers |-> answer[m].peers], 0)
  /\ UNCHANGED <<request, late>>

PollFails(m) ==
  /\ Got(m, "failed") \/ (Got(m, "unknown") /\ pc[m] # "sync")
  /\ Ends(m, view[m], IF misses[m] = 0 THEN 1 ELSE 2)
  /\ UNCHANGED <<request, late>>

\* What has changed is saved at the end of the poll.
Saves(m) == saved' = [saved EXCEPT ![m] = view'[m]]

PollEnds(m) ==
  /\ SyncDone(m) \/ PollFails(m)
  /\ Saves(m)
  /\ UNCHANGED troubles

-----------------------------------------------------------------------------
(* Troubles *)

Trouble == troubles < MaxTroubles /\ troubles' = troubles + 1

Abandoned(m) == [late EXCEPT ![m] = IF request[m] THEN @ \cup {OpOf(m)} ELSE @]

\* The call fails or times out.  The request may be lost, get to the server
\* later, or have been served already.
CallFails(m) ==
  /\ Trouble
  /\ pc[m] \notin {"down", "idle"}
  /\ Ends(m, view[m], IF misses[m] = 0 THEN 1 ELSE 2)
  /\ Saves(m)
  /\ late' \in {late, Abandoned(m)}
  /\ request' = [request EXCEPT ![m] = FALSE]

\* Something else answers: a 404, or JSON that is no list of machines, which
\* counts as an empty one (a registration without an address is refused).
Foreign(m) ==
  /\ Trouble
  /\ request[m]
  /\ \E a \in {Unknown, IF OpOf(m) = "sync" THEN EmptyList ELSE NoAnswer} :
       answer' = [answer EXCEPT ![m] = a]
  /\ request' = [request EXCEPT ![m] = FALSE]
  /\ UNCHANGED <<db, pc, view, saved, late, misses, deleted>>

\* The file cannot be written.  That it may be at the next pass already makes
\* no difference here: it would be as if it had been at once.
SaveFails(m) ==
  /\ Trouble
  /\ SyncDone(m) \/ PollFails(m)
  /\ UNCHANGED saved

\* SIGTERM or a crash, in whatever step of a poll.
Stop(m) ==
  /\ Trouble
  /\ pc[m] # "down"
  /\ pc' = [pc EXCEPT ![m] = "down"]
  /\ late' \in {late, Abandoned(m)}
  /\ request' = [request EXCEPT ![m] = FALSE]
  /\ answer' = [answer EXCEPT ![m] = NoAnswer]
  /\ UNCHANGED <<db, view, saved, misses, deleted>>

DeleteRow(m) ==
  /\ Trouble
  /\ db[m] # NoRow
  /\ db' = [db EXCEPT ![m] = NoRow]
  /\ deleted' = deleted \cup {m}
  /\ UNCHANGED <<pc, view, saved, calls, misses>>

-----------------------------------------------------------------------------

Meshd(m) ==
  Poll(m) \/ RegisterDone(m) \/ SyncUnknown(m) \/ PollEnds(m)

Next ==
  \E m \in Machines :
    \/ Serve(m) \/ ServeLate(m) \/ GoesSilent(m)
    \/ Start(m) \/ Meshd(m)
    \/ CallFails(m) \/ Foreign(m) \/ SaveFails(m) \/ Stop(m) \/ DeleteRow(m)

Spec == Init /\ [][Next]_vars

-----------------------------------------------------------------------------
(* Properties *)

\* Two machines never use the same address, in whatever step of their polls
\* they are and from however old a file they were started, unless the row of
\* one of them was deleted: the address is then free for another one while
\* the machine goes on using it.
AddressesApart ==
  \A m, n \in Machines \ deleted :
    m # n /\ view[m].addr # NoAddr => view[m].addr # view[n].addr

\* What machines believe of one another is true, however old the list is.
PeersTrue ==
  \A m \in Machines : \A p \in view[m].peers \cup saved[m].peers :
    p.key \in deleted \/ (db[p.key] # NoRow /\ db[p.key].ip = p.ip)

Up(m) == pc[m] # "down"

\* A machine that has its place: it is in the table, and uses that address.
Placed(m) == db[m] # NoRow /\ view[m].addr = db[m].ip

\* The machines that run and those that do not, as m sees it.
SeesFleet(m) ==
  \A n \in Machines \ {m} :
    IF Up(n) /\ db[n] # NoRow
      THEN [key |-> n, ip |-> db[n].ip] \in view[m].peers
      ELSE \A p \in view[m].peers : p.key # n

\* meshd polls for ever, at bounded distances (Poll); the server answers what
\* gets to it; and time passes.
FairSpec ==
  /\ Spec
  /\ \A m \in Machines : WF_vars(Meshd(m)) /\ WF_vars(Serve(m)) /\ WF_vars(GoesSilent(m))

\* When the troubles are over, every machine that runs comes to have its place,
\* a deleted one too, unless there is no address left, and those that have one
\* come to see just the machines that run, at their addresses, for good.
Converges ==
  <>[](\A m \in Machines :
         Up(m) => IF Placed(m) THEN SeesFleet(m) ELSE db[m] = NoRow /\ Free = {})
=============================================================================
