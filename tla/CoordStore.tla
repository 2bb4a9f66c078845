----------------------------- MODULE CoordStore -----------------------------
(***************************************************************************)
(* The coordination server (internal/server and internal/store): the       *)
(* requests it is working on, its table of machines, and the one database  *)
(* connection they take turns on.                                          *)
(*                                                                         *)
(* A request is accepted, waits for the connection, works in a             *)
(* transaction, commits and is answered, one step each, so that requests   *)
(* interleave, time passes between the steps, a request may fail at any of *)
(* them (the database, the five seconds of requestContext, the client      *)
(* hanging up) and the process may die and start again.  The answer may be *)
(* lost on its way.                                                        *)
(*                                                                         *)
(* An address is its number in the range.  Times are whole seconds, as in  *)
(* the table.  Requests that are turned away before they get to the store  *)
(* (bad JSON, token, key, name or port) are left out, as is what a machine *)
(* says of itself (name, endpoint, port): a row's seen tells which request *)
(* it is from.                                                             *)
(*                                                                         *)
(* Bounds: Slots is how many requests are worked on at once, MaxClock      *)
(* where time stops.                                                       *)
(***************************************************************************)
EXTENDS Integers

CONSTANTS Keys,         \* public keys of machines
          Slots,
          RangeSize,    \* how many addresses the VPN range has
          PeerTimeout,  \* after how much silence a machine is left out of the lists
          ReqTimeout,   \* the time a request may take
          MaxClock,
          NoRow, NoRequest, Nobody, Never

reservedHosts == 2

Reserved == 1 .. reservedHosts

\* Neither the range's own address, nor a reserved one, nor the last one.
Hosts == (reservedHosts + 1) .. (RangeSize - 2)

Row == [ip : Hosts, seen : 0 .. MaxClock]

Request == [op     : {"register", "sync"},
            key    : Keys,
            at     : 0 .. MaxClock,
            stage  : {"wait", "tx", "commit", "reply"},
            row    : Row \cup {NoRow},   \* the caller's row as the transaction leaves it
            peers  : SUBSET Keys,
            result : {"ok", "unknown", "full", "error"}]

ASSUME StoreAssumption ==
  /\ RangeSize \in Nat /\ PeerTimeout \in Nat /\ ReqTimeout \in Nat /\ MaxClock \in Nat
  /\ NoRow \notin Row \cup Hosts /\ NoRequest \notin Request /\ Nobody \notin Slots
  /\ Never \in Int /\ Never + PeerTimeout + ReqTimeout < 0

VARIABLES
  db,     \* the table: what is committed
  conn,   \* the request that has the connection, or Nobody
  req,    \* the request in each slot
  clock,
  \* The rest is not in the program; it says what has happened.
  told,   \* the addresses machines were told: <<key, ip>>
  heard   \* when the newest request that was committed for a machine came

serving == <<conn, req>>
history == <<told, heard>>
vars    == <<db, serving, clock, history>>

TypeOK ==
  /\ db \in [Keys -> Row \cup {NoRow}]
  /\ conn \in Slots \cup {Nobody}
  /\ req \in [Slots -> Request \cup {NoRequest}]
  /\ clock \in 0 .. MaxClock
  /\ told \subseteq Keys \X Hosts
  /\ heard \in [Keys -> 0 .. MaxClock \cup {Never}]

Init ==
  /\ db = [k \in Keys |-> NoRow]
  /\ conn = Nobody
  /\ req = [r \in Slots |-> NoRequest]
  /\ clock = 0
  /\ told = {}
  /\ heard = [k \in Keys |-> Never]

-----------------------------------------------------------------------------
(* The address range. *)

Enrolled == {k \in Keys : db[k] # NoRow}

Used == {db[k].ip : k \in Enrolled}

InRange(a) == a \in 0 .. RangeSize - 1

\* Mutants: the loop goes on to the last address, or stops one early; addresses
\* of machines that have been silent for long are given out again.
FreeToTheEnd == {a \in 1 .. RangeSize : InRange(a) /\ a \notin Used \cup Reserved}

FreeShort == {a \in 1 .. RangeSize : InRange(a + 2) /\ a \notin Used \cup Reserved}

FreeRecycled ==
  {a \in 1 .. RangeSize : InRange(a + 1) /\ a \notin Reserved
     /\ a \notin {db[k].ip : k \in {l \in Enrolled : db[l].seen >= clock - PeerTimeout}}}

\* The candidates NextFreeIP goes through that it would return.
Free == {a \in 1 .. RangeSize : InRange(a + 1) /\ a \notin Used \cup Reserved}

NextFreeIP == CHOOSE a \in Free : \A b \in Free : a <= b

-----------------------------------------------------------------------------
(* A request's way through the server. *)

At(r, stage) == req[r] # NoRequest /\ req[r].stage = stage

\* Mutant: a request has no deadline.
NoDeadline(r) == At(r, req[r].stage)

InTime(r) == clock <= req[r].at + ReqTimeout

\* The handler takes the time for aliveSince, the store takes it again for
\* last_seen, and requestContext counts from there: nothing in between waits.
Accept(r) ==
  /\ req[r] = NoRequest
  /\ \E op \in {"register", "sync"}, k \in Keys :
       req' = [req EXCEPT ![r] = [op |-> op, key |-> k, at |-> clock, stage |-> "wait",
                                  row |-> NoRow, peers |-> {}, result |-> "error"]]
  /\ UNCHANGED <<db, conn, clock, history>>

\* Mutant: a pool of connections.
BeginAtOnce(r) ==
  /\ At(r, "wait") /\ InTime(r)
  /\ conn' = r
  /\ req' = [req EXCEPT ![r].stage = "tx"]
  /\ UNCHANGED <<db, clock, history>>

\* BeginTx waits for the connection; there is one (SetMaxOpenConns).
Begin(r) ==
  /\ At(r, "wait") /\ InTime(r)
  /\ conn = Nobody
  /\ conn' = r
  /\ req' = [req EXCEPT ![r].stage = "tx"]
  /\ UNCHANGED <<db, clock, history>>

Working(r, op) == At(r, "tx") /\ InTime(r) /\ req[r].op = op

Wrote(r, row) ==
  /\ req' = [req EXCEPT ![r].stage = "commit", ![r].row = row]
  /\ UNCHANGED <<db, conn, clock, history>>

\* The transaction ends without a change, and the connection is free again.
RolledBack(r, result) ==
  /\ req' = [req EXCEPT ![r].stage = "reply", ![r].row = NoRow, ![r].result = result]
  /\ conn' = IF conn = r THEN Nobody ELSE conn
  /\ UNCHANGED <<db, clock, history>>

\* Mutant: a machine that comes again is enrolled again.
RegisterKnownAnew(r) ==
  /\ Working(r, "register")
  /\ db[req[r].key] # NoRow
  /\ Free # {}
  /\ Wrote(r, [ip |-> NextFreeIP, seen |-> req[r].at])

\* A machine that comes again keeps its address.
RegisterKnown(r) ==
  /\ Working(r, "register")
  /\ db[req[r].key] # NoRow
  /\ Wrote(r, [db[req[r].key] EXCEPT !.seen = req[r].at])

RegisterNew(r) ==
  /\ Working(r, "register")
  /\ db[req[r].key] = NoRow
  /\ Free # {}
  /\ Wrote(r, [ip |-> NextFreeIP, seen |-> req[r].at])

PoolExhausted(r) ==
  /\ Working(r, "register")
  /\ db[req[r].key] = NoRow
  /\ Free = {}
  /\ RolledBack(r, "full")

\* Mutant: the time of the list is not the time of the request.
SyncListsNow(r) ==
  /\ Working(r, "sync")
  /\ db[req[r].key] # NoRow
  /\ req' = [req EXCEPT
       ![r].stage = "commit",
       ![r].row   = [db[req[r].key] EXCEPT !.seen = req[r].at],
       ![r].peers = {k \in Enrolled \ {req[r].key} : db[k].seen >= clock - PeerTimeout}]
  /\ UNCHANGED <<db, conn, clock, history>>

\* The caller's row is updated, and the others seen since aliveSince are listed.
Sync(r) ==
  /\ Working(r, "sync")
  /\ db[req[r].key] # NoRow
  /\ req' = [req EXCEPT
       ![r].stage = "commit",
       ![r].row   = [db[req[r].key] EXCEPT !.seen = req[r].at],
       ![r].peers = {k \in Enrolled \ {req[r].key} :
                       db[k].seen >= req[r].at - PeerTimeout}]
  /\ UNCHANGED <<db, conn, clock, history>>

SyncNotFound(r) ==
  /\ Working(r, "sync")
  /\ db[req[r].key] = NoRow
  /\ RolledBack(r, "unknown")

\* A commit is on the disk when it returns (synchronous = FULL).
Commit(r) ==
  /\ At(r, "commit") /\ InTime(r)
  /\ db' = [db EXCEPT ![req[r].key] = req[r].row]
  /\ heard' = [heard EXCEPT ![req[r].key] = IF req[r].at > @ THEN req[r].at ELSE @]
  /\ req' = [req EXCEPT ![r].stage = "reply", ![r].result = "ok"]
  /\ conn' = Nobody
  /\ UNCHANGED <<clock, told>>

\* A database error, the deadline, or the client hanging up.
Fail(r) ==
  /\ At(r, "wait") \/ At(r, "tx") \/ At(r, "commit")
  /\ RolledBack(r, "error")

\* The answer arrives.  It names the address if the store returned a machine.
Reply(r) ==
  /\ At(r, "reply")
  /\ told' = IF req[r].result = "ok" THEN told \cup {<<req[r].key, req[r].row.ip>>} ELSE told
  /\ req' = [req EXCEPT ![r] = NoRequest]
  /\ UNCHANGED <<db, conn, clock, heard>>

LoseReply(r) ==
  /\ At(r, "reply")
  /\ req' = [req EXCEPT ![r] = NoRequest]
  /\ UNCHANGED <<db, conn, clock, history>>

\* The process dies, with what is not committed, and is started again.
Crash ==
  /\ conn' = Nobody
  /\ req' = [r \in Slots |-> NoRequest]
  /\ UNCHANGED <<db, clock, history>>

Tick ==
  /\ clock < MaxClock
  /\ clock' = clock + 1
  /\ UNCHANGED <<db, serving, history>>

Step(r) == \/ Accept(r) \/ Begin(r)
           \/ RegisterKnown(r) \/ RegisterNew(r) \/ PoolExhausted(r)
           \/ Sync(r) \/ SyncNotFound(r)
           \/ Commit(r) \/ Fail(r) \/ Reply(r) \/ LoseReply(r)

Next == Crash \/ Tick \/ \E r \in Slots : Step(r)

Spec == Init /\ [][Next]_vars

-----------------------------------------------------------------------------
(* Properties *)

\* No two machines have the same address.  The model has no UNIQUE constraint
\* on vpn_ip (store.go:34): as this holds without it, it never fails an INSERT.
AddressesUnique ==
  \A k, l \in Enrolled : db[k].ip = db[l].ip => k = l

\* Through lost answers, retries, crashes and requests that overtake one
\* another, the server keeps the promise of AddressLedger.
Ledger == INSTANCE AddressLedger
  WITH Machines <- Keys, Addresses <- Hosts, Nothing <- NoRow,
       ledger <- [k \in Keys |-> IF db[k] = NoRow THEN NoRow ELSE db[k].ip]

KeepsLedger == Ledger!LedgerSpec

\* What a request in the last stage is about to be answered.
AnswerNow(r) ==
  IF At(r, "reply")
    THEN [op |-> req[r].op, key |-> req[r].key, result |-> req[r].result, row |-> req[r].row,
          peers |-> IF req[r].result = "ok" THEN req[r].peers ELSE {}]
    ELSE NoRequest

\* Requests do not get in each other's way: each takes its effect, and what it
\* is answered, from the table in one step, as Directory does, although it
\* reads, lists and commits in several, and others come, fail and end between.
Atomic == INSTANCE Directory
  WITH Machines <- Keys, Addresses <- Hosts, Times <- 0 .. MaxClock, Callers <- Slots,
       NoAnswer <- NoRequest, table <- db, answer <- [r \in Slots |-> AnswerNow(r)]

ServesAtomically == Atomic!DirectorySpec

\* A machine is refused for want of an address only if every address that can
\* be given out belongs to another machine.
FullMeansFull ==
  \A r \in Slots : (At(r, "reply") /\ req[r].result = "full") =>
     db[req[r].key] = NoRow /\ Used = Hosts

\* An older request that is committed late takes a machine's row back in time,
\* but by no more than a request may last.
RowsAreRecent ==
  \A k \in Enrolled : db[k].seen >= heard[k] - ReqTimeout

\* So a machine is in every list whose caller asks within the peer timeout less
\* that time after the machine's newest request.
HeardIsListed ==
  \A r \in Slots : (At(r, "commit") /\ req[r].op = "sync") =>
     \A k \in Keys \ {req[r].key} :
        heard[k] >= req[r].at - PeerTimeout + ReqTimeout => k \in req[r].peers
=============================================================================
