-------------------------- MODULE CoordStoreProofs --------------------------
(***************************************************************************)
(* What TLAPS proves of the coordination server for every set of machines  *)
(* and every number of requests at once, for every range, timeout and      *)
(* length of time: the addresses it gives out.                             *)
(***************************************************************************)
EXTENDS CoordStore, FiniteSetTheorems, TLAPS

(***************************************************************************)
(* The address range.                                                      *)
(***************************************************************************)

LEMMA FreeAreHosts == Free \subseteq Hosts \ Used
  BY StoreAssumption DEF Free, Hosts, InRange, Reserved, reservedHosts

\* A set of numbers up to n has a smallest element: the sets of its elements
\* up to some element are finite, so one of them is minimal.
LEMMA HasMinimum ==
  ASSUME NEW n \in Nat, NEW S, S \subseteq 1 .. n, S # {}
  PROVE  \E a \in S : \A b \in S : a <= b
<1> DEFINE UpTo(a) == {b \in S : b <= a}
           T == {UpTo(a) : a \in S}
<1>1. IsFiniteSet(S)
  <2>1. IsFiniteSet(1 .. n)
    BY FS_Interval
  <2> QED
    BY <2>1, FS_Subset
<1>2. T \subseteq FiniteSubsetsOf(S) /\ T # {}
  <2>1. \A X \in SUBSET S : X \in FiniteSubsetsOf(S)
    BY <1>1, FS_Subset DEF FiniteSubsetsOf
  <2>2. \A a : UpTo(a) \in SUBSET S
    OBVIOUS
  <2> HIDE DEF UpTo
  <2> QED
    BY <2>1, <2>2
<1>3. IsWellFoundedOn(StrictSubsetOrdering(S), FiniteSubsetsOf(S))
  BY FS_StrictSubsetOrderingWellFounded
<1>4. PICK X \in T : \A Y \in T : ~ (<<Y, X>> \in StrictSubsetOrdering(S))
  <2> HIDE DEF T
  <2> QED
    BY <1>2, <1>3, WFMin
<1>5. PICK a \in S : X = UpTo(a)
  BY DEF T
<1>6. SUFFICES ASSUME NEW b \in S, b < a
               PROVE  FALSE
  <2>1. S \subseteq Int
    OBVIOUS
  <2> QED
    BY <2>1
<1>7. UpTo(b) \subseteq UpTo(a) /\ a \in UpTo(a) /\ a \notin UpTo(b)
  <2>1. S \subseteq Int
    OBVIOUS
  <2>2. \A c \in S : c <= b => c <= a
    BY <1>6, <2>1
  <2>3. a <= a /\ ~ (a <= b)
    BY <1>6, <2>1
  <2> QED
    BY <2>2, <2>3
<1>8. <<UpTo(b), X>> \in StrictSubsetOrdering(S)
  BY <1>5, <1>7 DEF StrictSubsetOrdering
<1> QED
  BY <1>4, <1>8

LEMMA NextFreeIsFree ==
  ASSUME Free # {}
  PROVE  NextFreeIP \in Free
<1>1. Free \subseteq 1 .. RangeSize /\ RangeSize \in Nat
  BY StoreAssumption DEF Free
<1>2. \E a \in Free : \A b \in Free : a <= b
  BY <1>1, HasMinimum
<1> QED
  BY <1>2 DEF NextFreeIP

(***************************************************************************)
(* The inductive invariant.  The request that has the connection is the    *)
(* only one in a transaction, so the row it is about to commit still fits  *)
(* the table, and an answer names the address that the table has.          *)
(***************************************************************************)

OneAtWork == \A r \in Slots : (At(r, "tx") \/ At(r, "commit")) => conn = r

RowFits(q) ==
  /\ q.row \in Row
  /\ IF db[q.key] = NoRow THEN q.row.ip \notin Used ELSE q.row.ip = db[q.key].ip

AnswerFits(q) ==
  /\ db[q.key] # NoRow
  /\ q.row \in Row /\ q.row.ip = db[q.key].ip

RowsFit == \A r \in Slots : At(r, "commit") => RowFits(req[r])

AnswersFit ==
  \A r \in Slots : (At(r, "reply") /\ req[r].result = "ok") => AnswerFits(req[r])

IInv == TypeOK /\ AddressesUnique /\ OneAtWork /\ RowsFit /\ AnswersFit

LEMMA IInvInit == Init => IInv
  BY StoreAssumption
     DEF Init, IInv, TypeOK, AddressesUnique, Enrolled, OneAtWork, RowsFit, AnswersFit, At

\* A step of one request that leaves the table alone.
LEMMA RequestStep ==
  ASSUME IInv, NEW r \in Slots, NEW q \in Request \cup {NoRequest},
         req' = [req EXCEPT ![r] = q],
         UNCHANGED <<db, clock, heard>>,
         told' \subseteq Keys \X Hosts,
         conn' \in {conn, Nobody, r},
         conn' # conn => conn \in {Nobody, r},
         q # NoRequest =>
           /\ q.stage \in {"tx", "commit"} => conn' = r
           /\ q.stage = "commit" => RowFits(q)
           /\ q.stage = "reply" /\ q.result = "ok" => AnswerFits(q)
  PROVE  IInv'
<1> USE DEF IInv
<1>1. TypeOK'
  BY DEF TypeOK
<1>2. AddressesUnique'
  BY DEF AddressesUnique, Enrolled
<1>3. req'[r] = q /\ \A s \in Slots \ {r} : req'[s] = req[s]
  BY DEF TypeOK
<1>4. OneAtWork'
  BY <1>3, StoreAssumption DEF OneAtWork, At
<1>5. RowsFit'
  BY <1>3 DEF RowsFit, RowFits, At, Used, Enrolled
<1>6. AnswersFit'
  BY <1>3 DEF AnswersFit, AnswerFits, At
<1> QED
  BY <1>1, <1>2, <1>4, <1>5, <1>6

LEMMA AtType ==
  ASSUME TypeOK, NEW r \in Slots, NEW stage, At(r, stage)
  PROVE  req[r] \in Request /\ req[r].stage = stage
  BY DEF TypeOK, At

LEMMA RolledBackStep ==
  ASSUME IInv, NEW r \in Slots, req[r] \in Request,
         NEW result \in {"unknown", "full", "error"}, RolledBack(r, result)
  PROVE  IInv'
<1> DEFINE q == [req[r] EXCEPT !.stage = "reply", !.row = NoRow, !.result = result]
<1>1. q \in Request /\ q # NoRequest
  BY StoreAssumption DEF Request
<1>2. q.stage = "reply" /\ q.result # "ok"
  BY DEF Request
<1>3. req' = [req EXCEPT ![r] = q]
  BY DEF RolledBack
<1>4. told' \subseteq Keys \X Hosts /\ conn' \in {conn, Nobody}
  BY DEF RolledBack, history, IInv, TypeOK
<1>5. conn' # conn => conn = r
  BY DEF RolledBack
<1> HIDE DEF q
<1> QED
  BY <1>1, <1>2, <1>3, <1>4, <1>5, RequestStep DEF RolledBack, history

LEMMA WroteStep ==
  ASSUME IInv, NEW r \in Slots, NEW row, NEW peers \in SUBSET Keys, At(r, "tx"),
         req' = [req EXCEPT ![r].stage = "commit", ![r].row = row, ![r].peers = peers],
         UNCHANGED <<db, conn, clock, history>>,
         row \in Row,
         IF db[req[r].key] = NoRow THEN row.ip \notin Used ELSE row.ip = db[req[r].key].ip
  PROVE  IInv'
<1> DEFINE q == [req[r] EXCEPT !.stage = "commit", !.row = row, !.peers = peers]
<1>1. req[r] \in Request /\ conn = r
  BY AtType DEF IInv, OneAtWork
<1>2. q \in Request /\ q # NoRequest
  BY <1>1, StoreAssumption DEF Request
<1>3. q.stage = "commit" /\ RowFits(q)
  BY <1>1 DEF Request, RowFits
<1>4. req' = [req EXCEPT ![r] = q]
  OBVIOUS
<1>5. told' \subseteq Keys \X Hosts
  BY DEF history, IInv, TypeOK
<1> HIDE DEF q
<1> QED
  BY <1>1, <1>2, <1>3, <1>4, <1>5, RequestStep DEF history

LEMMA RegisterKnownStep ==
  ASSUME IInv, NEW r \in Slots, RegisterKnown(r)
  PROVE  IInv'
<1> DEFINE k == req[r].key
           row == [db[k] EXCEPT !.seen = req[r].at]
<1>1. At(r, "tx") /\ req[r] \in Request
  BY AtType DEF IInv, RegisterKnown, Working
<1>2. k \in Keys /\ req[r].at \in 0 .. MaxClock /\ req[r].peers \in SUBSET Keys
  BY <1>1 DEF Request
<1>3. db[k] \in Row /\ db[k] # NoRow
  BY <1>2 DEF RegisterKnown, IInv, TypeOK
<1>4. row \in Row /\ row.ip = db[k].ip
  BY <1>2, <1>3 DEF Row
<1>5. /\ req' = [req EXCEPT ![r].stage = "commit", ![r].row = row,
                            ![r].peers = req[r].peers]
      /\ UNCHANGED <<db, conn, clock, history>>
  BY <1>1 DEF RegisterKnown, Wrote, Request, IInv, TypeOK
<1> HIDE DEF row
<1> QED
  BY <1>1, <1>2, <1>3, <1>4, <1>5, WroteStep

LEMMA RegisterNewStep ==
  ASSUME IInv, NEW r \in Slots, RegisterNew(r)
  PROVE  IInv'
<1> DEFINE row == [ip |-> NextFreeIP, seen |-> req[r].at]
<1>1. At(r, "tx") /\ req[r] \in Request
  BY AtType DEF IInv, RegisterNew, Working
<1>2. req[r].at \in 0 .. MaxClock /\ req[r].peers \in SUBSET Keys
  BY <1>1 DEF Request
<1>3. NextFreeIP \in Hosts \ Used
  BY NextFreeIsFree, FreeAreHosts DEF RegisterNew
<1>4. row \in Row /\ row.ip \notin Used
  BY <1>2, <1>3 DEF Row
<1>5. /\ req' = [req EXCEPT ![r].stage = "commit", ![r].row = row,
                            ![r].peers = req[r].peers]
      /\ UNCHANGED <<db, conn, clock, history>>
  BY <1>1 DEF RegisterNew, Wrote, Request, IInv, TypeOK
<1>6. db[req[r].key] = NoRow
  BY DEF RegisterNew
<1> HIDE DEF row
<1> QED
  BY <1>1, <1>2, <1>4, <1>5, <1>6, WroteStep

LEMMA SyncStep ==
  ASSUME IInv, NEW r \in Slots, Sync(r)
  PROVE  IInv'
<1> DEFINE k == req[r].key
           row == [db[k] EXCEPT !.seen = req[r].at]
           peers == {l \in Enrolled \ {k} : db[l].seen >= req[r].at - PeerTimeout}
<1>1. At(r, "tx") /\ req[r] \in Request
  BY AtType DEF IInv, Sync, Working
<1>2. k \in Keys /\ req[r].at \in 0 .. MaxClock
  BY <1>1 DEF Request
<1>3. db[k] \in Row /\ db[k] # NoRow
  BY <1>2 DEF Sync, IInv, TypeOK
<1>4. row \in Row /\ row.ip = db[k].ip
  BY <1>2, <1>3 DEF Row
<1>5. peers \in SUBSET Keys
  BY DEF Enrolled
<1>6. /\ req' = [req EXCEPT ![r].stage = "commit", ![r].row = row, ![r].peers = peers]
      /\ UNCHANGED <<db, conn, clock, history>>
  BY DEF Sync
<1> HIDE DEF row, peers
<1> QED
  BY <1>1, <1>3, <1>4, <1>5, <1>6, WroteStep

LEMMA CommitStep ==
  ASSUME IInv, NEW r \in Slots, Commit(r)
  PROVE  IInv'
<1> DEFINE k == req[r].key
           q == [req[r] EXCEPT !.stage = "reply", !.result = "ok"]
<1>1. At(r, "commit") /\ req[r] \in Request /\ RowFits(req[r]) /\ conn = r
  BY AtType DEF IInv, Commit, RowsFit, OneAtWork
<1>2. k \in Keys /\ req[r].at \in 0 .. MaxClock /\ req[r].row \in Row
  BY <1>1 DEF Request, RowFits
<1>3. /\ q \in Request /\ q # NoRequest
      /\ q.stage = "reply" /\ q.key = k /\ q.row = req[r].row
  BY <1>1, StoreAssumption DEF Request
<1>4. /\ req' = [req EXCEPT ![r] = q]
      /\ db' = [db EXCEPT ![k] = req[r].row]
      /\ conn' = Nobody /\ UNCHANGED <<clock, told>>
  BY DEF Commit
<1>5. req' \in [Slots -> Request \cup {NoRequest}] /\ db' \in [Keys -> Row \cup {NoRow}]
  BY <1>2, <1>3, <1>4 DEF IInv, TypeOK
<1>6. heard' \in [Keys -> 0 .. MaxClock \cup {Never}]
  BY <1>2 DEF Commit, IInv, TypeOK
<1>7. TypeOK'
  BY <1>4, <1>5, <1>6 DEF IInv, TypeOK
<1>8. /\ db'[k] = req[r].row /\ \A l \in Keys \ {k} : db'[l] = db[l]
      /\ req'[r] = q /\ \A s \in Slots \ {r} : req'[s] = req[s]
  BY <1>2, <1>4 DEF IInv, TypeOK
<1>9. db[k] = NoRow => \A l \in Keys : db[l] # NoRow => db[l].ip # req[r].row.ip
  BY <1>1 DEF RowFits, Used, Enrolled
<1>10. db[k] # NoRow => db'[k].ip = db[k].ip
  BY <1>1, <1>8 DEF RowFits
<1>11. db'[k] \in Row /\ db'[k] # NoRow
  BY <1>2, <1>8, StoreAssumption
<1>12. AddressesUnique'
  BY <1>2, <1>8, <1>9, <1>10 DEF IInv, AddressesUnique, Enrolled
<1>13. \A s \in Slots : ~ At(s, "tx")' /\ ~ At(s, "commit")'
  BY <1>1, <1>3, <1>8 DEF At, IInv, OneAtWork
<1>14. AnswersFit'
  <2> SUFFICES ASSUME NEW s \in Slots, At(s, "reply")', req'[s].result = "ok"
               PROVE  AnswerFits(req[s])'
    BY DEF AnswersFit
  <2>1. CASE s = r
    BY <2>1, <1>2, <1>3, <1>8, <1>11 DEF AnswerFits
  <2>2. CASE s # r
    <3>1. req'[s] = req[s] /\ AnswerFits(req[s])
      BY <2>2, <1>8 DEF At, IInv, AnswersFit
    <3>2. req[s].key \in Keys
      BY <3>1, AtType DEF At, Request, IInv, TypeOK
    <3> QED
      BY <3>1, <3>2, <1>8, <1>10, <1>11 DEF AnswerFits
  <2> QED
    BY <2>1, <2>2
<1> QED
  BY <1>7, <1>12, <1>13, <1>14 DEF IInv, OneAtWork, RowsFit

LEMMA IInvStep == IInv /\ [Next]_vars => IInv'
<1> SUFFICES ASSUME IInv, [Next]_vars
             PROVE  IInv'
  OBVIOUS
<1>1. CASE UNCHANGED vars
  BY <1>1 DEF vars, serving, history, IInv, TypeOK, AddressesUnique, Enrolled, OneAtWork,
              RowsFit, RowFits, Used, AnswersFit, AnswerFits, At
<1>2. CASE Crash
  BY <1>2, StoreAssumption
     DEF Crash, history, IInv, TypeOK, AddressesUnique, Enrolled, OneAtWork, RowsFit,
         AnswersFit, At
<1>3. CASE Tick
  <2>1. clock' \in 0 .. MaxClock
    BY <1>3, StoreAssumption DEF Tick, IInv, TypeOK
  <2> QED
    BY <1>3, <2>1
       DEF Tick, serving, history, IInv, TypeOK, AddressesUnique, Enrolled, OneAtWork,
           RowsFit, RowFits, Used, AnswersFit, AnswerFits, At
<1>4. ASSUME NEW r \in Slots, Accept(r)
      PROVE  IInv'
  <2>1. PICK op \in {"register", "sync"}, k \in Keys :
          req' = [req EXCEPT ![r] = [op |-> op, key |-> k, at |-> clock, stage |-> "wait",
                                     row |-> NoRow, peers |-> {}, result |-> "error"]]
    BY <1>4 DEF Accept
  <2> DEFINE q == [op |-> op, key |-> k, at |-> clock, stage |-> "wait",
                   row |-> NoRow, peers |-> {}, result |-> "error"]
  <2>2. q \in Request /\ q.stage = "wait"
    BY DEF Request, IInv, TypeOK
  <2>3. req' = [req EXCEPT ![r] = q] /\ UNCHANGED <<db, conn, clock, history>>
    BY <1>4, <2>1 DEF Accept
  <2>4. told' \subseteq Keys \X Hosts
    BY <2>3 DEF history, IInv, TypeOK
  <2> HIDE DEF q
  <2> QED
    BY <2>2, <2>3, <2>4, RequestStep DEF history
<1>5. ASSUME NEW r \in Slots, Begin(r)
      PROVE  IInv'
  <2> DEFINE q == [req[r] EXCEPT !.stage = "tx"]
  <2>1. req[r] \in Request
    BY <1>5, AtType DEF Begin, IInv
  <2>2. q \in Request /\ q.stage = "tx"
    BY <2>1 DEF Request
  <2>3. /\ req' = [req EXCEPT ![r] = q] /\ UNCHANGED <<db, clock, history>>
        /\ conn = Nobody /\ conn' = r
    BY <1>5 DEF Begin
  <2>4. told' \subseteq Keys \X Hosts
    BY <2>3 DEF history, IInv, TypeOK
  <2> HIDE DEF q
  <2> QED
    BY <2>2, <2>3, <2>4, RequestStep DEF history
<1>6. ASSUME NEW r \in Slots, PoolExhausted(r) \/ SyncNotFound(r) \/ Fail(r)
      PROVE  IInv'
  <2>1. req[r] \in Request
    BY <1>6, AtType DEF PoolExhausted, SyncNotFound, Working, Fail, IInv
  <2> QED
    BY <1>6, <2>1, RolledBackStep DEF PoolExhausted, SyncNotFound, Fail
<1>7. ASSUME NEW r \in Slots, Reply(r) \/ LoseReply(r)
      PROVE  IInv'
  <2>1. req[r] \in Request /\ At(r, "reply")
    BY <1>7, AtType DEF Reply, LoseReply, IInv
  <2>2. req[r].result = "ok" => <<req[r].key, req[r].row.ip>> \in Keys \X Hosts
    BY <2>1 DEF IInv, AnswersFit, AnswerFits, Request, Row
  <2>3. told' \subseteq Keys \X Hosts
    BY <1>7, <2>2 DEF Reply, LoseReply, history, IInv, TypeOK
  <2>4. req' = [req EXCEPT ![r] = NoRequest] /\ UNCHANGED <<db, conn, clock, heard>>
    BY <1>7 DEF Reply, LoseReply, history
  <2> QED
    BY <2>3, <2>4, RequestStep
<1> QED
  BY <1>1, <1>2, <1>3, <1>4, <1>5, <1>6, <1>7,
     RegisterKnownStep, RegisterNewStep, SyncStep, CommitStep DEF Next, Step

LEMMA Invariance == Spec => []IInv
  BY IInvInit, IInvStep, PTL DEF Spec

\* The variables of the server hold what the code puts in them; with it, every
\* address in the table is one of the range's hosts (NextFreeIP, ipam.go:38).
THEOREM TypeCorrect == Spec => []TypeOK
<1>1. IInv => TypeOK
  BY DEF IInv
<1> QED
  BY <1>1, Invariance, PTL

\* No two machines ever have the same address, so the UNIQUE constraint of the
\* table (store.go:34) never makes an enrolment fail.
THEOREM NoSharedAddress == Spec => []AddressesUnique
<1>1. IInv => AddressesUnique
  BY DEF IInv
<1> QED
  BY <1>1, Invariance, PTL

(***************************************************************************)
(* The promise about addresses.  Of the steps of the server only a commit  *)
(* changes the ledger and only an answer tells an address.                 *)
(***************************************************************************)

LedgerNow == [k \in Keys |-> IF db[k] = NoRow THEN NoRow ELSE db[k].ip]

LEMMA CommitKeepsLedger ==
  ASSUME IInv, NEW r \in Slots, Commit(r)
  PROVE  \/ LedgerNow' = LedgerNow
         \/ \E a \in Hosts : Ledger!Assign(req[r].key, a)
<1> DEFINE k == req[r].key
           a == req[r].row.ip
<1>1. At(r, "commit") /\ req[r] \in Request /\ RowFits(req[r])
  BY AtType DEF IInv, Commit, RowsFit
<1>2. k \in Keys /\ a \in Hosts /\ req[r].row # NoRow
  BY <1>1, StoreAssumption DEF Request, RowFits, Row
<1>3. db'[k] = req[r].row /\ \A l \in Keys \ {k} : db'[l] = db[l]
  BY <1>2 DEF Commit, IInv, TypeOK
<1>4. CASE db[k] # NoRow
  <2>1. db'[k] # NoRow /\ db'[k].ip = db[k].ip
    BY <1>1, <1>2, <1>3, <1>4 DEF RowFits
  <2>2. LedgerNow' = LedgerNow
    BY <1>3, <1>4, <2>1 DEF LedgerNow
  <2> QED
    BY <2>2
<1>5. CASE db[k] = NoRow
  <2>1. LedgerNow[k] = NoRow
    BY <1>2, <1>5 DEF LedgerNow
  <2>2. \A l \in Keys : LedgerNow[l] # a
    BY <1>1, <1>2, <1>5, StoreAssumption DEF LedgerNow, RowFits, Used, Enrolled
  <2>3. LedgerNow' = [LedgerNow EXCEPT ![k] = a]
    BY <1>2, <1>3 DEF LedgerNow
  <2>4. UNCHANGED told
    BY DEF Commit
  <2> QED
    BY <1>2, <2>1, <2>2, <2>3, <2>4 DEF LedgerNow, Ledger!Assign
<1> QED
  BY <1>4, <1>5

LEMMA ReplyKeepsLedger ==
  ASSUME IInv, NEW r \in Slots, Reply(r)
  PROVE  UNCHANGED <<LedgerNow, told>> \/ Ledger!Tell(req[r].key)
<1>1. At(r, "reply") /\ req[r] \in Request /\ UNCHANGED db
  BY AtType DEF IInv, Reply
<1>2. UNCHANGED LedgerNow
  BY <1>1 DEF LedgerNow
<1>3. CASE req[r].result = "ok"
  <2>1. AnswerFits(req[r]) /\ req[r].key \in Keys
    BY <1>1, <1>3 DEF IInv, AnswersFit, Request
  <2>2. LedgerNow[req[r].key] = req[r].row.ip /\ req[r].row.ip \in Hosts
    BY <2>1 DEF AnswerFits, LedgerNow, Row
  <2>3. LedgerNow[req[r].key] # NoRow
    BY <2>2, StoreAssumption
  <2>4. told' = told \cup {<<req[r].key, LedgerNow[req[r].key]>>}
    BY <1>3, <2>2 DEF Reply
  <2> QED
    BY <1>2, <2>3, <2>4 DEF LedgerNow, Ledger!Tell
<1>4. CASE req[r].result # "ok"
  BY <1>2, <1>4 DEF Reply
<1> QED
  BY <1>3, <1>4

LEMMA LedgerStep ==
  IInv /\ [Next]_vars => [Ledger!LedgerNext]_(Ledger!ledgerVars)
<1> SUFFICES ASSUME IInv, [Next]_vars
             PROVE  Ledger!LedgerNext \/ UNCHANGED <<LedgerNow, told>>
  BY DEF Ledger!ledgerVars, LedgerNow
<1>1. ASSUME NEW r \in Slots, Commit(r)
      PROVE  Ledger!LedgerNext \/ UNCHANGED <<LedgerNow, told>>
  <2>1. req[r].key \in Keys /\ UNCHANGED told
    BY <1>1, AtType DEF Commit, Request, IInv
  <2> QED
    BY <1>1, <2>1, CommitKeepsLedger DEF Ledger!LedgerNext
<1>2. ASSUME NEW r \in Slots, Reply(r)
      PROVE  Ledger!LedgerNext \/ UNCHANGED <<LedgerNow, told>>
  <2>1. req[r].key \in Keys
    BY <1>2, AtType DEF Reply, Request, IInv
  <2> QED
    BY <1>2, <2>1, ReplyKeepsLedger DEF Ledger!LedgerNext
<1>3. ASSUME UNCHANGED <<db, told>>
      PROVE  UNCHANGED <<LedgerNow, told>>
  BY <1>3 DEF LedgerNow
<1> QED
  BY <1>1, <1>2, <1>3
     DEF Next, Step, vars, history, Crash, Tick, Accept, Begin, RegisterKnown, RegisterNew,
         Wrote, PoolExhausted, Sync, SyncNotFound, Fail, RolledBack, LoseReply

\* The server, with its transactions, deadlines, lost answers and crashes,
\* implements AddressLedger: an address is given to a machine once and to one
\* machine only (RegisterMachine, store.go:96), and answers name that address.
THEOREM ServerKeepsLedger == Spec => KeepsLedger
<1>1. Init => Ledger!LedgerInit
  BY DEF Init, Ledger!LedgerInit
<1> QED
  BY <1>1, Invariance, LedgerStep, PTL DEF Spec, KeepsLedger, Ledger!LedgerSpec

LedgerFacts == INSTANCE AddressLedgerProofs
  WITH Machines <- Keys, Addresses <- Hosts, Nothing <- NoRow,
       ledger <- [k \in Keys |-> IF db[k] = NoRow THEN NoRow ELSE db[k].ip]

\* Of all the answers machines ever got, before and after crashes and retries,
\* two name the same address exactly when they went to the same machine.
THEOREM AnswersAgreeForever == Spec => []Ledger!AnswersAgree
<1>1. LedgerFacts!LedgerSpec => []LedgerFacts!AnswersAgree
  <2>1. NoRow \notin Hosts
    BY StoreAssumption
  <2> QED
    BY <2>1, LedgerFacts!LedgerAnswersAgree
<1>2. Ledger!LedgerInit => LedgerFacts!LedgerInit
  BY DEF Ledger!LedgerInit, LedgerFacts!LedgerInit
<1>3. [Ledger!LedgerNext]_(Ledger!ledgerVars) => [LedgerFacts!LedgerNext]_(LedgerFacts!ledgerVars)
  BY DEF Ledger!LedgerNext, Ledger!ledgerVars, Ledger!Tell, Ledger!Assign,
         LedgerFacts!LedgerNext, LedgerFacts!ledgerVars, LedgerFacts!Tell, LedgerFacts!Assign
<1>4. LedgerFacts!AnswersAgree => Ledger!AnswersAgree
  BY DEF LedgerFacts!AnswersAgree, Ledger!AnswersAgree
<1> QED
  BY <1>1, <1>2, <1>3, <1>4, ServerKeepsLedger, PTL
     DEF KeepsLedger, Ledger!LedgerSpec, LedgerFacts!LedgerSpec

(***************************************************************************)
(* A full range stays full: nobody gives an address back.                  *)
(***************************************************************************)

LEMMA NoneFree ==
  ASSUME TypeOK, Free = {}
  PROVE  Used = Hosts
<1>1. Hosts \subseteq Used
  BY StoreAssumption DEF Free, Hosts, InRange, Reserved, reservedHosts
<1>2. Used \subseteq Hosts
  BY StoreAssumption DEF Used, Enrolled, TypeOK, Row
<1> QED
  BY <1>1, <1>2

LEMMA FullStep == IInv /\ FullMeansFull /\ [Next]_vars => FullMeansFull'
<1> SUFFICES ASSUME IInv, FullMeansFull, [Next]_vars, NEW s \in Slots,
                    At(s, "reply")', req'[s].result = "full"
             PROVE  (db[req[s].key] = NoRow /\ Used = Hosts)'
  BY DEF FullMeansFull
<1>1. CASE PoolExhausted(s)
  <2>1. req[s] \in Request /\ db[req[s].key] = NoRow /\ UNCHANGED db
    BY <1>1, AtType DEF PoolExhausted, Working, RolledBack, IInv
  <2>2. req'[s].key = req[s].key
    BY <1>1, <2>1 DEF PoolExhausted, RolledBack, Request, IInv, TypeOK
  <2>3. Used = Hosts
    BY <1>1, NoneFree DEF PoolExhausted, IInv
  <2> QED
    BY <2>1, <2>2, <2>3 DEF Used, Enrolled
<1>2. CASE req'[s] = req[s]
  <2>1. db[req[s].key] = NoRow /\ Used = Hosts
    BY <1>2 DEF At, FullMeansFull
  <2>2. ASSUME NEW r \in Slots, Commit(r)
        PROVE  db'[req[s].key] = NoRow /\ Used' = Hosts
    <3> DEFINE k == req[r].key
    <3>1. req[r] \in Request /\ RowFits(req[r]) /\ k \in Keys
      BY <2>2, AtType DEF IInv, Commit, RowsFit, Request
    <3>2. db[k] # NoRow /\ req[r].row.ip = db[k].ip /\ req[r].row # NoRow
      BY <2>1, <3>1, StoreAssumption DEF RowFits, Row
    <3>3. db'[k] = req[r].row /\ \A l \in Keys \ {k} : db'[l] = db[l]
      BY <2>2, <3>1 DEF Commit, IInv, TypeOK
    <3>4. \A l \in Keys : (db'[l] = NoRow <=> db[l] = NoRow) /\ db'[l].ip = db[l].ip
      BY <3>2, <3>3
    <3>5. req[s].key \in Keys
      BY <1>2, AtType DEF At, Request, IInv, TypeOK
    <3> QED
      BY <2>1, <3>4, <3>5 DEF Used, Enrolled
  <2>3. UNCHANGED db \/ \E r \in Slots : Commit(r)
    BY DEF Next, Step, vars, Crash, Tick, Accept, Begin, RegisterKnown, RegisterNew, Wrote,
           PoolExhausted, Sync, SyncNotFound, Fail, RolledBack, Reply, LoseReply
  <2> QED
    BY <1>2, <2>1, <2>2, <2>3 DEF Used, Enrolled
<1>3. CASE ~ PoolExhausted(s) /\ req'[s] # req[s]
  <2>1. PICK r \in Slots : Step(r)
    BY <1>3 DEF Next, vars, serving, Crash, Tick, At
  <2>2. r = s
    BY <1>3, <2>1
       DEF Step, Accept, Begin, RegisterKnown, RegisterNew, Wrote, PoolExhausted, Sync,
           SyncNotFound, Commit, Fail, RolledBack, Reply, LoseReply, IInv, TypeOK
  <2>3. req'[s] # NoRequest /\ req'[s].stage = "reply" /\ s \in DOMAIN req
    BY DEF At, IInv, TypeOK
  <2>4. CASE Commit(s) \/ Fail(s) \/ SyncNotFound(s)
    <3>1. req[s] \in Request
      BY <2>4, AtType DEF Commit, Fail, SyncNotFound, Working, IInv
    <3>2. CASE Commit(s)
      <4>1. req'[s] = [req[s] EXCEPT !.stage = "reply", !.result = "ok"]
        BY <2>3, <3>2 DEF Commit
      <4> QED
        BY <3>1, <4>1 DEF Request
    <3>3. ASSUME NEW result \in {"error", "unknown"}, RolledBack(s, result)
          PROVE  FALSE
      <4>1. req'[s] = [req[s] EXCEPT !.stage = "reply", !.row = NoRow, !.result = result]
        BY <2>3, <3>3 DEF RolledBack
      <4> QED
        BY <3>1, <4>1 DEF Request
    <3> QED
      BY <2>4, <3>2, <3>3 DEF Fail, SyncNotFound
  <2>5. CASE Accept(s) \/ Reply(s) \/ LoseReply(s)
    BY <2>3, <2>5 DEF Accept, Reply, LoseReply
  <2>6. CASE Begin(s) \/ RegisterKnown(s) \/ RegisterNew(s) \/ Sync(s)
    <3>1. req[s] \in Request
      BY <2>6, AtType DEF Begin, RegisterKnown, RegisterNew, Sync, Working, IInv
    <3>2. req'[s].stage \in {"tx", "commit"}
      BY <2>3, <2>6, <3>1 DEF Begin, RegisterKnown, RegisterNew, Wrote, Sync, Request
    <3> QED
      BY <2>3, <3>2
  <2> QED
    BY <1>3, <2>1, <2>2, <2>4, <2>5, <2>6 DEF Step
<1> QED
  BY <1>1, <1>2, <1>3

\* A machine is told that the range is full only if every address of it belongs
\* to some other machine, and then this stays so (NextFreeIP, ipam.go:55).
THEOREM FullIsFull == Spec => []FullMeansFull
<1>1. Init => FullMeansFull
  BY DEF Init, FullMeansFull, At
<1> QED
  BY <1>1, Invariance, FullStep, PTL DEF Spec

(***************************************************************************)
(* How old what the table says of a machine may be.                        *)
(***************************************************************************)

ListsHeard(q) ==
  \A k \in Keys \ {q.key} : heard[k] >= q.at - PeerTimeout + ReqTimeout => k \in q.peers

\* Requests are not from the future, a row is as old as the request it is from,
\* and who was heard is in the table.
TimeInv ==
  /\ \A r \in Slots : req[r] # NoRequest => req[r].at <= clock
  /\ \A r \in Slots : At(r, "commit") => req[r].row.seen = req[r].at
  /\ \A k \in Keys : heard[k] # Never => heard[k] <= clock /\ db[k] # NoRow
  /\ RowsAreRecent
  /\ HeardIsListed

LEMMA TimeOfRequest ==
  ASSUME IInv, TimeInv, NEW r \in Slots, NEW q \in Request \cup {NoRequest},
         req' = [req EXCEPT ![r] = q], UNCHANGED <<db, clock, heard>>,
         q # NoRequest =>
           /\ q.at <= clock
           /\ q.stage = "commit" => q.row.seen = q.at
           /\ (q.stage = "commit" /\ q.op = "sync") => ListsHeard(q)
  PROVE  TimeInv'
<1>1. req'[r] = q /\ \A s \in Slots \ {r} : req'[s] = req[s]
  BY DEF IInv, TypeOK
<1>2. RowsAreRecent'
  BY DEF TimeInv, RowsAreRecent, Enrolled
<1>3. HeardIsListed'
  BY <1>1 DEF TimeInv, HeardIsListed, ListsHeard, At
<1> QED
  BY <1>1, <1>2, <1>3 DEF TimeInv, At

LEMMA TimeOfSync ==
  ASSUME IInv, TimeInv, NEW r \in Slots, Sync(r)
  PROVE  TimeInv'
<1> DEFINE k == req[r].key
           row == [db[k] EXCEPT !.seen = req[r].at]
           peers == {l \in Enrolled \ {k} : db[l].seen >= req[r].at - PeerTimeout}
           q == [req[r] EXCEPT !.stage = "commit", !.row = row, !.peers = peers]
<1>1. req[r] \in Request /\ req[r].at <= clock /\ k \in Keys /\ req[r].at \in 0 .. MaxClock
  BY AtType DEF IInv, TimeInv, Sync, Working, At, Request
<1>2. db[k] \in Row
  BY <1>1 DEF Sync, IInv, TypeOK
<1>3. row \in Row /\ row.seen = req[r].at
  BY <1>1, <1>2 DEF Row
<1>4. peers \in SUBSET Keys
  BY DEF Enrolled
<1>5. ASSUME NEW l \in Keys \ {k}, heard[l] >= req[r].at - PeerTimeout + ReqTimeout
      PROVE  l \in peers
  <2>1. heard[l] # Never
    BY <1>1, <1>5, StoreAssumption
  <2>2. heard[l] \in Int /\ db[l] \in Row /\ l \in Enrolled
    BY <2>1, StoreAssumption DEF IInv, TypeOK, TimeInv, Enrolled
  <2>3. db[l].seen \in Int /\ db[l].seen >= heard[l] - ReqTimeout
    BY <2>2 DEF Row, TimeInv, RowsAreRecent
  <2> QED
    BY <1>1, <1>5, <2>2, <2>3, StoreAssumption
<1> HIDE DEF peers, row
<1>6. /\ q \in Request /\ q.key = k /\ q.at = req[r].at
      /\ q.row = row /\ q.peers = peers
  BY <1>1, <1>3, <1>4 DEF Request
<1>7. ListsHeard(q)
  BY <1>5, <1>6 DEF ListsHeard
<1>8. req' = [req EXCEPT ![r] = q] /\ UNCHANGED <<db, clock, heard>>
  BY DEF Sync, history, row, peers
<1> HIDE DEF q
<1> QED
  BY <1>1, <1>3, <1>6, <1>7, <1>8, TimeOfRequest

LEMMA TimeOfCommit ==
  ASSUME IInv, TimeInv, NEW r \in Slots, Commit(r)
  PROVE  TimeInv'
<1> DEFINE k == req[r].key
           at == req[r].at
<1>1. /\ req[r] \in Request /\ RowFits(req[r]) /\ conn = r
      /\ at <= clock /\ clock <= at + ReqTimeout /\ req[r].row.seen = at
  BY AtType DEF IInv, TimeInv, Commit, InTime, RowsFit, OneAtWork, At
<1>2. /\ k \in Keys /\ at \in 0 .. MaxClock /\ clock \in 0 .. MaxClock
      /\ req[r].row # NoRow /\ req[r].row \in Row
  BY <1>1, StoreAssumption DEF Request, RowFits, IInv, TypeOK
<1>3. /\ db'[k] = req[r].row /\ \A l \in Keys \ {k} : db'[l] = db[l]
      /\ heard'[k] = (IF at > heard[k] THEN at ELSE heard[k])
      /\ \A l \in Keys \ {k} : heard'[l] = heard[l]
      /\ UNCHANGED clock
  BY <1>2 DEF Commit, IInv, TypeOK
<1>4. \A s \in Slots : ~ At(s, "commit")'
  <2>1. \A s \in Slots \ {r} : req'[s] = req[s] /\ ~ At(s, "commit")
    BY <1>1 DEF Commit, IInv, TypeOK, OneAtWork
  <2>2. req'[r] = [req[r] EXCEPT !.stage = "reply", !.result = "ok"]
    BY DEF Commit, IInv, TypeOK
  <2>3. req'[r].stage = "reply"
    BY <1>1, <2>2 DEF Request
  <2> QED
    BY <2>1, <2>3 DEF At
<1>5. \A s \in Slots : req'[s] # NoRequest => req'[s].at <= clock'
  <2>1. \A s \in Slots \ {r} : req'[s] = req[s]
    BY DEF Commit, IInv, TypeOK
  <2>2. req'[r] = [req[r] EXCEPT !.stage = "reply", !.result = "ok"]
    BY DEF Commit, IInv, TypeOK
  <2>3. req'[r].at = at
    BY <1>1, <2>2 DEF Request
  <2> QED
    BY <1>1, <1>3, <2>1, <2>3 DEF TimeInv
<1>6. \A l \in Keys : heard'[l] # Never => heard'[l] <= clock' /\ db'[l] # NoRow
  BY <1>1, <1>2, <1>3 DEF TimeInv
<1>7. RowsAreRecent'
  <2> SUFFICES ASSUME NEW l \in Keys, db'[l] # NoRow
               PROVE  db'[l].seen >= heard'[l] - ReqTimeout
    BY DEF RowsAreRecent, Enrolled
  <2>1. CASE l # k
    BY <2>1, <1>3 DEF TimeInv, RowsAreRecent, Enrolled
  <2>2. CASE l = k
    <3>1. heard[k] = Never \/ (heard[k] \in 0 .. MaxClock /\ heard[k] <= clock)
      BY <1>2 DEF IInv, TypeOK, TimeInv
    <3> QED
      BY <1>1, <1>2, <1>3, <2>2, <3>1, StoreAssumption
  <2> QED
    BY <2>1, <2>2
<1> QED
  BY <1>4, <1>5, <1>6, <1>7 DEF TimeInv, HeardIsListed

LEMMA TimeStep == IInv /\ TimeInv /\ [Next]_vars => TimeInv'
<1> SUFFICES ASSUME IInv, TimeInv, [Next]_vars
             PROVE  TimeInv'
  OBVIOUS
<1>1. CASE UNCHANGED vars
  BY <1>1 DEF vars, serving, history, TimeInv, At, RowsAreRecent, HeardIsListed, Enrolled
<1>2. CASE Crash
  BY <1>2 DEF Crash, history, TimeInv, At, RowsAreRecent, HeardIsListed, Enrolled
<1>3. CASE Tick
  <2>1. UNCHANGED <<db, req, heard>> /\ clock' = clock + 1 /\ clock \in Int
    BY <1>3, StoreAssumption DEF Tick, serving, history, IInv, TypeOK
  <2>2. \A r \in Slots : req[r] # NoRequest => req[r].at \in Int /\ req[r].at <= clock'
    BY <2>1 DEF IInv, TypeOK, TimeInv, Request
  <2>3. \A k \in Keys : heard[k] # Never => heard[k] <= clock' /\ db[k] # NoRow
    BY <2>1, StoreAssumption DEF IInv, TypeOK, TimeInv
  <2> QED
    BY <2>1, <2>2, <2>3 DEF TimeInv, At, RowsAreRecent, HeardIsListed, Enrolled
<1>4. ASSUME NEW r \in Slots, Accept(r)
      PROVE  TimeInv'
  <2>1. PICK op \in {"register", "sync"}, k \in Keys :
          req' = [req EXCEPT ![r] = [op |-> op, key |-> k, at |-> clock, stage |-> "wait",
                                     row |-> NoRow, peers |-> {}, result |-> "error"]]
    BY <1>4 DEF Accept
  <2> DEFINE q == [op |-> op, key |-> k, at |-> clock, stage |-> "wait",
                   row |-> NoRow, peers |-> {}, result |-> "error"]
  <2>2. q \in Request /\ q.stage = "wait" /\ q.at <= clock
    BY StoreAssumption DEF Request, IInv, TypeOK
  <2>3. req' = [req EXCEPT ![r] = q] /\ UNCHANGED <<db, clock, heard>>
    BY <1>4, <2>1 DEF Accept, history
  <2> HIDE DEF q
  <2> QED
    BY <2>2, <2>3, TimeOfRequest
<1>5. ASSUME NEW r \in Slots, Begin(r) \/ RegisterKnown(r) \/ RegisterNew(r)
                             \/ PoolExhausted(r) \/ SyncNotFound(r) \/ Fail(r)
      PROVE  TimeInv'
  <2>1. req[r] \in Request /\ req[r].at <= clock
    BY <1>5, AtType
       DEF Begin, RegisterKnown, RegisterNew, PoolExhausted, SyncNotFound, Fail, Working,
           IInv, TimeInv, At
  <2>2. UNCHANGED <<db, clock, heard>>
    BY <1>5 DEF Begin, RegisterKnown, RegisterNew, Wrote, PoolExhausted, SyncNotFound, Fail,
                RolledBack, history
  <2>3. CASE Begin(r)
    <3> DEFINE q == [req[r] EXCEPT !.stage = "tx"]
    <3>1. q \in Request /\ q.at = req[r].at /\ q.stage = "tx"
      BY <2>1 DEF Request
    <3>2. req' = [req EXCEPT ![r] = q]
      BY <2>3 DEF Begin
    <3> HIDE DEF q
    <3> QED
      BY <2>1, <2>2, <3>1, <3>2, TimeOfRequest
  <2>4. ASSUME NEW result \in {"unknown", "full", "error"}, RolledBack(r, result)
        PROVE  TimeInv'
    <3> DEFINE q == [req[r] EXCEPT !.stage = "reply", !.row = NoRow, !.result = result]
    <3>1. q \in Request /\ q.at = req[r].at /\ q.stage = "reply"
      BY <2>1 DEF Request
    <3>2. req' = [req EXCEPT ![r] = q]
      BY <2>4 DEF RolledBack
    <3> HIDE DEF q
    <3> QED
      BY <2>1, <2>2, <3>1, <3>2, TimeOfRequest
  <2>5. CASE RegisterKnown(r) \/ RegisterNew(r)
    <3>1. PICK row : row \in Row /\ row.seen = req[r].at /\ Wrote(r, row)
      <4>1. req[r].key \in Keys /\ req[r].at \in 0 .. MaxClock
        BY <2>1 DEF Request
      <4>2. CASE RegisterKnown(r)
        <5>1. db[req[r].key] \in Row
          BY <4>1, <4>2 DEF RegisterKnown, IInv, TypeOK
        <5>2. [db[req[r].key] EXCEPT !.seen = req[r].at] \in Row
          BY <4>1, <5>1 DEF Row
        <5>3. [db[req[r].key] EXCEPT !.seen = req[r].at].seen = req[r].at
          BY <5>1 DEF Row
        <5> QED
          BY <4>2, <5>2, <5>3 DEF RegisterKnown
      <4>3. CASE RegisterNew(r)
        <5>1. [ip |-> NextFreeIP, seen |-> req[r].at] \in Row
          BY <4>1, <4>3, NextFreeIsFree, FreeAreHosts DEF RegisterNew, Row
        <5> QED
          BY <4>3, <5>1 DEF RegisterNew
      <4> QED
        BY <2>5, <4>2, <4>3
    <3> DEFINE q == [req[r] EXCEPT !.stage = "commit", !.row = row]
    <3>2. /\ q \in Request /\ q.at = req[r].at /\ q.row = row
          /\ q.op = req[r].op /\ q.stage = "commit"
      BY <2>1, <3>1 DEF Request
    <3>3. req' = [req EXCEPT ![r] = q]
      BY <3>1 DEF Wrote
    <3>4. req[r].op = "register"
      BY <2>5 DEF RegisterKnown, RegisterNew, Working
    <3> HIDE DEF q
    <3> QED
      BY <2>1, <2>2, <3>1, <3>2, <3>3, <3>4, TimeOfRequest
  <2> QED
    BY <1>5, <2>3, <2>4, <2>5 DEF PoolExhausted, SyncNotFound, Fail
<1>6. ASSUME NEW r \in Slots, Reply(r) \/ LoseReply(r)
      PROVE  TimeInv'
  <2>1. req' = [req EXCEPT ![r] = NoRequest] /\ UNCHANGED <<db, clock, heard>>
    BY <1>6 DEF Reply, LoseReply, history
  <2> QED
    BY <2>1, TimeOfRequest
<1> QED
  BY <1>1, <1>2, <1>3, <1>4, <1>5, <1>6, TimeOfSync, TimeOfCommit DEF Next, Step

LEMMA TimeInvariance == Spec => []TimeInv
<1>1. Init => TimeInv
  BY DEF Init, TimeInv, At, RowsAreRecent, HeardIsListed, Enrolled
<1> QED
  BY <1>1, Invariance, TimeStep, PTL DEF Spec

\* last_seen is written from the time a request came, not the time it is
\* committed (store.go:97, 199), so a late one takes a row back in time; the
\* deadline of requests bounds by how much.
THEOREM RowsStayRecent == Spec => []RowsAreRecent
<1>1. TimeInv => RowsAreRecent
  BY DEF TimeInv
<1> QED
  BY <1>1, TimeInvariance, PTL

\* Whatever overtakes what, a list of peers (store.go:237) leaves out no machine
\* that was heard within the peer timeout less the time a request may take.
THEOREM ListsAreComplete == Spec => []HeardIsListed
<1>1. TimeInv => HeardIsListed
  BY DEF TimeInv
<1> QED
  BY <1>1, TimeInvariance, PTL
=============================================================================
