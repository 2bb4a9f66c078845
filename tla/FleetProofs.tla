----------------------------- MODULE FleetProofs -----------------------------
(* Proofs about Fleet, for any machines, addresses and number of troubles. *)
EXTENDS Fleet, TLAPS

(***************************************************************************)
(* The inductive invariant.  Nothing a machine holds, in memory, in its    *)
(* file or in an answer on its way, was ever taken back by the server: a   *)
(* row that is not deleted keeps its address for ever.                     *)
(***************************************************************************)

\* That m's address is a is true, or was until m's row was deleted.
Has(m, a) == m \in deleted \/ (db[m] # NoRow /\ db[m].ip = a)

RowsApart ==
  \A m, n \in Machines :
    m # n /\ db[m] # NoRow /\ db[n] # NoRow => db[m].ip # db[n].ip

HeldBy(m) == {view[m].addr, saved[m].addr, answer[m].addr} \ {NoAddr}

OwnAddrTrue == \A m \in Machines : \A a \in HeldBy(m) : Has(m, a)

KnownTo(m) == view[m].peers \cup saved[m].peers \cup answer[m].peers

ListsTrue == \A m \in Machines : \A p \in KnownTo(m) : Has(p.key, p.ip)

IInv == TypeOK /\ RowsApart /\ OwnAddrTrue /\ ListsTrue

-----------------------------------------------------------------------------
(* What the server does to its table *)

\* No row but a deleted one goes away or changes its address.
KeepsAddresses ==
  /\ deleted \subseteq deleted'
  /\ \A m \in Machines :
       m \notin deleted' /\ db[m] # NoRow => db'[m] # NoRow /\ db'[m].ip = db[m].ip

LEMMA HasIsKept ==
  ASSUME KeepsAddresses, NEW m \in Machines, NEW a, Has(m, a)
  PROVE  Has(m, a)'
BY DEF KeepsAddresses, Has

LEMMA FreeAddr ==
  ASSUME Free # {}
  PROVE  /\ (CHOOSE a \in Free : TRUE) \in Addrs
         /\ \A m \in Machines : db[m] # NoRow => db[m].ip # (CHOOSE a \in Free : TRUE)
<1>1. (CHOOSE a \in Free : TRUE) \in Free
  OBVIOUS
<1> QED
  BY <1>1 DEF Free, Used

\* A request, answered or not, leaves the row it finds at its address, and
\* a new one gets an address that no row has.
LEMMA AfterRow ==
  ASSUME TypeOK, NEW m \in Machines, NEW op
  PROVE  /\ After(op, m) \in Row \cup {NoRow}
         /\ db[m] # NoRow => After(op, m) # NoRow /\ After(op, m).ip = db[m].ip
         /\ db[m] = NoRow /\ After(op, m) # NoRow =>
              \A n \in Machines : db[n] # NoRow => db[n].ip # After(op, m).ip
<1>1. NoRow \notin Row
  BY FleetAssumption
<1>2. CASE db[m] # NoRow
  <2>1. db[m] \in Row
    BY <1>2 DEF TypeOK
  <2>2. [db[m] EXCEPT !.fresh = TRUE] \in Row /\ [db[m] EXCEPT !.fresh = TRUE].ip = db[m].ip
    BY <2>1 DEF Row
  <2>3. After(op, m) = [db[m] EXCEPT !.fresh = TRUE]
    BY <1>2 DEF After, Registered, Refreshed
  <2> HIDE DEF After
  <2> QED
    BY <1>1, <1>2, <2>2, <2>3
<1>3. CASE db[m] = NoRow
  <2>1. CASE After(op, m) = NoRow
    BY <1>3, <2>1
  <2>2. CASE After(op, m) # NoRow
    <3> DEFINE a == CHOOSE a \in Free : TRUE
    <3>1. Free # {} /\ After(op, m) = [ip |-> a, fresh |-> TRUE]
      BY <1>3, <2>2 DEF After, Registered, Refreshed
    <3>2. a \in Addrs /\ \A n \in Machines : db[n] # NoRow => db[n].ip # a
      BY <3>1, FreeAddr
    <3> HIDE DEF a
    <3> QED
      BY <1>3, <3>1, <3>2 DEF Row
  <2> QED
    BY <2>1, <2>2
<1> QED
  BY <1>2, <1>3

LEMMA ServedTable ==
  ASSUME TypeOK, RowsApart, NEW m \in Machines, NEW op,
         db' = [db EXCEPT ![m] = After(op, m)], deleted' = deleted
  PROVE  /\ db' \in [Machines -> Row \cup {NoRow}]
         /\ RowsApart'
         /\ KeepsAddresses
<1> DEFINE row == After(op, m)
<1>1. db \in [Machines -> Row \cup {NoRow}]
  BY DEF TypeOK
<1>2. /\ row \in Row \cup {NoRow}
      /\ db[m] # NoRow => row # NoRow /\ row.ip = db[m].ip
      /\ db[m] = NoRow /\ row # NoRow =>
           \A n \in Machines : db[n] # NoRow => db[n].ip # row.ip
  BY AfterRow
<1>3. db' = [db EXCEPT ![m] = row]
  OBVIOUS
<1> HIDE DEF row
<1>4. \A n \in Machines : db'[n] = IF n = m THEN row ELSE db[n]
  BY <1>1, <1>3
<1>5. db' \in [Machines -> Row \cup {NoRow}]
  BY <1>1, <1>2, <1>3
<1>6. KeepsAddresses
  BY <1>2, <1>4 DEF KeepsAddresses
<1>7. RowsApart'
  <2> SUFFICES ASSUME NEW n \in Machines, NEW o \in Machines,
                      n # o, db'[n] # NoRow, db'[o] # NoRow
               PROVE  db'[n].ip # db'[o].ip
    BY DEF RowsApart
  <2>1. CASE db[m] # NoRow
    BY <1>2, <1>4, <2>1 DEF RowsApart
  <2>2. CASE db[m] = NoRow
    BY <1>2, <1>4, <2>2 DEF RowsApart
  <2> QED
    BY <2>1, <2>2
<1> QED
  BY <1>5, <1>6, <1>7

\* A list and an address that the server sends are those of its table.
LEMMA AnswerRow ==
  ASSUME TypeOK, NEW m \in Machines, NEW op, NEW row \in Row \cup {NoRow}
  PROVE  /\ AnswerOf(op, m, row) \in Answer
         /\ AnswerOf(op, m, row).addr # NoAddr => row # NoRow /\ row.ip = AnswerOf(op, m, row).addr
         /\ \A p \in AnswerOf(op, m, row).peers :
              p.key # m /\ db[p.key] # NoRow /\ db[p.key].ip = p.ip
<1>1. Listed(m) \subseteq Entry /\ \A p \in Listed(m) : p.key # m /\ db[p.key] # NoRow /\ db[p.key].ip = p.ip
  <2> SUFFICES ASSUME NEW n \in Machines \ {m}, db[n] # NoRow
               PROVE  db[n].ip \in Addrs
    BY DEF Listed, Entry
  <2> QED
    BY DEF TypeOK, Row
<1> DEFINE list == IF op = "sync" THEN Listed(m) ELSE {}
<1>2. list \subseteq Entry /\ \A p \in list : p.key # m /\ db[p.key] # NoRow /\ db[p.key].ip = p.ip
  BY <1>1
<1>3. CASE row # NoRow
  <2>1. AnswerOf(op, m, row) = [kind |-> "ok", addr |-> row.ip, peers |-> list]
    BY <1>3 DEF AnswerOf
  <2>2. row.ip \in Addrs
    BY <1>3 DEF Row
  <2> HIDE DEF list
  <2> QED
    BY <1>2, <1>3, <2>1, <2>2 DEF Answer
<1>4. CASE row = NoRow
  <2>1. AnswerOf(op, m, row) \in {NoAnswer, Unknown}
    BY <1>4 DEF AnswerOf
  <2> QED
    BY <2>1 DEF NoAnswer, Unknown, Answer
<1> QED
  BY <1>3, <1>4

-----------------------------------------------------------------------------
(* What machines hold *)

LEMMA NothingSaid ==
  /\ NoAnswer \in Answer /\ Unknown \in Answer /\ EmptyList \in Answer
  /\ \A a \in {NoAnswer, Unknown, EmptyList} : a.addr = NoAddr /\ a.peers = {}
BY DEF NoAnswer, Unknown, EmptyList, Answer

\* A step after which a machine holds what it held, or what is true.
HoldsOnlyTrue ==
  \A m \in Machines :
    /\ \A a \in HeldBy(m)' : a \in HeldBy(m) \/ Has(m, a)'
    /\ \A p \in KnownTo(m)' : p \in KnownTo(m) \/ Has(p.key, p.ip)'

LEMMA HoldingsStayTrue ==
  ASSUME IInv, KeepsAddresses, HoldsOnlyTrue
  PROVE  OwnAddrTrue' /\ ListsTrue'
<1>1. OwnAddrTrue'
  <2> SUFFICES ASSUME NEW m \in Machines, NEW a \in HeldBy(m)' PROVE Has(m, a)'
    BY DEF OwnAddrTrue
  <2>1. a \in HeldBy(m) => Has(m, a)
    BY DEF IInv, OwnAddrTrue
  <2> QED
    BY <2>1, HasIsKept DEF HoldsOnlyTrue
<1>2. ListsTrue'
  <2> SUFFICES ASSUME NEW m \in Machines, NEW p \in KnownTo(m)' PROVE Has(p.key, p.ip)'
    BY DEF ListsTrue
  <2>1. KnownTo(m) \subseteq Entry
    BY DEF IInv, TypeOK, KnownTo, View, Answer
  <2>2. p \in KnownTo(m) => p.key \in Machines /\ Has(p.key, p.ip)
    BY <2>1 DEF IInv, ListsTrue, Entry
  <2>3. CASE p \in KnownTo(m)
    <3> DEFINE k == p.key
               a == p.ip
    <3>1. k \in Machines /\ Has(k, a)
      BY <2>2, <2>3
    <3> HIDE DEF k, a
    <3>2. Has(k, a)'
      BY <3>1, HasIsKept
    <3> QED
      BY <3>2 DEF k, a
  <2> QED
    BY <2>3 DEF HoldsOnlyTrue
<1> QED
  BY <1>1, <1>2

\* A step that leaves the table alone.
SameTable == UNCHANGED <<db, deleted>>

LEMMA TableLeftAlone ==
  ASSUME IInv, SameTable
  PROVE  RowsApart' /\ KeepsAddresses
BY DEF IInv, RowsApart, KeepsAddresses, SameTable

LEMMA StepFromParts ==
  ASSUME IInv, TypeOK', RowsApart', KeepsAddresses, HoldsOnlyTrue
  PROVE  IInv'
BY HoldingsStayTrue DEF IInv

LEMMA OpNames == \A m \in Machines : OpOf(m) \in Ops
BY DEF OpOf, Ops

-----------------------------------------------------------------------------
(* Steps of the server *)

LEMMA ServeStep ==
  ASSUME IInv, NEW m \in Machines, Serve(m)
  PROVE  IInv'
<1> DEFINE row == After(OpOf(m), m)
           ans == AnswerOf(OpOf(m), m, row)
<1>1. /\ db' = [db EXCEPT ![m] = row] /\ answer' = [answer EXCEPT ![m] = ans]
      /\ request' = [request EXCEPT ![m] = FALSE]
      /\ UNCHANGED <<pc, view, saved, late, misses, deleted, troubles>>
  BY DEF Serve
<1>2. db' \in [Machines -> Row \cup {NoRow}] /\ RowsApart' /\ KeepsAddresses
  BY <1>1, ServedTable DEF IInv
<1>3. row \in Row \cup {NoRow}
  BY AfterRow DEF IInv
<1>4. /\ ans \in Answer
      /\ ans.addr # NoAddr => row # NoRow /\ row.ip = ans.addr
      /\ \A p \in ans.peers : p.key # m /\ db[p.key] # NoRow /\ db[p.key].ip = p.ip
  BY <1>3, AnswerRow DEF IInv
<1> HIDE DEF row, ans
<1>5. TypeOK'
  BY <1>1, <1>2, <1>4 DEF IInv, TypeOK
<1>6. db'[m] = row /\ answer'[m] = ans /\ \A n \in Machines \ {m} : db'[n] = db[n] /\ answer'[n] = answer[n]
  BY <1>1 DEF IInv, TypeOK
<1>7. HoldsOnlyTrue
  <2>1. ASSUME NEW n \in Machines, NEW a \in HeldBy(n)', a \notin HeldBy(n)
        PROVE  Has(n, a)'
    <3>1. n = m /\ a = ans.addr /\ ans.addr # NoAddr
      BY <1>1, <1>6, <2>1 DEF HeldBy
    <3> QED
      BY <1>4, <1>6, <3>1 DEF Has
  <2>2. ASSUME NEW n \in Machines, NEW p \in KnownTo(n)', p \notin KnownTo(n)
        PROVE  Has(p.key, p.ip)'
    <3>1. n = m /\ p \in ans.peers
      BY <1>1, <1>6, <2>2 DEF KnownTo
    <3>2. p.key \in Machines
      BY <1>4, <3>1 DEF Answer, Entry
    <3>3. db'[p.key] = db[p.key] /\ db[p.key] # NoRow /\ db[p.key].ip = p.ip
      BY <1>4, <1>6, <3>1, <3>2
    <3> QED
      BY <3>3 DEF Has
  <2> QED
    BY <2>1, <2>2 DEF HoldsOnlyTrue
<1> QED
  BY <1>2, <1>5, <1>7, StepFromParts

LEMMA ServeLateStep ==
  ASSUME IInv, NEW m \in Machines, ServeLate(m)
  PROVE  IInv'
<1> PICK op \in late[m] : /\ db' = [db EXCEPT ![m] = After(op, m)]
                          /\ late' = [late EXCEPT ![m] = @ \ {op}]
  BY DEF ServeLate
<1>1. UNCHANGED <<pc, view, saved, request, answer, misses, deleted, troubles>>
  BY DEF ServeLate
<1>2. db' \in [Machines -> Row \cup {NoRow}] /\ RowsApart' /\ KeepsAddresses
  BY <1>1, ServedTable DEF IInv
<1>3. TypeOK'
  BY <1>1, <1>2 DEF IInv, TypeOK
<1>4. HoldsOnlyTrue
  BY <1>1 DEF HoldsOnlyTrue, HeldBy, KnownTo
<1> QED
  BY <1>2, <1>3, <1>4, StepFromParts

LEMMA GoesSilentStep ==
  ASSUME IInv, NEW m \in Machines, GoesSilent(m)
  PROVE  IInv'
<1> DEFINE row == [db[m] EXCEPT !.fresh = FALSE]
<1>1. /\ db[m] # NoRow /\ db' = [db EXCEPT ![m] = row]
      /\ UNCHANGED <<pc, view, saved, calls, misses, deleted, troubles>>
  BY DEF GoesSilent
<1>2. db[m] \in Row /\ NoRow \notin Row
  BY <1>1, FleetAssumption DEF IInv, TypeOK
<1>3. row \in Row /\ row.ip = db[m].ip
  BY <1>2 DEF Row
<1> HIDE DEF row
<1>4. \A n \in Machines : db'[n] = IF n = m THEN row ELSE db[n]
  BY <1>1 DEF IInv, TypeOK
<1>5. TypeOK'
  BY <1>1, <1>3 DEF IInv, TypeOK, calls
<1>6. RowsApart' /\ KeepsAddresses
  BY <1>1, <1>2, <1>3, <1>4 DEF IInv, RowsApart, KeepsAddresses
<1>7. HoldsOnlyTrue
  BY <1>1 DEF HoldsOnlyTrue, HeldBy, KnownTo, calls
<1> QED
  BY <1>5, <1>6, <1>7, StepFromParts

\* By hand.
LEMMA DeleteRowStep ==
  ASSUME IInv, NEW m \in Machines, DeleteRow(m)
  PROVE  IInv'
<1>1. /\ db' = [db EXCEPT ![m] = NoRow] /\ deleted' = deleted \cup {m}
      /\ UNCHANGED <<pc, view, saved, calls, misses>>
      /\ troubles' \in 0 .. MaxTroubles
  BY FleetAssumption DEF DeleteRow, Trouble, IInv, TypeOK
<1>2. TypeOK'
  BY <1>1 DEF IInv, TypeOK, calls
<1>3. RowsApart' /\ KeepsAddresses
  BY <1>1 DEF IInv, TypeOK, RowsApart, KeepsAddresses
<1>4. HoldsOnlyTrue
  BY <1>1 DEF HoldsOnlyTrue, HeldBy, KnownTo, calls
<1> QED
  BY <1>2, <1>3, <1>4, StepFromParts

-----------------------------------------------------------------------------
(* Steps of a machine: the table stays as it is, and what the machine holds *)
(* afterwards it held before, if only in an answer.                         *)

LEMMA SameTableStep ==
  ASSUME IInv, SameTable, TypeOK',
         \A m \in Machines : HeldBy(m)' \subseteq HeldBy(m) /\ KnownTo(m)' \subseteq KnownTo(m)
  PROVE  IInv'
<1>1. RowsApart' /\ KeepsAddresses
  BY TableLeftAlone
<1>2. HoldsOnlyTrue
  BY DEF HoldsOnlyTrue
<1> QED
  BY <1>1, <1>2, StepFromParts

LEMMA CallsStep ==
  ASSUME IInv, NEW m \in Machines, NEW next \in {"register", "sync", "reregister", "resync"},
         Calls(m, next), UNCHANGED <<saved, misses>>,
         NEW v \in View, view' = [view EXCEPT ![m] = v],
         v.addr \in {view[m].addr, answer[m].addr}, v.peers = view[m].peers
  PROVE  IInv'
<1>1. /\ SameTable
      /\ pc' = [pc EXCEPT ![m] = next] /\ request' = [request EXCEPT ![m] = TRUE]
      /\ answer' = [answer EXCEPT ![m] = NoAnswer]
      /\ UNCHANGED <<late, troubles, saved, misses>>
  BY DEF Calls, SameTable
<1>2. TypeOK'
  BY <1>1, NothingSaid DEF SameTable, IInv, TypeOK
<1>3. \A n \in Machines : HeldBy(n)' \subseteq HeldBy(n) /\ KnownTo(n)' \subseteq KnownTo(n)
  BY <1>1, NothingSaid DEF IInv, TypeOK, HeldBy, KnownTo
<1> QED
  BY <1>1, <1>2, <1>3, SameTableStep

LEMMA EndsStep ==
  ASSUME IInv, NEW m \in Machines, NEW v \in View, NEW n \in 0 .. 2, Ends(m, v, n),
         saved' \in {saved, [saved EXCEPT ![m] = v]},
         request' \in [Machines -> BOOLEAN], late' \in [Machines -> SUBSET Ops],
         troubles' \in 0 .. MaxTroubles,
         v.addr \in {view[m].addr, answer[m].addr},
         v.peers \in {view[m].peers, answer[m].peers}
  PROVE  IInv'
<1>1. /\ SameTable
      /\ view' = [view EXCEPT ![m] = v]
      /\ pc' = [pc EXCEPT ![m] = "idle"]
      /\ answer' = [answer EXCEPT ![m] = NoAnswer]
      /\ misses' = [misses EXCEPT ![m] = n]
  BY DEF Ends, SameTable
<1>2. TypeOK'
  BY <1>1, NothingSaid DEF SameTable, IInv, TypeOK
<1>3. \A o \in Machines : HeldBy(o)' \subseteq HeldBy(o) /\ KnownTo(o)' \subseteq KnownTo(o)
  BY <1>1, NothingSaid DEF IInv, TypeOK, HeldBy, KnownTo
<1> QED
  BY <1>1, <1>2, <1>3, SameTableStep

\* The end of a poll, saved or not.
LEMMA PollEndsStep ==
  ASSUME IInv, NEW m \in Machines, SyncDone(m) \/ PollFails(m),
         Saves(m) \/ saved' = saved, troubles' \in 0 .. MaxTroubles
  PROVE  IInv'
<1>1. view[m] \in View /\ answer[m] \in Answer /\ view \in [Machines -> View]
  BY DEF IInv, TypeOK
<1>2. ASSUME NEW v, view' = [view EXCEPT ![m] = v]
      PROVE  saved' \in {saved, [saved EXCEPT ![m] = v]}
  BY <1>1, <1>2 DEF Saves
<1>3. CASE SyncDone(m)
  <2> DEFINE v == [addr  |-> IF answer[m].addr = NoAddr THEN view[m].addr ELSE answer[m].addr,
                   peers |-> answer[m].peers]
  <2>1. v \in View /\ v.addr \in {view[m].addr, answer[m].addr} /\ v.peers = answer[m].peers
    BY <1>1 DEF View, Answer
  <2>2. Ends(m, v, 0) /\ UNCHANGED <<request, late>>
    BY <1>3 DEF SyncDone
  <2> HIDE DEF v
  <2>3. saved' \in {saved, [saved EXCEPT ![m] = v]}
    BY <1>2, <2>2 DEF Ends
  <2> QED
    BY <2>1, <2>2, <2>3, EndsStep DEF IInv, TypeOK
<1>4. CASE PollFails(m)
  <2>1. saved' \in {saved, [saved EXCEPT ![m] = view[m]]}
    BY <1>2, <1>4 DEF PollFails, Ends
  <2> DEFINE n == IF misses[m] = 0 THEN 1 ELSE 2
  <2>2. n \in 0 .. 2 /\ Ends(m, view[m], n)
    BY <1>4 DEF PollFails
  <2>3. request' \in [Machines -> BOOLEAN] /\ late' \in [Machines -> SUBSET Ops]
    BY <1>4 DEF PollFails, IInv, TypeOK
  <2> HIDE DEF n
  <2> QED
    BY <1>1, <2>1, <2>2, <2>3, EndsStep
<1> QED
  BY <1>3, <1>4

LEMMA MeshdStep ==
  ASSUME IInv, NEW m \in Machines, Meshd(m)
  PROVE  IInv'
<1>1. view[m] \in View /\ answer[m] \in Answer /\ view = [view EXCEPT ![m] = view[m]]
  BY DEF IInv, TypeOK
<1>2. [view[m] EXCEPT !.addr = answer[m].addr] \in View
      /\ [view[m] EXCEPT !.addr = answer[m].addr].addr = answer[m].addr
      /\ [view[m] EXCEPT !.addr = answer[m].addr].peers = view[m].peers
  BY <1>1 DEF View, Answer
<1>3. CASE Poll(m)
  BY <1>1, <1>3, CallsStep DEF Poll
<1>4. CASE RegisterDone(m)
  <2>1. view' = [view EXCEPT ![m] = [view[m] EXCEPT !.addr = answer[m].addr]]
    BY <1>4 DEF RegisterDone
  <2> QED
    BY <1>2, <1>4, <2>1, CallsStep DEF RegisterDone
<1>5. CASE SyncUnknown(m)
  BY <1>1, <1>5, CallsStep DEF SyncUnknown
<1>6. CASE PollEnds(m)
  BY <1>6, PollEndsStep DEF PollEnds, IInv, TypeOK
<1> QED
  BY <1>3, <1>4, <1>5, <1>6 DEF Meshd

LEMMA StartStep ==
  ASSUME IInv, NEW m \in Machines, Start(m)
  PROVE  IInv'
<1>1. TypeOK'
  BY DEF Start, calls, IInv, TypeOK
<1>2. \A n \in Machines : HeldBy(n)' \subseteq HeldBy(n) /\ KnownTo(n)' \subseteq KnownTo(n)
  BY DEF Start, calls, IInv, TypeOK, HeldBy, KnownTo
<1> QED
  BY <1>1, <1>2, SameTableStep DEF Start, SameTable

-----------------------------------------------------------------------------
(* Troubles *)

LEMMA TroubleType == IInv /\ Trouble => troubles' \in 0 .. MaxTroubles
BY FleetAssumption DEF Trouble, IInv, TypeOK

LEMMA AbandonedType ==
  ASSUME IInv, NEW m \in Machines, late' \in {late, Abandoned(m)}
  PROVE  late' \in [Machines -> SUBSET Ops]
<1>1. late \in [Machines -> SUBSET Ops] /\ OpOf(m) \in Ops
  BY OpNames DEF IInv, TypeOK
<1>2. [late EXCEPT ![m] = IF request[m] THEN @ \cup {OpOf(m)} ELSE @] \in [Machines -> SUBSET Ops]
  BY <1>1
<1> QED
  BY <1>1, <1>2 DEF Abandoned

LEMMA CallFailsStep ==
  ASSUME IInv, NEW m \in Machines, CallFails(m)
  PROVE  IInv'
<1>1. view[m] \in View /\ (IF misses[m] = 0 THEN 1 ELSE 2) \in 0 .. 2
  BY DEF IInv, TypeOK
<1>2. request' \in [Machines -> BOOLEAN]
  BY DEF CallFails, IInv, TypeOK
<1>3. saved' = [saved EXCEPT ![m] = view[m]]
  BY <1>1 DEF CallFails, Ends, Saves, IInv, TypeOK
<1> QED
  BY <1>1, <1>2, <1>3, TroubleType, AbandonedType, EndsStep DEF CallFails

LEMMA SaveFailsStep ==
  ASSUME IInv, NEW m \in Machines, SaveFails(m)
  PROVE  IInv'
BY TroubleType, PollEndsStep DEF SaveFails

LEMMA ForeignStep ==
  ASSUME IInv, NEW m \in Machines, Foreign(m)
  PROVE  IInv'
<1> PICK a \in {NoAnswer, Unknown, EmptyList} : answer' = [answer EXCEPT ![m] = a]
  BY DEF Foreign
<1>1. a \in Answer /\ a.addr = NoAddr /\ a.peers = {}
  BY NothingSaid
<1>2. /\ request' = [request EXCEPT ![m] = FALSE]
      /\ UNCHANGED <<db, pc, view, saved, late, misses, deleted>>
      /\ troubles' \in 0 .. MaxTroubles
  BY TroubleType DEF Foreign
<1>3. TypeOK'
  BY <1>1, <1>2 DEF IInv, TypeOK
<1>4. \A n \in Machines : HeldBy(n)' \subseteq HeldBy(n) /\ KnownTo(n)' \subseteq KnownTo(n)
  BY <1>1, <1>2 DEF IInv, TypeOK, HeldBy, KnownTo
<1> QED
  BY <1>2, <1>3, <1>4, SameTableStep DEF SameTable

LEMMA StopStep ==
  ASSUME IInv, NEW m \in Machines, Stop(m)
  PROVE  IInv'
<1>1. late' \in [Machines -> SUBSET Ops] /\ troubles' \in 0 .. MaxTroubles
  BY TroubleType, AbandonedType DEF Stop
<1>2. TypeOK'
  BY <1>1, NothingSaid DEF Stop, IInv, TypeOK
<1>3. \A n \in Machines : HeldBy(n)' \subseteq HeldBy(n) /\ KnownTo(n)' \subseteq KnownTo(n)
  BY NothingSaid DEF Stop, IInv, TypeOK, HeldBy, KnownTo
<1> QED
  BY <1>2, <1>3, SameTableStep DEF Stop, SameTable

-----------------------------------------------------------------------------

LEMMA InitIInv == Init => IInv
<1> SUFFICES ASSUME Init PROVE IInv
  OBVIOUS
<1>1. TypeOK
  BY NothingSaid, FleetAssumption DEF Init, TypeOK, View
<1>2. RowsApart
  BY DEF Init, RowsApart
<1>3. OwnAddrTrue /\ ListsTrue
  BY NothingSaid DEF Init, OwnAddrTrue, ListsTrue, HeldBy, KnownTo
<1> QED
  BY <1>1, <1>2, <1>3 DEF IInv

LEMMA NextIInv == IInv /\ [Next]_vars => IInv'
<1> SUFFICES ASSUME IInv, [Next]_vars PROVE IInv'
  OBVIOUS
<1>1. CASE UNCHANGED vars
  BY <1>1 DEF vars, calls, IInv, TypeOK, RowsApart, OwnAddrTrue, ListsTrue, HeldBy, KnownTo, Has
<1>2. ASSUME NEW m \in Machines,
             \/ Serve(m) \/ ServeLate(m) \/ GoesSilent(m)
             \/ Start(m) \/ Meshd(m)
             \/ CallFails(m) \/ Foreign(m) \/ SaveFails(m) \/ Stop(m) \/ DeleteRow(m)
      PROVE  IInv'
  BY <1>2, ServeStep, ServeLateStep, GoesSilentStep, StartStep, MeshdStep,
     CallFailsStep, ForeignStep, SaveFailsStep, StopStep, DeleteRowStep
<1> QED
  BY <1>1, <1>2 DEF Next

LEMMA Inductive == Spec => []IInv
BY InitIInv, NextIInv, PTL DEF Spec

\* Type correctness.
THEOREM TypeCorrect == Spec => []TypeOK
<1>1. IInv => TypeOK
  BY DEF IInv
<1> QED
  BY <1>1, Inductive, PTL

\* No two machines use one address unless a row was deleted, whatever is lost,
\* late, restarted or answered by something else.
THEOREM AddressesStayApart == Spec => []AddressesApart
<1>1. IInv => AddressesApart
  <2> SUFFICES ASSUME IInv, NEW m \in Machines \ deleted, NEW n \in Machines \ deleted,
                      m # n, view[m].addr # NoAddr, view[m].addr = view[n].addr
               PROVE  FALSE
    BY DEF AddressesApart
  <2>1. view[m].addr \in HeldBy(m) /\ view[n].addr \in HeldBy(n)
    BY DEF HeldBy
  <2>2. db[m] # NoRow /\ db[m].ip = view[m].addr /\ db[n] # NoRow /\ db[n].ip = view[n].addr
    BY <2>1 DEF IInv, OwnAddrTrue, Has
  <2> QED
    BY <2>2 DEF IInv, RowsApart
<1> QED
  BY <1>1, Inductive, PTL

\* A list, kept however long, gives no machine an address it has not got,
\* unless that machine's row was deleted.
THEOREM ListsStayTrue == Spec => []PeersTrue
<1>1. IInv => PeersTrue
  BY DEF IInv, ListsTrue, PeersTrue, KnownTo, Has
<1> QED
  BY <1>1, Inductive, PTL
=============================================================================
