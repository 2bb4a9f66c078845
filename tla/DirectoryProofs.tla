-------------------------- MODULE DirectoryProofs --------------------------
(***************************************************************************)
(* The coordination server serves one request after another, for any       *)
(* number of requests at once: CoordStore implements Directory.  A request *)
(* takes its effect when it commits or is rolled back.                     *)
(***************************************************************************)
EXTENDS CoordStoreProofs

(***************************************************************************)
(* What is to be committed was read from the table as it still is.  With   *)
(* RowFits and TimeInv, which say the same of the row, only the list is    *)
(* left.                                                                   *)
(***************************************************************************)

ListNow(q) == {k \in Enrolled \ {q.key} : db[k].seen >= q.at - PeerTimeout}

ListFits(q) ==
  /\ q.stage \in {"wait", "tx"} => q.peers = {}
  /\ q.stage = "commit" =>
       IF q.op = "sync" THEN db[q.key] # NoRow /\ q.peers = ListNow(q) ELSE q.peers = {}

ListsFit == \A r \in Slots : req[r] # NoRequest => ListFits(req[r])

\* A step of one request that leaves the table alone.
LEMMA ListOfRequest ==
  ASSUME TypeOK, ListsFit, NEW r \in Slots, NEW q,
         req' = [req EXCEPT ![r] = q], UNCHANGED db,
         q # NoRequest => ListFits(q)
  PROVE  ListsFit'
<1>1. req'[r] = q /\ \A s \in Slots \ {r} : req'[s] = req[s]
  BY DEF TypeOK
<1>2. ASSUME NEW p, ListFits(p)
      PROVE  ListFits(p)'
  BY <1>2 DEF ListFits, ListNow, Enrolled
<1> SUFFICES ASSUME NEW s \in Slots, req'[s] # NoRequest
             PROVE  ListFits(req[s])'
  BY DEF ListsFit
<1>3. CASE s = r
  BY <1>1, <1>3 DEF ListFits, ListNow, Enrolled
<1>4. CASE s # r
  BY <1>1, <1>4 DEF ListsFit, ListFits, ListNow, Enrolled
<1> QED
  BY <1>3, <1>4

LEMMA ListOfRolledBack ==
  ASSUME TypeOK, ListsFit, NEW r \in Slots, req[r] \in Request,
         NEW result \in {"unknown", "full", "error"}, RolledBack(r, result)
  PROVE  ListsFit'
<1> DEFINE q == [req[r] EXCEPT !.stage = "reply", !.row = NoRow, !.result = result]
<1>1. q.stage = "reply"
  BY DEF Request
<1>2. req' = [req EXCEPT ![r] = q] /\ UNCHANGED db
  BY DEF RolledBack
<1> HIDE DEF q
<1> QED
  BY <1>1, <1>2, ListOfRequest DEF ListFits

LEMMA ListOfCommit ==
  ASSUME IInv, ListsFit, NEW r \in Slots, Commit(r)
  PROVE  ListsFit'
<1>1. At(r, "commit") /\ req[r] \in Request /\ conn = r
  BY AtType DEF IInv, Commit, OneAtWork
<1>2. /\ req'[r] = [req[r] EXCEPT !.stage = "reply", !.result = "ok"]
      /\ \A s \in Slots \ {r} : req'[s] = req[s]
  BY DEF Commit, IInv, TypeOK
<1>3. req'[r].stage = "reply"
  BY <1>1, <1>2 DEF Request
<1>4. ASSUME NEW s \in Slots \ {r}, req[s] # NoRequest
      PROVE  req[s].stage # "commit" /\ ListFits(req[s])
  BY <1>1, <1>4 DEF IInv, OneAtWork, At, ListsFit
<1> SUFFICES ASSUME NEW s \in Slots, req'[s] # NoRequest
             PROVE  ListFits(req[s])'
  BY DEF ListsFit
<1>5. CASE s = r
  BY <1>3, <1>5 DEF ListFits
<1>6. CASE s # r
  BY <1>2, <1>4, <1>6 DEF ListFits
<1> QED
  BY <1>5, <1>6

LEMMA ListStep == IInv /\ ListsFit /\ [Next]_vars => ListsFit'
<1> SUFFICES ASSUME IInv, ListsFit, [Next]_vars
             PROVE  ListsFit'
  OBVIOUS
<1> USE DEF IInv
<1>1. CASE UNCHANGED vars \/ Tick
  BY <1>1 DEF vars, Tick, serving, ListsFit, ListFits, ListNow, Enrolled
<1>2. CASE Crash
  BY <1>2 DEF Crash, ListsFit
<1>3. ASSUME NEW r \in Slots, Accept(r)
      PROVE  ListsFit'
  BY <1>3, ListOfRequest DEF Accept, ListFits
<1>4. ASSUME NEW r \in Slots, Begin(r)
      PROVE  ListsFit'
  <2> DEFINE q == [req[r] EXCEPT !.stage = "tx"]
  <2>1. req[r] \in Request /\ req[r].stage = "wait" /\ ListFits(req[r])
    BY <1>4, AtType DEF Begin, At, ListsFit
  <2>2. q.stage = "tx" /\ q.peers = {}
    BY <2>1 DEF Request, ListFits
  <2>3. req' = [req EXCEPT ![r] = q] /\ UNCHANGED db
    BY <1>4 DEF Begin
  <2> HIDE DEF q
  <2> QED
    BY <2>2, <2>3, ListOfRequest DEF ListFits
<1>5. ASSUME NEW r \in Slots, RegisterKnown(r) \/ RegisterNew(r)
      PROVE  ListsFit'
  <2> PICK row : Wrote(r, row) /\ Working(r, "register")
    BY <1>5 DEF RegisterKnown, RegisterNew
  <2> DEFINE q == [req[r] EXCEPT !.stage = "commit", !.row = row]
  <2>1. req[r] \in Request /\ req[r].op = "register" /\ req[r].stage = "tx" /\ ListFits(req[r])
    BY AtType DEF Working, At, ListsFit
  <2>2. q.stage = "commit" /\ q.op = "register" /\ q.peers = {}
    BY <2>1 DEF Request, ListFits
  <2>3. req' = [req EXCEPT ![r] = q] /\ UNCHANGED db
    BY DEF Wrote
  <2> HIDE DEF q
  <2> QED
    BY <2>2, <2>3, ListOfRequest DEF ListFits
<1>6. ASSUME NEW r \in Slots, Sync(r)
      PROVE  ListsFit'
  <2> DEFINE row == [db[req[r].key] EXCEPT !.seen = req[r].at]
             list == ListNow(req[r])
             q == [req[r] EXCEPT !.stage = "commit", !.row = row, !.peers = list]
  <2>1. req[r] \in Request /\ req[r].op = "sync" /\ db[req[r].key] # NoRow
    BY <1>6, AtType DEF Sync, Working
  <2>2. req' = [req EXCEPT ![r] = q] /\ UNCHANGED db
    BY <1>6 DEF Sync, ListNow
  <2> HIDE DEF row, list
  <2>3. /\ q.stage = "commit" /\ q.op = "sync" /\ q.key = req[r].key /\ q.at = req[r].at
        /\ q.peers = list
    BY <2>1 DEF Request
  <2>4. ListNow(q) = list
    BY <2>3 DEF ListNow, list
  <2> HIDE DEF q
  <2> QED
    BY <2>1, <2>2, <2>3, <2>4, ListOfRequest DEF ListFits
<1>7. ASSUME NEW r \in Slots, PoolExhausted(r) \/ SyncNotFound(r) \/ Fail(r)
      PROVE  ListsFit'
  <2>1. req[r] \in Request
    BY <1>7, AtType DEF PoolExhausted, SyncNotFound, Working, Fail
  <2> QED
    BY <1>7, <2>1, ListOfRolledBack DEF PoolExhausted, SyncNotFound, Fail
<1>8. ASSUME NEW r \in Slots, Reply(r) \/ LoseReply(r)
      PROVE  ListsFit'
  BY <1>8, ListOfRequest DEF Reply, LoseReply
<1> QED
  BY <1>1, <1>2, <1>3, <1>4, <1>5, <1>6, <1>7, <1>8, ListOfCommit DEF Next, Step

LEMMA ListInvariance == Spec => []ListsFit
<1>1. Init => ListsFit
  BY DEF Init, ListsFit
<1> QED
  BY <1>1, Invariance, ListStep, PTL DEF Spec

(***************************************************************************)
(* The steps, as Directory sees them.                                      *)
(***************************************************************************)

AnswersNow == [r \in Slots |-> AnswerNow(r)]

DirectoryStep == Atomic!DirectoryNext \/ UNCHANGED <<db, AnswersNow>>

\* A step of r only changes r's answer.
LEMMA AnswerOfRequest ==
  ASSUME TypeOK, NEW r \in Slots, NEW q, req' = [req EXCEPT ![r] = q]
  PROVE  /\ req'[r] = q
         /\ AnswersNow' = [AnswersNow EXCEPT ![r] = AnswerNow(r)']
<1>1. req'[r] = q /\ \A s \in Slots \ {r} : req'[s] = req[s]
  BY DEF TypeOK
<1>2. \A s \in Slots \ {r} : AnswerNow(s)' = AnswerNow(s)
  BY <1>1 DEF AnswerNow, At
<1> QED
  BY <1>1, <1>2 DEF AnswersNow

\* Before its last stage a request has no answer, and gets none on the way.
LEMMA OnTheWay ==
  ASSUME TypeOK, NEW r \in Slots, NEW q, req' = [req EXCEPT ![r] = q], UNCHANGED db,
         ~ At(r, "reply"), q.stage # "reply"
  PROVE  DirectoryStep
<1>1. req'[r] = q /\ AnswersNow' = [AnswersNow EXCEPT ![r] = AnswerNow(r)']
  BY AnswerOfRequest
<1>2. AnswerNow(r)' = AnswerNow(r)
  BY <1>1 DEF AnswerNow, At
<1> QED
  BY <1>1, <1>2 DEF DirectoryStep, AnswersNow

LEMMA CommitServes ==
  ASSUME IInv, TimeInv, ListsFit, NEW r \in Slots, Commit(r)
  PROVE  DirectoryStep
<1> DEFINE m == req[r].key
           row == req[r].row
           peers == req[r].peers
           q == [req[r] EXCEPT !.stage = "reply", !.result = "ok"]
<1>1. /\ At(r, "commit") /\ req[r] \in Request /\ RowFits(req[r]) /\ ListFits(req[r])
      /\ row.seen = req[r].at
  BY AtType DEF IInv, TimeInv, Commit, RowsFit, ListsFit, At
<1>2. m \in Keys /\ req[r].at \in 0 .. MaxClock /\ req[r].op \in {"register", "sync"}
  BY <1>1 DEF Request
<1>3. row \in Row /\ row = [ip |-> row.ip, seen |-> req[r].at] /\ row.ip \in Hosts
  BY <1>1 DEF RowFits, Row
<1>4. /\ q.stage = "reply" /\ q.result = "ok" /\ q.op = req[r].op /\ q.key = m
      /\ q.row = row /\ q.peers = peers /\ q # NoRequest
  BY <1>1, StoreAssumption DEF Request
<1>5. req' = [req EXCEPT ![r] = q] /\ db' = [db EXCEPT ![m] = row]
  BY DEF Commit
<1> HIDE DEF q
<1>6. req'[r] = q /\ AnswersNow' = [AnswersNow EXCEPT ![r] = AnswerNow(r)']
  BY <1>5, AnswerOfRequest DEF IInv
<1>7. AnswerNow(r)' = [op |-> req[r].op, key |-> m, result |-> "ok", row |-> row, peers |-> peers]
  BY <1>4, <1>6 DEF AnswerNow, At
<1>8. AnswersNow[r] = NoRequest
  BY <1>1 DEF AnswersNow, AnswerNow, At
<1>9. Atomic!Serves(r, req[r].op, m, row, peers)
  BY <1>5, <1>6, <1>7 DEF Atomic!Serves, Atomic!Answers, AnswersNow
<1>10. CASE req[r].op = "register"
  <2>1. peers = {}
    BY <1>1, <1>10 DEF ListFits, At
  <2>2. IF m \in Atomic!Known THEN row.ip = db[m].ip ELSE row.ip \notin Atomic!Taken
    BY <1>1, <1>2 DEF RowFits, Used, Enrolled, Atomic!Known, Atomic!Taken
  <2>3. Atomic!Register(r, m, req[r].at)
    BY <1>3, <1>9, <1>10, <2>1, <2>2 DEF Atomic!Register
  <2> QED
    BY <1>2, <1>8, <2>3 DEF Atomic!Request, Atomic!DirectoryNext, AnswersNow, DirectoryStep
<1>11. CASE req[r].op = "sync"
  <2>1. db[m] # NoRow /\ peers = ListNow(req[r])
    BY <1>1, <1>11 DEF ListFits, At
  <2>2. m \in Atomic!Known /\ row = [ip |-> db[m].ip, seen |-> req[r].at]
    BY <1>1, <1>2, <1>3, <2>1 DEF RowFits, Atomic!Known
  <2>3. peers = {n \in Atomic!Known \ {m} : db[n].seen >= req[r].at - PeerTimeout}
    BY <2>1 DEF ListNow, Enrolled, Atomic!Known
  <2>4. Atomic!Sync(r, m, req[r].at)
    BY <1>9, <1>11, <2>2, <2>3 DEF Atomic!Sync
  <2> QED
    BY <1>2, <1>8, <2>4 DEF Atomic!Request, Atomic!DirectoryNext, AnswersNow, DirectoryStep
<1> QED
  BY <1>2, <1>10, <1>11

LEMMA RolledBackRefuses ==
  ASSUME IInv, NEW r \in Slots, req[r] \in Request, ~ At(r, "reply"),
         NEW result \in {"unknown", "full", "error"}, RolledBack(r, result)
  PROVE  /\ Atomic!Refuses(r, req[r].op, req[r].key, result)
         /\ AnswersNow[r] = NoRequest
<1> DEFINE q == [req[r] EXCEPT !.stage = "reply", !.row = NoRow, !.result = result]
<1>1. /\ q.stage = "reply" /\ q.result = result /\ q.result # "ok" /\ q.op = req[r].op
      /\ q.key = req[r].key /\ q.row = NoRow
  BY DEF Request
<1>2. q \in Request /\ q # NoRequest
  BY StoreAssumption DEF Request
<1>3. req' = [req EXCEPT ![r] = q] /\ UNCHANGED db
  BY DEF RolledBack
<1> HIDE DEF q
<1>4. req'[r] = q /\ AnswersNow' = [AnswersNow EXCEPT ![r] = AnswerNow(r)']
  BY <1>3, AnswerOfRequest DEF IInv
<1>5. AnswerNow(r)' = [op |-> req[r].op, key |-> req[r].key, result |-> result, row |-> NoRow, peers |-> {}]
  BY <1>1, <1>2, <1>4 DEF AnswerNow, At
<1> QED
  BY <1>3, <1>4, <1>5 DEF Atomic!Refuses, Atomic!Answers, AnswersNow, AnswerNow

LEMMA RefusalStep ==
  ASSUME IInv, NEW r \in Slots, PoolExhausted(r) \/ SyncNotFound(r) \/ Fail(r)
  PROVE  DirectoryStep
<1> DEFINE m == req[r].key
<1>1. req[r] \in Request /\ m \in Keys /\ req[r].op \in {"register", "sync"} /\ ~ At(r, "reply")
  BY AtType DEF PoolExhausted, SyncNotFound, Working, Fail, IInv, Request, At
<1>2. CASE PoolExhausted(r)
  <2>1. Atomic!Refuses(r, "register", m, "full") /\ AnswersNow[r] = NoRequest
    BY <1>1, <1>2, RolledBackRefuses DEF PoolExhausted, Working
  <2>2. db[m] = NoRow /\ Used = Hosts
    BY <1>2, NoneFree DEF PoolExhausted, IInv
  <2>3. Atomic!IsFull(r, m)
    BY <2>1, <2>2 DEF Atomic!IsFull, Atomic!Known, Atomic!Taken, Used, Enrolled
  <2> QED
    BY <1>1, <2>1, <2>3 DEF Atomic!Request, Atomic!DirectoryNext, AnswersNow, DirectoryStep
<1>3. CASE SyncNotFound(r)
  <2>1. Atomic!Refuses(r, "sync", m, "unknown") /\ AnswersNow[r] = NoRequest
    BY <1>1, <1>3, RolledBackRefuses DEF SyncNotFound, Working
  <2>2. Atomic!IsUnknown(r, m)
    BY <1>3, <2>1 DEF SyncNotFound, Atomic!IsUnknown, Atomic!Known
  <2> QED
    BY <1>1, <2>1, <2>2 DEF Atomic!Request, Atomic!DirectoryNext, AnswersNow, DirectoryStep
<1>4. CASE Fail(r)
  <2>1. Atomic!Refuses(r, req[r].op, m, "error") /\ AnswersNow[r] = NoRequest
    BY <1>1, <1>4, RolledBackRefuses DEF Fail
  <2>2. Atomic!Fails(r, m)
    BY <1>1, <2>1 DEF Atomic!Fails
  <2> QED
    BY <1>1, <2>1, <2>2 DEF Atomic!Request, Atomic!DirectoryNext, AnswersNow, DirectoryStep
<1> QED
  BY <1>2, <1>3, <1>4

LEMMA EndOfRequest ==
  ASSUME IInv, NEW r \in Slots, Reply(r) \/ LoseReply(r)
  PROVE  DirectoryStep
<1>1. req' = [req EXCEPT ![r] = NoRequest] /\ UNCHANGED db
  BY DEF Reply, LoseReply
<1>2. req'[r] = NoRequest /\ AnswersNow' = [AnswersNow EXCEPT ![r] = AnswerNow(r)']
  BY <1>1, AnswerOfRequest DEF IInv
<1>3. AnswerNow(r)' = NoRequest
  BY <1>2 DEF AnswerNow, At
<1>4. CASE AnswersNow[r] = NoRequest
  BY <1>1, <1>2, <1>3, <1>4 DEF DirectoryStep, AnswersNow
<1>5. CASE AnswersNow[r] # NoRequest
  <2>1. Atomic!Ends(r)
    BY <1>1, <1>2, <1>3, <1>5 DEF Atomic!Ends, AnswersNow
  <2> QED
    BY <2>1 DEF Atomic!DirectoryNext, DirectoryStep
<1> QED
  BY <1>4, <1>5

LEMMA StepIsAtomic ==
  ASSUME IInv, TimeInv, ListsFit, [Next]_vars
  PROVE  DirectoryStep
<1> USE DEF IInv
<1>1. CASE UNCHANGED vars \/ Tick
  BY <1>1 DEF vars, Tick, serving, AnswersNow, AnswerNow, At, DirectoryStep
<1>2. CASE Crash
  <2>1. UNCHANGED db /\ AnswersNow' = [r \in Slots |-> NoRequest]
    BY <1>2 DEF Crash, AnswersNow, AnswerNow, At
  <2> QED
    BY <2>1 DEF Atomic!Restarts, Atomic!DirectoryNext, AnswersNow, DirectoryStep
<1>3. ASSUME NEW r \in Slots, Accept(r)
      PROVE  DirectoryStep
  <2>1. PICK op, k : req' = [req EXCEPT
          ![r] = [op |-> op, key |-> k, at |-> clock, stage |-> "wait",
                  row |-> NoRow, peers |-> {}, result |-> "error"]]
    BY <1>3 DEF Accept
  <2> DEFINE q == [op |-> op, key |-> k, at |-> clock, stage |-> "wait",
                   row |-> NoRow, peers |-> {}, result |-> "error"]
  <2>2. q.stage # "reply" /\ req' = [req EXCEPT ![r] = q]
    BY <2>1
  <2>3. UNCHANGED db /\ ~ At(r, "reply")
    BY <1>3 DEF Accept, At
  <2> HIDE DEF q
  <2> QED
    BY <2>2, <2>3, OnTheWay
<1>4. ASSUME NEW r \in Slots, Begin(r)
      PROVE  DirectoryStep
  <2> DEFINE q == [req[r] EXCEPT !.stage = "tx"]
  <2>1. req[r] \in Request /\ ~ At(r, "reply")
    BY <1>4, AtType DEF Begin, At
  <2>2. q.stage # "reply"
    BY <2>1 DEF Request
  <2>3. req' = [req EXCEPT ![r] = q] /\ UNCHANGED db
    BY <1>4 DEF Begin
  <2> HIDE DEF q
  <2> QED
    BY <2>1, <2>2, <2>3, OnTheWay
<1>5. ASSUME NEW r \in Slots, NEW row, Working(r, "register"), Wrote(r, row)
      PROVE  DirectoryStep
  <2> DEFINE q == [req[r] EXCEPT !.stage = "commit", !.row = row]
  <2>1. req[r] \in Request /\ ~ At(r, "reply")
    BY <1>5, AtType DEF Working, At
  <2>2. q.stage # "reply"
    BY <2>1 DEF Request
  <2>3. req' = [req EXCEPT ![r] = q] /\ UNCHANGED db
    BY <1>5 DEF Wrote
  <2> HIDE DEF q
  <2> QED
    BY <2>1, <2>2, <2>3, OnTheWay
<1>6. ASSUME NEW r \in Slots, Sync(r)
      PROVE  DirectoryStep
  <2> DEFINE row == [db[req[r].key] EXCEPT !.seen = req[r].at]
             q == [req[r] EXCEPT !.stage = "commit", !.row = row, !.peers = ListNow(req[r])]
  <2>1. req[r] \in Request /\ ~ At(r, "reply")
    BY <1>6, AtType DEF Sync, Working, At
  <2>2. q.stage # "reply"
    BY <2>1 DEF Request
  <2>3. req' = [req EXCEPT ![r] = q] /\ UNCHANGED db
    BY <1>6 DEF Sync, ListNow
  <2> HIDE DEF q
  <2> QED
    BY <2>1, <2>2, <2>3, OnTheWay
<1> QED
  BY <1>1, <1>2, <1>3, <1>4, <1>5, <1>6, CommitServes, RefusalStep, EndOfRequest
  DEF Next, Step, RegisterKnown, RegisterNew

\* The server, with its transactions on one connection, deadlines, lost answers
\* and crashes, implements Directory: requests are served as if one after
\* another (RegisterMachine and Sync, store.go:96 and 198).
THEOREM ServerIsAtomic == Spec => ServesAtomically
<1>1. Init => Atomic!DirectoryInit
  BY DEF Init, Atomic!DirectoryInit, AnswerNow, At
<1>2. IInv /\ TimeInv /\ ListsFit /\ [Next]_vars
        => [Atomic!DirectoryNext]_(Atomic!directoryVars)
  BY StepIsAtomic DEF DirectoryStep, AnswersNow, Atomic!directoryVars
<1> QED
  BY <1>1, <1>2, Invariance, TimeInvariance, ListInvariance, PTL
     DEF Spec, ServesAtomically, Atomic!DirectorySpec
=============================================================================
