----------------------------- MODULE Directory -----------------------------
(***************************************************************************)
(* What the coordination server is to its callers: a table of machines     *)
(* that serves one request after another.  A request is served in one      *)
(* step, from the table as it is then, or has no effect at all; its answer *)
(* is on its way from then on.                                             *)
(***************************************************************************)
EXTENDS Integers

CONSTANTS Machines, Addresses,
          Times,        \* when requests may come
          PeerTimeout,  \* after how much silence a machine is not listed
          Callers,      \* the requests at one time
          NoRow, NoAnswer

VARIABLES table,  \* the row of each machine: its address, and when it was seen
          answer  \* what each caller is about to be told, or NoAnswer

directoryVars == <<table, answer>>

DirectoryInit ==
  /\ table = [m \in Machines |-> NoRow]
  /\ answer = [c \in Callers |-> NoAnswer]

Known == {m \in Machines : table[m] # NoRow}

Taken == {table[m].ip : m \in Known}

Answers(c, op, m, result, row, peers) ==
  answer' = [answer EXCEPT
    ![c] = [op |-> op, key |-> m, result |-> result, row |-> row, peers |-> peers]]

\* The row of m, seen at t, is in the table and in the answer.
Serves(c, op, m, row, peers) ==
  /\ Answers(c, op, m, "ok", row, peers)
  /\ table' = [table EXCEPT ![m] = row]

Register(c, m, t) ==
  \E a \in Addresses :
    /\ IF m \in Known THEN a = table[m].ip ELSE a \notin Taken
    /\ Serves(c, "register", m, [ip |-> a, seen |-> t], {})

Sync(c, m, t) ==
  /\ m \in Known
  /\ Serves(c, "sync", m, [ip |-> table[m].ip, seen |-> t],
            {n \in Known \ {m} : table[n].seen >= t - PeerTimeout})

Refuses(c, op, m, result) ==
  /\ Answers(c, op, m, result, NoRow, {})
  /\ UNCHANGED table

IsFull(c, m) ==
  /\ m \notin Known /\ Addresses \subseteq Taken
  /\ Refuses(c, "register", m, "full")

IsUnknown(c, m) ==
  /\ m \notin Known
  /\ Refuses(c, "sync", m, "unknown")

Fails(c, m) == \E op \in {"register", "sync"} : Refuses(c, op, m, "error")

\* The answer arrives or is lost.
Ends(c) ==
  /\ answer[c] # NoAnswer
  /\ answer' = [answer EXCEPT ![c] = NoAnswer]
  /\ UNCHANGED table

Restarts ==
  /\ answer' = [c \in Callers |-> NoAnswer]
  /\ UNCHANGED table

Request(c, m) ==
  /\ answer[c] = NoAnswer
  /\ \/ \E t \in Times : Register(c, m, t) \/ Sync(c, m, t)
     \/ IsFull(c, m) \/ IsUnknown(c, m) \/ Fails(c, m)

DirectoryNext ==
  Restarts \/ \E c \in Callers : Ends(c) \/ \E m \in Machines : Request(c, m)

DirectorySpec == DirectoryInit /\ [][DirectoryNext]_directoryVars
=============================================================================
