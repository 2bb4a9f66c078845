------------------------- MODULE AddressLedgerProofs -------------------------
(***************************************************************************)
(* What follows from the promise about addresses alone.                    *)
(***************************************************************************)
EXTENDS AddressLedger, TLAPS

\* The answers agree because each is what the ledger still says, and the
\* ledger has no address twice.
LedgerInv ==
  /\ \A m, n \in Machines : ledger[m] = ledger[n] => m = n \/ ledger[m] = Nothing
  /\ ledger \in [Machines -> Addresses \cup {Nothing}]
  /\ \A t \in told : /\ t \in Machines \X Addresses
                     /\ ledger[t[1]] = t[2]

LEMMA LedgerInvStep ==
  ASSUME Nothing \notin Addresses
  PROVE  LedgerInv /\ [LedgerNext]_ledgerVars => LedgerInv'
<1> SUFFICES ASSUME LedgerInv, [LedgerNext]_ledgerVars
             PROVE  LedgerInv'
  OBVIOUS
<1>1. CASE UNCHANGED ledgerVars
  BY <1>1 DEF ledgerVars, LedgerInv
<1>2. ASSUME NEW m \in Machines, Tell(m)
      PROVE  LedgerInv'
  <2>1. ledger[m] \in Addresses
    BY <1>2 DEF Tell, LedgerInv
  <2> QED
    BY <1>2, <2>1 DEF Tell, LedgerInv
<1>3. ASSUME NEW m \in Machines, NEW a \in Addresses, Assign(m, a)
      PROVE  LedgerInv'
  <2>1. /\ ledger'[m] = a /\ ledger[m] = Nothing
        /\ \A n \in Machines \ {m} : ledger'[n] = ledger[n] /\ ledger[n] # a
    BY <1>3 DEF Assign, LedgerInv
  <2>2. ledger' \in [Machines -> Addresses \cup {Nothing}]
    BY <1>3 DEF Assign, LedgerInv
  <2>3. \A t \in told : t[1] # m
    BY <2>1 DEF LedgerInv
  <2>4. \A t \in told' : t \in Machines \X Addresses /\ ledger'[t[1]] = t[2]
    BY <1>3, <2>1, <2>3 DEF Assign, LedgerInv
  <2>5. \A n, p \in Machines : ledger'[n] = ledger'[p] => n = p \/ ledger'[n] = Nothing
    BY <2>1 DEF LedgerInv
  <2> QED
    BY <2>2, <2>4, <2>5 DEF LedgerInv
<1> QED
  BY <1>1, <1>2, <1>3 DEF LedgerNext

\* Whoever keeps the ledger never tells two machines the same address nor one
\* machine two, over all the answers there ever were (store.go:96, 198).
THEOREM LedgerAnswersAgree ==
  ASSUME Nothing \notin Addresses
  PROVE  LedgerSpec => []AnswersAgree
<1>1. LedgerInit => LedgerInv
  BY DEF LedgerInit, LedgerInv
<1>2. LedgerInv => AnswersAgree
  BY DEF LedgerInv, AnswersAgree
<1> QED
  BY <1>1, <1>2, LedgerInvStep, PTL DEF LedgerSpec
=============================================================================
