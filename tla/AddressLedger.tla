---------------------------- MODULE AddressLedger ----------------------------
(***************************************************************************)
(* What the coordination server promises of VPN addresses: a machine is    *)
(* given one once, keeps it for good, shares it with nobody, and is told   *)
(* no other one.                                                           *)
(***************************************************************************)

CONSTANTS Machines, Addresses,
          Nothing   \* not an address

VARIABLES ledger,  \* the address of each machine, or Nothing
          told     \* the answers given: <<machine, address>>

ledgerVars == <<ledger, told>>

LedgerInit ==
  /\ ledger = [m \in Machines |-> Nothing]
  /\ told = {}

Assign(m, a) ==
  /\ ledger[m] = Nothing
  /\ \A n \in Machines : ledger[n] # a
  /\ ledger' = [ledger EXCEPT ![m] = a]
  /\ UNCHANGED told

Tell(m) ==
  /\ ledger[m] # Nothing
  /\ told' = told \cup {<<m, ledger[m]>>}
  /\ UNCHANGED ledger

LedgerNext ==
  \E m \in Machines : Tell(m) \/ \E a \in Addresses : Assign(m, a)

LedgerSpec == LedgerInit /\ [][LedgerNext]_ledgerVars

\* Of all the answers there ever were, two agree on the machine exactly when
\* they agree on the address.
AnswersAgree == \A s, t \in told : s[1] = t[1] <=> s[2] = t[2]
=============================================================================
