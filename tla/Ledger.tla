------------------------------- MODULE Ledger -------------------------------
(***************************************************************************)
(* Double-entry bookkeeping: a packet is decided once, and a settled one   *)
(* debits its sender and credits its receiver by its amount in one step.   *)
(* This is what the accounts and transactions tables together should be;   *)
(* Settlement implements it as long as no two settlements that share an    *)
(* account overlap, no payment goes from an account to itself and no       *)
(* statement fails.                                                        *)
(***************************************************************************)
EXTENDS Integers, FiniteSets

CONSTANTS Packets, Sender, Receiver, Amount,
          Opening       \* the seeded balances

VARIABLES balance,      \* of each address that has an account
          outcome       \* what was decided of each packet

ledgerVars == <<balance, outcome>>

Open ==
  /\ balance = Opening
  /\ outcome = [h \in Packets |-> "NONE"]

HaveAccounts(h) == {Sender[h], Receiver[h]} \subseteq DOMAIN balance

\* Balances b after an amount went from one account to another.
Entered(b, from, to, amount) ==
  LET debited == [b EXCEPT ![from] = @ - amount]
  IN  [debited EXCEPT ![to] = @ + amount]

Transfer(h) ==
  /\ outcome[h] = "NONE" /\ HaveAccounts(h)
  /\ Amount[h] > 0 /\ balance[Sender[h]] >= Amount[h]
  /\ balance' = Entered(balance, Sender[h], Receiver[h], Amount[h])
  /\ outcome' = [outcome EXCEPT ![h] = "SETTLED"]

Decline(h) ==
  /\ outcome[h] = "NONE" /\ HaveAccounts(h)
  /\ balance[Sender[h]] < Amount[h]
  /\ outcome' = [outcome EXCEPT ![h] = "REJECTED"]
  /\ UNCHANGED balance

Reopen ==
  /\ balance' = Opening
  /\ outcome' = [h \in Packets |-> "NONE"]

Book == (\E h \in Packets : Transfer(h) \/ Decline(h)) \/ Reopen

LedgerSpec == Open /\ [][Book]_ledgerVars

-----------------------------------------------------------------------------
\* The addresses in some order, each once.
Listing(addresses) ==
  CHOOSE list \in [1..Cardinality(addresses) -> addresses] :
    \A vpa \in addresses : \E i \in 1..Cardinality(addresses) : list[i] = vpa

\* The sum of the balances b, account by account.
Total(b) ==
  LET list == Listing(DOMAIN b)
      sum[i \in 0..Cardinality(DOMAIN b)] ==
        IF i = 0 THEN 0 ELSE sum[i - 1] + b[list[i]]
  IN  sum[Cardinality(DOMAIN b)]

\* The books balance: what is in the accounts is what was put there.
Conserved == Total(balance) = Total(Opening)
=============================================================================
