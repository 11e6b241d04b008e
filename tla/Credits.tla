------------------------------ MODULE Credits -------------------------------
(***************************************************************************)
(* app/services/credits.py: a balance column and a ledger table, written   *)
(* by two separate statements.  ledger[a] is the sum of the agent's rows   *)
(* in credit_transactions, starting with the grant made at signup.         *)
(***************************************************************************)
EXTENDS Nonces, Integers

CONSTANTS
    StartCredits,  \* credit_balance and signup grant of every agent
    MaxGrants      \* bound: admin grants in a behaviour

ASSUME CreditsAssumption == StartCredits \in Nat /\ MaxGrants \in Nat

VARIABLES
    balance,       \* agents.credit_balance
    ledger,        \* sum of credit_transactions.amount per agent
    granted,       \* credits added to the balance since signup
    unbooked       \* of those, the ones whose ledger row is not written yet

creditVars == <<balance, ledger, granted, unbooked>>

CreditsTypeOK ==
    /\ balance \in [Agents -> Nat]
    /\ ledger \in [Agents -> Int]
    /\ granted \in [Agents -> 0..MaxGrants]
    /\ unbooked \in [Agents -> Nat]

CreditsInit ==
    /\ balance = [a \in Agents |-> StartCredits]
    /\ ledger = [a \in Agents |-> StartCredits]
    /\ granted = [a \in Agents |-> 0]
    /\ unbooked = [a \in Agents |-> 0]

(* Mutant: the UPDATE without AND credit_balance >= 1.                      *)
CanDeductAlways(a) == TRUE

(* deduct_credit, first statement: the conditional UPDATE and its failure.  *)
CanDeduct(a) == balance[a] >= 1
Deduct(a) == balance' = [balance EXCEPT ![a] = @ - 1] /\ UNCHANGED <<ledger, granted, unbooked>>

(* deduct_credit, second statement: the ledger row.                         *)
BookDebit(a) == ledger' = [ledger EXCEPT ![a] = @ - 1] /\ UNCHANGED <<balance, granted, unbooked>>

(* add_credits, its two statements, one credit at a time.                   *)
AddCredit(a) ==
    /\ granted[a] < MaxGrants
    /\ balance' = [balance EXCEPT ![a] = @ + 1]
    /\ granted' = [granted EXCEPT ![a] = @ + 1]
    /\ unbooked' = [unbooked EXCEPT ![a] = @ + 1]
    /\ UNCHANGED ledger

BookGrant(a) ==
    /\ unbooked[a] > 0
    /\ ledger' = [ledger EXCEPT ![a] = @ + 1]
    /\ unbooked' = [unbooked EXCEPT ![a] = @ - 1]
    /\ UNCHANGED <<balance, granted>>
=============================================================================
