---------------------------- MODULE AtomicLedger ----------------------------
(***************************************************************************)
(* What the ledger promises its callers: MARK moves in single steps, each  *)
(* step appends one two-sided entry and changes the two balances it names, *)
(* a player never pays more than it has, an idempotency key is used once   *)
(* and a payment request is settled once.  There are no transactions, rows *)
(* or locks here; MarkLedger is shown to implement this specification.     *)
(***************************************************************************)
EXTENDS Integers, Sequences

CONSTANTS Players, SystemAccount, Requests, Payer, Payee, Due, Keys,
          Amounts, None

VARIABLES balance,   \* what each player owns
          ledger,    \* the entries, oldest first
          settled    \* the requests that have been paid

vars == <<balance, ledger, settled>>

Init == /\ balance = [p \in Players |-> 0]
        /\ ledger = <<>>
        /\ settled = {}

Unused(key) == \A i \in DOMAIN ledger : ledger[i].key # key

(* One entry, and the balances of the two sides with it. *)
Post(e) ==
    /\ e.debit # e.credit
    /\ e.amount > 0
    /\ e.debit \in Players => balance[e.debit] >= e.amount
    /\ e.key # None => Unused(e.key)
    /\ ledger' = Append(ledger, e)
    /\ balance' = [p \in Players |->
                     balance[p] + (IF p = e.credit THEN e.amount ELSE 0)
                                - (IF p = e.debit THEN e.amount ELSE 0)]

Movement(debit, credit, amount, key, request) ==
    [debit |-> debit, credit |-> credit, amount |-> amount, key |-> key,
     request |-> request]

(* Grants and credits come from the system account, debits go back to it. *)
Issue(p, amount, key) ==
    /\ Post(Movement(SystemAccount, p, amount, key, None))
    /\ UNCHANGED settled

Redeem(p, amount, key) ==
    /\ Post(Movement(p, SystemAccount, amount, key, None))
    /\ UNCHANGED settled

Pay(p, q, amount) ==
    /\ Post(Movement(p, q, amount, None, None))
    /\ UNCHANGED settled

Settle(r) ==
    /\ r \notin settled
    /\ Post(Movement(Payer[r], Payee[r], Due[r], None, r))
    /\ settled' = settled \cup {r}

Next ==
    \/ \E p \in Players, amount \in Amounts, key \in Keys :
          Issue(p, amount, key) \/ Redeem(p, amount, key)
    \/ \E p, q \in Players, amount \in Amounts : Pay(p, q, amount)
    \/ \E r \in Requests : Settle(r)

Spec == Init /\ [][Next]_vars
=============================================================================
