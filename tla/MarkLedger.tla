----------------------------- MODULE MarkLedger -----------------------------
(***************************************************************************)
(* The MARK ledger of the storage crate: the five operations that move     *)
(* MARK (ensure_player_wallet, credit_player_mark, debit_player_mark,      *)
(* transfer_mark and accept_payment_request), each a Postgres transaction  *)
(* whose statements interleave with those of the other sessions.           *)
(*                                                                         *)
(* A session runs one operation at a time: pc[s] is the statement it will  *)
(* issue next, call[s] the arguments, work[s] the writes its transaction   *)
(* has made and not committed.  The committed tables are balance and       *)
(* hasRow (world_balances), ledger (world_ledger_entries, in the order of  *)
(* commit) and request (payment_requests).  holder is the row-lock table.  *)
(***************************************************************************)
EXTENDS Integers, Sequences

CONSTANTS
    Sessions,            \* database sessions (connections of the pool)
    Players,             \* player accounts, "player:<player_id>"
    SystemAccount,       \* SYSTEM_MARK_ACCOUNT_ID, "system:mark"
    Requests,            \* rows of payment_requests
    Payer, Payee, Due,   \* their payer, payee and amount: never updated
    Keys,                \* idempotency keys given by callers
    Amounts,             \* amounts callers ask for
    InitialMarkGrant,    \* INITIAL_MARK_GRANT
    BigintMax,           \* the largest value of a bigint column
    MaxCalls,            \* bound on the operations a behaviour starts
    None                 \* no session, key, request or target

Accounts == Players \cup {SystemAccount}

(* The key of the one-time grant is derived from the account. *)
GrantKey(a) == <<"initial_mark_grant", a>>
IdempotencyKeys == Keys \cup {GrantKey(a) : a \in Players}

ASSUME ConstantsAssumption ==
    /\ SystemAccount \notin Players
    /\ None \notin Sessions \cup Accounts \cup Requests \cup IdempotencyKeys
    /\ Payer \in [Requests -> Players]
    /\ Payee \in [Requests -> Players]
    /\ Due \in [Requests -> Nat \ {0}]
    /\ Amounts \subseteq Nat
    /\ InitialMarkGrant \in Nat \ {0}
    /\ BigintMax \in Nat
    /\ MaxCalls \in Nat

VARIABLES balance, hasRow, ledger, request, holder, pc, call, work, calls

tables   == <<balance, hasRow, ledger, request>>
sessions == <<pc, call, work>>
vars     == <<tables, holder, sessions, calls>>

-----------------------------------------------------------------------------
Rows == ({"account"} \X Accounts) \cup ({"request"} \X Requests)
            \cup ({"key"} \X IdempotencyKeys)

Operations == {"wallet", "credit", "debit", "transfer", "accept"}
Labels == {"idle", "system", "request", "from", "to", "entry", "debit",
           "credit", "paid", "commit"}

Call == [op : Operations, from : Accounts, to : Accounts \cup {None},
         amount : Nat, key : IdempotencyKeys \cup {None},
         request : Requests \cup {None}]

Entry == [debit : Accounts, credit : Accounts, amount : Nat,
          key : IdempotencyKeys \cup {None}, request : Requests \cup {None}]

Work == [rows : SUBSET Accounts, debited : BOOLEAN, credited : BOOLEAN,
         entered : BOOLEAN, paid : BOOLEAN]

NoWork == [rows |-> {}, debited |-> FALSE, credited |-> FALSE,
           entered |-> FALSE, paid |-> FALSE]

-----------------------------------------------------------------------------
(* The order of the statements in each operation: a label is mapped to the *)
(* label of the statement that follows it, "begin" to the first one.       *)
WalletScript   == [begin |-> "system", system |-> "to", to |-> "entry",
                   entry |-> "credit", credit |-> "commit"]
CreditScript   == [begin |-> "system", system |-> "to", to |-> "entry",
                   entry |-> "credit", credit |-> "commit"]
DebitScriptPlayerFirst ==
    [begin |-> "from", from |-> "system", system |-> "entry",
     entry |-> "debit", debit |-> "credit", credit |-> "commit"]
DebitScript    == [begin |-> "system", system |-> "from", from |-> "entry",
                   entry |-> "debit", debit |-> "credit", credit |-> "commit"]
TransferScript == [begin |-> "from", from |-> "to", to |-> "debit",
                   debit |-> "credit", credit |-> "entry", entry |-> "commit"]
AcceptScript   == [begin |-> "request", request |-> "from", from |-> "to",
                   to |-> "debit", debit |-> "credit", credit |-> "entry",
                   entry |-> "paid", paid |-> "commit"]

NextOf(op, label) == CASE op = "wallet"   -> WalletScript[label]
                       [] op = "credit"   -> CreditScript[label]
                       [] op = "debit"    -> DebitScript[label]
                       [] op = "transfer" -> TransferScript[label]
                       [] op = "accept"   -> AcceptScript[label]

(* What callers may ask for: any player, any key, any target, and a        *)
(* request on anybody's behalf; an unknown target resolves to None.        *)
WalletCalls == {[op |-> "wallet", from |-> SystemAccount, to |-> a,
                 amount |-> InitialMarkGrant, key |-> GrantKey(a),
                 request |-> None] : a \in Players}
CreditCalls == [op : {"credit"}, from : {SystemAccount}, to : Players,
                amount : Amounts, key : Keys, request : {None}]
DebitCalls  == [op : {"debit"}, from : Players, to : {SystemAccount},
                amount : Amounts, key : Keys, request : {None}]
TransferCalls == [op : {"transfer"}, from : Players, to : Players \cup {None},
                  amount : Amounts, key : {None}, request : {None}]
AcceptCalls == UNION {[op : {"accept"}, from : Players, to : {Payee[r]},
                       amount : {Due[r]}, key : {None}, request : {r}]
                            : r \in Requests}

NoCall == [op |-> "transfer", from |-> SystemAccount, to |-> None,
           amount |-> 0, key |-> None, request |-> None]

-----------------------------------------------------------------------------
(* Row locks.  A statement that needs a locked row waits for its holder's  *)
(* transaction to end.                                                     *)
Wanted(s) == CASE pc[s] = "system"  -> <<"account", SystemAccount>>
               [] pc[s] = "from"    -> <<"account", call[s].from>>
               [] pc[s] = "to"      -> <<"account", call[s].to>>
               [] pc[s] = "request" -> <<"request", call[s].request>>
               [] OTHER             -> <<"key", call[s].key>>

Locks(s) == \/ pc[s] \in {"system", "from", "request"}
            \/ pc[s] = "to" /\ call[s].to # None
            \/ pc[s] = "entry" /\ call[s].key # None

Available(s) == Locks(s) => holder[Wanted(s)] \in {s, None}

Acquire(s) == holder' = [holder EXCEPT ![Wanted(s)] = s]

ReleaseAll(s) == holder' = [row \in Rows |-> IF holder[row] = s THEN None
                                                                ELSE holder[row]]

Advance(s) == pc' = [pc EXCEPT ![s] = NextOf(call[s].op, pc[s])]

(* What the session's own transaction sees of an account's balance row. *)
RowVisible(s, a) == a \in hasRow \cup work[s].rows

Seen(s, a) ==
    balance[a]
      - (IF work[s].debited /\ a = call[s].from THEN call[s].amount ELSE 0)
      + (IF work[s].credited /\ a = call[s].to /\ RowVisible(s, a)
           THEN call[s].amount ELSE 0)

-----------------------------------------------------------------------------
Init ==
    /\ balance = [a \in Accounts |-> 0]
    /\ hasRow  = {}
    /\ ledger  = <<>>
    /\ request = [r \in Requests |-> [status |-> "pending", ledgerId |-> 0]]
    /\ holder  = [row \in Rows |-> None]
    /\ pc      = [s \in Sessions |-> "idle"]
    /\ call    = [s \in Sessions |-> NoCall]
    /\ work    = [s \in Sessions |-> NoWork]
    /\ calls   = 0

(* An operation starts; a non-positive amount is refused before pool.begin. *)
Begin(s, c) ==
    /\ pc[s] = "idle"
    /\ calls < MaxCalls
    /\ c.amount > 0
    /\ calls' = calls + 1
    /\ call'  = [call EXCEPT ![s] = c]
    /\ work'  = [work EXCEPT ![s] = NoWork]
    /\ pc'    = [pc EXCEPT ![s] = NextOf(c.op, "begin")]
    /\ UNCHANGED <<tables, holder>>

(* The transaction ends without a commit: an error return, a dropped       *)
(* connection or a deadlock; its writes and its locks are gone.            *)
RollbackKeepingLocks(s) ==
    /\ pc'   = [pc EXCEPT ![s] = "idle"]
    /\ call' = [call EXCEPT ![s] = NoCall]
    /\ work' = [work EXCEPT ![s] = NoWork]
    /\ UNCHANGED <<tables, holder, calls>>

Rollback(s) ==
    /\ pc'   = [pc EXCEPT ![s] = "idle"]
    /\ call' = [call EXCEPT ![s] = NoCall]
    /\ work' = [work EXCEPT ![s] = NoWork]
    /\ ReleaseAll(s)
    /\ UNCHANGED <<tables, calls>>

(* The upsert of world_accounts locks the system row until the end. *)
EnsureSystemAccount(s) ==
    /\ pc[s] = "system"
    /\ Available(s)
    /\ Acquire(s)
    /\ Advance(s)
    /\ UNCHANGED <<tables, call, work, calls>>

(* ensure_player_account and ensure_balance_row for one side: the upsert   *)
(* locks the account's row, and with it the balance row it then ensures.   *)
EnsureAccount(s, side, a) ==
    /\ pc[s] = side
    /\ a # None
    /\ Available(s)
    /\ Acquire(s)
    /\ work' = [work EXCEPT ![s].rows = @ \cup ({a} \ hasRow)]
    /\ Advance(s)
    /\ UNCHANGED <<tables, call, calls>>

(* SELECT ... FOR UPDATE of the request, then the checks on what it read. *)
Acceptable(s) ==
    LET r == call[s].request
    IN  /\ Payer[r] = call[s].from
        /\ request[r].status = "pending"
        /\ Payer[r] # Payee[r]

ReadRequestUnlocked(s) ==
    /\ pc[s] = "request"
    /\ Acceptable(s)
    /\ Advance(s)
    /\ UNCHANGED <<tables, holder, call, work, calls>>

LockRequest(s) ==
    /\ pc[s] = "request"
    /\ Available(s)
    /\ Acceptable(s)
    /\ Acquire(s)
    /\ Advance(s)
    /\ UNCHANGED <<tables, call, work, calls>>

RefuseRequest(s) ==
    /\ pc[s] = "request"
    /\ Available(s)
    /\ ~Acceptable(s)
    /\ Rollback(s)

(* resolve_payment_target finds no identity: PaymentTargetNotFound. *)
TargetNotFound(s) ==
    /\ pc[s] = "to"
    /\ call[s].to = None
    /\ Rollback(s)

(* UPDATE ... SET amount = amount - x WHERE amount >= x. *)
DebitUnguarded(s) ==
    /\ pc[s] = "debit"
    /\ call[s].from # call[s].to
    /\ work' = [work EXCEPT ![s].debited = TRUE]
    /\ Advance(s)
    /\ UNCHANGED <<tables, holder, call, calls>>

DebitBalance(s) ==
    /\ pc[s] = "debit"
    /\ call[s].from # call[s].to
    /\ Seen(s, call[s].from) >= call[s].amount
    /\ work' = [work EXCEPT ![s].debited = TRUE]
    /\ Advance(s)
    /\ UNCHANGED <<tables, holder, call, calls>>

(* SelfPayment is found after both accounts are ensured, before the debit; *)
(* InsufficientFunds when the guarded UPDATE touches no row.               *)
RefuseDebit(s) ==
    /\ pc[s] = "debit"
    /\ \/ call[s].from = call[s].to
       \/ Seen(s, call[s].from) < call[s].amount
    /\ Rollback(s)

(* UPDATE ... SET amount = amount + x: no row, no effect and no error (the *)
(* system account never gets a balance row).                               *)
Overflows(s) ==
    /\ RowVisible(s, call[s].to)
    /\ Seen(s, call[s].to) + call[s].amount > BigintMax

CreditBalance(s) ==
    /\ pc[s] = "credit"
    /\ ~Overflows(s)
    /\ work' = [work EXCEPT ![s].credited = TRUE]
    /\ Advance(s)
    /\ UNCHANGED <<tables, holder, call, calls>>

OutOfRange(s) ==
    /\ pc[s] = "credit"
    /\ Overflows(s)
    /\ Rollback(s)

(* INSERT of the ledger entry; with a key, ON CONFLICT DO NOTHING, and the *)
(* balance updates are skipped when nothing was inserted.                  *)
KeyUsed(key) == \E i \in DOMAIN ledger : ledger[i].key = key

InsertEntryAlways(s) ==
    /\ pc[s] = "entry"
    /\ Available(s)
    /\ IF call[s].key # None THEN Acquire(s) ELSE UNCHANGED holder
    /\ work' = [work EXCEPT ![s].entered = TRUE]
    /\ Advance(s)
    /\ UNCHANGED <<tables, call, calls>>

InsertEntry(s) ==
    /\ pc[s] = "entry"
    /\ Available(s)
    /\ call[s].key # None => ~KeyUsed(call[s].key)
    /\ IF call[s].key # None THEN Acquire(s) ELSE UNCHANGED holder
    /\ work' = [work EXCEPT ![s].entered = TRUE]
    /\ Advance(s)
    /\ UNCHANGED <<tables, call, calls>>

EntryExistsGoesOn(s) ==
    /\ pc[s] = "entry"
    /\ Available(s)
    /\ call[s].key # None
    /\ KeyUsed(call[s].key)
    /\ Advance(s)
    /\ UNCHANGED <<tables, holder, call, work, calls>>

EntryExists(s) ==
    /\ pc[s] = "entry"
    /\ Available(s)
    /\ call[s].key # None
    /\ KeyUsed(call[s].key)
    /\ pc' = [pc EXCEPT ![s] = "commit"]
    /\ UNCHANGED <<tables, holder, call, work, calls>>

(* UPDATE payment_requests SET status = 'paid', ledger_id = ... *)
MarkPaid(s) ==
    /\ pc[s] = "paid"
    /\ work' = [work EXCEPT ![s].paid = TRUE]
    /\ Advance(s)
    /\ UNCHANGED <<tables, holder, call, calls>>

EntryOf(s) == [debit |-> call[s].from, credit |-> call[s].to,
               amount |-> call[s].amount, key |-> call[s].key,
               request |-> call[s].request]

(* COMMIT publishes the transaction's writes in one step. *)
Commit(s) ==
    /\ pc[s] = "commit"
    /\ balance' = [a \in Accounts |-> Seen(s, a)]
    /\ hasRow'  = hasRow \cup work[s].rows
    /\ ledger'  = IF work[s].entered THEN Append(ledger, EntryOf(s)) ELSE ledger
    /\ request' = IF work[s].paid
                    THEN [request EXCEPT ![call[s].request] =
                            [status |-> "paid", ledgerId |-> Len(ledger) + 1]]
                    ELSE request
    /\ pc'      = [pc EXCEPT ![s] = "idle"]
    /\ call'    = [call EXCEPT ![s] = NoCall]
    /\ work'    = [work EXCEPT ![s] = NoWork]
    /\ ReleaseAll(s)
    /\ UNCHANGED calls

-----------------------------------------------------------------------------
(* Postgres' deadlock detector: when the sessions of a set wait for one    *)
(* another in a cycle, one of them gets an error.                          *)
WaitsFor(s, t) == /\ ~Available(s)
                  /\ holder[Wanted(s)] = t

Deadlocked(s) ==
    \E C \in SUBSET Sessions :
        /\ s \in C
        /\ \A t \in C : /\ \E u \in C : WaitsFor(t, u)
                        /\ \E u \in C : WaitsFor(u, t)

DeadlockAbort(s) ==
    /\ Deadlocked(s)
    /\ Rollback(s)

(* The client or the connection goes away in the middle. *)
Disconnect(s) ==
    /\ pc[s] # "idle"
    /\ Rollback(s)

Statement(s) ==
    \/ EnsureSystemAccount(s)
    \/ EnsureAccount(s, "from", call[s].from)
    \/ EnsureAccount(s, "to", call[s].to)
    \/ LockRequest(s)
    \/ RefuseRequest(s)
    \/ TargetNotFound(s)
    \/ DebitBalance(s)
    \/ RefuseDebit(s)
    \/ CreditBalance(s)
    \/ OutOfRange(s)
    \/ InsertEntry(s)
    \/ EntryExists(s)
    \/ MarkPaid(s)
    \/ Commit(s)

Start(s) ==
    \/ \E c \in WalletCalls   : Begin(s, c)
    \/ \E c \in CreditCalls   : Begin(s, c)
    \/ \E c \in DebitCalls    : Begin(s, c)
    \/ \E c \in TransferCalls : Begin(s, c)
    \/ \E c \in AcceptCalls   : Begin(s, c)

Next == \E s \in Sessions : \/ Start(s)
                            \/ Statement(s)
                            \/ DeadlockAbort(s)
                            \/ Disconnect(s)

Spec == Init /\ [][Next]_vars

(* Every open transaction goes on (the server awaits each statement) and   *)
(* the detector resolves every cycle.  Callers owe nothing.                *)
FairSpec == Spec /\ \A s \in Sessions : /\ WF_vars(Statement(s))
                                        /\ WF_vars(DeadlockAbort(s))

-----------------------------------------------------------------------------
(* Every variable has its type; committed balances never go below zero and *)
(* never leave the bigint range (schema.rs: world_balances.amount >= 0).   *)
TypeOK ==
    /\ balance \in [Accounts -> 0..BigintMax]
    /\ hasRow \in SUBSET Players
    /\ ledger \in Seq(Entry)
    /\ request \in [Requests -> [status : {"pending", "paid"}, ledgerId : Nat]]
    /\ holder \in [Rows -> Sessions \cup {None}]
    /\ pc \in [Sessions -> Labels]
    /\ call \in [Sessions -> Call]
    /\ work \in [Sessions -> Work]
    /\ calls \in 0..MaxCalls

(* No idempotency key is ever posted twice, whatever the retries and the   *)
(* interleavings: in particular a player gets one initial grant            *)
(* (ensure_player_wallet runs at every login).                             *)
KeysPostedOnce ==
    \A i, j \in DOMAIN ledger :
        ledger[i].key # None /\ ledger[i].key = ledger[j].key => i = j

(* A payment request is paid exactly when one ledger entry settles it, the *)
(* entry its ledger_id names, between its own parties and for its amount:  *)
(* concurrent /pay accept of one request never take the money twice.       *)
RequestsPaidOnce ==
    \A r \in Requests :
        LET settling == {i \in DOMAIN ledger : ledger[i].request = r}
        IN  IF request[r].status = "paid"
              THEN /\ settling = {request[r].ledgerId}
                   /\ LET e == ledger[request[r].ledgerId]
                      IN  /\ e.debit = Payer[r]
                          /\ e.credit = Payee[r]
                          /\ e.amount = Due[r]
              ELSE settling = {}

(* What the entries of the ledger add up to for an account. *)
Flow(e, a) == (IF e.credit = a THEN e.amount ELSE 0)
                - (IF e.debit = a THEN e.amount ELSE 0)

Total(d) == LET sum[n \in 0..Len(d)] == IF n = 0 THEN 0 ELSE sum[n - 1] + d[n]
            IN  sum[Len(d)]

Net(a) == Total([n \in 1..Len(ledger) |-> Flow(ledger[n], a)])

(* The README's ledger model: "Player balances are a cached view over      *)
(* ledger activity" - the cached amount is what the committed entries add  *)
(* up to, after every commit, rollback and skipped duplicate.              *)
BalancesMatchLedger == \A p \in Players : balance[p] = Net(p)

(* Statement by statement, with locks, rollbacks, disconnects and retries, *)
(* the five operations do what AtomicLedger does in single steps: nothing  *)
(* of an unfinished transaction is ever seen in the committed tables.      *)
Atomic == INSTANCE AtomicLedger
            WITH balance <- [p \in Players |-> balance[p]],
                 settled <- {r \in Requests : request[r].status = "paid"},
                 Keys <- IdempotencyKeys,
                 Amounts <- Amounts \cup {InitialMarkGrant}

ImplementsAtomicLedger == Atomic!Spec

(* Two payments in opposite directions can deadlock in the database; an    *)
(* operation of the system account never can, because each of the three    *)
(* locks the system row before any player's row.                           *)
IssuanceNeverDeadlocks ==
    \A s \in Sessions :
        call[s].op \in {"wallet", "credit", "debit"} => ~Deadlocked(s)

(* Every operation that starts ends, committed or rolled back: lock waits, *)
(* deadlocks included, never hang a session for good.                      *)
EveryCallEnds == \A s \in Sessions : pc[s] # "idle" ~> pc[s] = "idle"
=============================================================================
