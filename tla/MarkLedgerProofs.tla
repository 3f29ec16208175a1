-------------------------- MODULE MarkLedgerProofs --------------------------
(***************************************************************************)
(* Proofs about MarkLedger, for any sets of sessions, players, requests    *)
(* and keys.  The inductive invariant says, for each open transaction,     *)
(* which arguments it may have, which statements its buffered writes come  *)
(* from, which rows it holds locked, and that what it read under those     *)
(* locks (funds, free key, pending request) is still true.                 *)
(***************************************************************************)
EXTENDS MarkLedger, WellFoundedInduction, TLAPS

Keyed == {"wallet", "credit", "debit"}

(* The arguments of an open operation. *)
CallInv(s) ==
    LET k == call[s]
    IN  /\ k.amount > 0
        /\ k.op \in {"wallet", "credit"} =>
              /\ k.from = SystemAccount /\ k.to \in Players
              /\ k.key # None /\ k.request = None
              /\ pc[s] \in {"system", "to", "entry", "credit", "commit"}
        /\ k.op = "debit" =>
              /\ k.from \in Players /\ k.to = SystemAccount
              /\ k.key # None /\ k.request = None
              /\ pc[s] \in {"system", "from", "entry", "debit", "credit", "commit"}
        /\ k.op = "transfer" =>
              /\ k.from \in Players
              /\ k.to \in Players \cup {None}
              /\ k.key = None /\ k.request = None
              /\ pc[s] \in {"from", "to", "debit", "credit", "entry", "commit"}
        /\ k.op = "accept" =>
              /\ k.from \in Players /\ k.request \in Requests
              /\ k.to = Payee[k.request] /\ k.amount = Due[k.request]
              /\ k.key = None
              /\ pc[s] \in {"request", "from", "to", "debit", "credit",
                            "entry", "paid", "commit"}
        /\ k.op # "accept" => k.amount \in Amounts \cup {InitialMarkGrant}

(* The writes its transaction has buffered when it is at a label. *)
WorkInv(s) ==
    LET k == call[s]
        w == work[s]
    IN  /\ w.rows \subseteq Players
        /\ w.paid => k.op = "accept"
        /\ w.debited => k.from # k.to
        /\ k.op \in Keyed =>
              /\ pc[s] \in {"system", "from", "to", "entry"} =>
                    ~w.entered /\ ~w.debited /\ ~w.credited
              /\ pc[s] = "debit" => w.entered /\ ~w.debited /\ ~w.credited
              /\ pc[s] = "credit" => /\ w.entered /\ ~w.credited
                                     /\ (w.debited <=> k.op = "debit")
              /\ pc[s] = "commit" => /\ (w.entered <=> w.credited)
                                     /\ (w.debited <=> w.entered /\ k.op = "debit")
        /\ k.op \notin Keyed =>
              /\ pc[s] \in {"request", "from", "to", "debit"} =>
                    ~w.entered /\ ~w.debited /\ ~w.credited /\ ~w.paid
              /\ pc[s] = "credit" => ~w.entered /\ w.debited /\ ~w.credited /\ ~w.paid
              /\ pc[s] = "entry" => ~w.entered /\ w.debited /\ w.credited /\ ~w.paid
              /\ pc[s] = "paid" => w.entered /\ w.debited /\ w.credited /\ ~w.paid
              /\ pc[s] = "commit" => /\ w.entered /\ w.debited /\ w.credited
                                     /\ (w.paid <=> k.op = "accept")

(* The rows it holds, and what it knows of them. *)
PastFrom(s) == pc[s] \notin {"system", "request", "from"}
PastTo(s)   == pc[s] \notin {"system", "request", "from", "to"}

LockInv(s) ==
    LET k == call[s]
        w == work[s]
    IN  /\ PastFrom(s) /\ k.op \in {"debit", "transfer", "accept"} =>
              holder[<<"account", k.from>>] = s
        /\ PastTo(s) /\ k.op # "debit" =>
              /\ k.to # None
              /\ holder[<<"account", k.to>>] = s
              /\ RowVisible(s, k.to)
        /\ w.debited => balance[k.from] >= k.amount
        /\ w.credited /\ k.op # "debit" => balance[k.to] + k.amount <= BigintMax
        /\ k.key # None /\ w.entered =>
              /\ holder[<<"key", k.key>>] = s
              /\ ~KeyUsed(k.key)
        /\ k.op = "accept" /\ pc[s] # "request" =>
              /\ holder[<<"request", k.request>>] = s
              /\ request[k.request].status = "pending"
              /\ Payer[k.request] = k.from
              /\ k.from # k.to

SessionInv(s) == IF pc[s] = "idle" THEN work[s] = NoWork
                                   ELSE CallInv(s) /\ WorkInv(s) /\ LockInv(s)

IInv == /\ TypeOK
        /\ \A s \in Sessions : SessionInv(s)
        /\ KeysPostedOnce
        /\ RequestsPaidOnce

-----------------------------------------------------------------------------
(* The scripts as a table: the label after each label of each operation. *)
LEMMA ScriptSteps ==
    /\ \A op \in {"wallet", "credit"} :
          /\ NextOf(op, "begin") = "system" /\ NextOf(op, "system") = "to"
          /\ NextOf(op, "to") = "entry"     /\ NextOf(op, "entry") = "credit"
          /\ NextOf(op, "credit") = "commit"
    /\ NextOf("debit", "begin") = "system" /\ NextOf("debit", "system") = "from"
    /\ NextOf("debit", "from") = "entry"   /\ NextOf("debit", "entry") = "debit"
    /\ NextOf("debit", "debit") = "credit" /\ NextOf("debit", "credit") = "commit"
    /\ NextOf("transfer", "begin") = "from" /\ NextOf("transfer", "from") = "to"
    /\ NextOf("transfer", "to") = "debit"   /\ NextOf("transfer", "debit") = "credit"
    /\ NextOf("transfer", "credit") = "entry"
    /\ NextOf("transfer", "entry") = "commit"
    /\ NextOf("accept", "begin") = "request" /\ NextOf("accept", "request") = "from"
    /\ NextOf("accept", "from") = "to"       /\ NextOf("accept", "to") = "debit"
    /\ NextOf("accept", "debit") = "credit"  /\ NextOf("accept", "credit") = "entry"
    /\ NextOf("accept", "entry") = "paid"    /\ NextOf("accept", "paid") = "commit"
  BY DEF NextOf, WalletScript, CreditScript, DebitScript, TransferScript, AcceptScript

(* What a step leaves to the sessions that do not take it: a transaction   *)
(* keeps its invariant while the rows it holds locked keep their contents. *)
LEMMA BystanderKeepsInv ==
    ASSUME IInv, NEW s \in Sessions,
           pc'[s] = pc[s], call'[s] = call[s], work'[s] = work[s],
           \A row \in Rows : holder[row] = s => holder'[row] = s,
           \A x \in Accounts :
                holder[<<"account", x>>] = s => balance'[x] = balance[x],
           hasRow \subseteq hasRow',
           \A k \in IdempotencyKeys :
                holder[<<"key", k>>] = s /\ ~KeyUsed(k) => ~KeyUsed(k)',
           \A r \in Requests :
                holder[<<"request", r>>] = s => request'[r] = request[r]
    PROVE  SessionInv(s)'
<1>1. CASE pc[s] = "idle"
  BY <1>1 DEF IInv, SessionInv
<1>2. CASE pc[s] # "idle"
  <2>1. CallInv(s) /\ WorkInv(s) /\ LockInv(s)
    BY <1>2 DEF IInv, SessionInv
  <2>2. CallInv(s)' /\ WorkInv(s)'
    BY <2>1 DEF CallInv, WorkInv
  <2>3. call[s] \in Call /\ work[s] \in Work
    BY DEF IInv, TypeOK
  <2>4. LockInv(s)'
    <3> DEFINE k == call[s]
               w == work[s]
    <3>0. w.debited => k.op \in {"debit", "transfer", "accept"} /\ PastFrom(s)
      BY <2>1, <2>3 DEF CallInv, WorkInv, PastFrom, Call, Operations, Keyed
    <3>1. /\ k.op \in {"debit", "transfer", "accept"} /\ PastFrom(s)
                => holder'[<<"account", k.from>>] = s
          /\ w.debited => balance'[k.from] >= k.amount
      <4>1. k.from \in Accounts /\ <<"account", k.from>> \in Rows
        BY <2>3 DEF Call, Rows
      <4>2. k.op \in {"debit", "transfer", "accept"} /\ PastFrom(s)
                => holder[<<"account", k.from>>] = s
        BY <2>1 DEF LockInv
      <4>3. w.debited => balance[k.from] >= k.amount
        BY <2>1 DEF LockInv
      <4>4. QED
        BY <3>0, <4>1, <4>2, <4>3
    <3>2. PastTo(s) /\ k.op # "debit" =>
             /\ k.to # None /\ holder'[<<"account", k.to>>] = s /\ RowVisible(s, k.to)'
      BY <2>1, <2>3 DEF LockInv, PastTo, Call, Rows, Accounts, RowVisible
    <3>3. w.credited /\ k.op # "debit" => balance'[k.to] + k.amount <= BigintMax
      <4>1. w.credited /\ k.op # "debit" => PastTo(s)
        BY <2>1, <2>3 DEF CallInv, WorkInv, PastTo, Call, Operations, Keyed
      <4>2. PastTo(s) /\ k.op # "debit" => k.to \in Accounts
                                        /\ holder[<<"account", k.to>>] = s
        BY <2>1, <2>3 DEF LockInv, Call
      <4>3. w.credited /\ k.op # "debit" => balance[k.to] + k.amount <= BigintMax
        BY <2>1 DEF LockInv
      <4>4. QED
        BY <4>1, <4>2, <4>3
    <3>4. k.key # None /\ w.entered =>
             holder'[<<"key", k.key>>] = s /\ ~KeyUsed(k.key)'
      BY <2>1, <2>3 DEF LockInv, Call, Rows
    <3>5. k.op = "accept" /\ pc[s] # "request" =>
             /\ holder'[<<"request", k.request>>] = s
             /\ request'[k.request].status = "pending"
             /\ Payer[k.request] = k.from /\ k.from # k.to
      BY <2>1, <2>3 DEF LockInv, CallInv, Call, Rows
    <3>6. QED
      BY <3>1, <3>2, <3>3, <3>4, <3>5 DEF LockInv, PastFrom, PastTo
  <2>5. QED
    BY <1>2, <2>2, <2>4 DEF SessionInv
<1>3. QED
  BY <1>1, <1>2

-----------------------------------------------------------------------------
(* A step of s that leaves the committed tables alone preserves the        *)
(* invariant when it does so for s itself.                                 *)
LEMMA QuietStep ==
    ASSUME IInv, NEW s \in Sessions,
           UNCHANGED tables,
           \A t \in Sessions \ {s} :
               /\ pc'[t] = pc[t] /\ call'[t] = call[t] /\ work'[t] = work[t]
               /\ \A row \in Rows : holder[row] = t => holder'[row] = t,
           holder' \in [Rows -> Sessions \cup {None}],
           pc' \in [Sessions -> Labels], call' \in [Sessions -> Call],
           work' \in [Sessions -> Work], calls' \in 0..MaxCalls,
           SessionInv(s)'
    PROVE  IInv'
<1>1. TypeOK'
  BY DEF IInv, TypeOK, tables
<1>2. ASSUME NEW t \in Sessions PROVE SessionInv(t)'
  <2>1. CASE t = s
    BY <2>1
  <2>2. CASE t # s
    BY <2>2, BystanderKeepsInv DEF tables, KeyUsed
  <2>3. QED
    BY <2>1, <2>2
<1>3. KeysPostedOnce' /\ RequestsPaidOnce'
  BY DEF IInv, KeysPostedOnce, RequestsPaidOnce, tables
<1>4. QED
  BY <1>1, <1>2, <1>3 DEF IInv

LEMMA RollbackKeepsInv ==
    ASSUME IInv, NEW s \in Sessions, Rollback(s)
    PROVE  IInv'
<1>1. SessionInv(s)'
  BY DEF Rollback, SessionInv, IInv, TypeOK
<1>2. NoWork \in Work /\ NoCall \in Call
  BY ConstantsAssumption DEF NoWork, Work, NoCall, Call, Accounts, Operations
<1>3. UNCHANGED tables /\ UNCHANGED calls
  BY DEF Rollback, tables
<1>4. /\ pc' \in [Sessions -> Labels] /\ call' \in [Sessions -> Call]
      /\ work' \in [Sessions -> Work] /\ calls' \in 0..MaxCalls
      /\ holder' \in [Rows -> Sessions \cup {None}]
  BY <1>2, <1>3 DEF Rollback, ReleaseAll, IInv, TypeOK, Labels
<1>5. \A t \in Sessions \ {s} :
        /\ pc'[t] = pc[t] /\ call'[t] = call[t] /\ work'[t] = work[t]
        /\ \A row \in Rows : holder[row] = t => holder'[row] = t
  BY DEF Rollback, ReleaseAll, IInv, TypeOK
<1>6. QED
  BY <1>1, <1>3, <1>4, <1>5, QuietStep

(* Every call a caller may make has the shape CallInv asks for at the      *)
(* first label of its operation.                                           *)
LEMMA CallsWellFormed ==
    ASSUME NEW c \in WalletCalls \cup CreditCalls \cup DebitCalls
                        \cup TransferCalls \cup AcceptCalls
    PROVE  /\ c \in Call
           /\ c.op \in {"wallet", "credit"} =>
                 /\ c.from = SystemAccount /\ c.to \in Players
                 /\ c.key # None /\ c.request = None
           /\ c.op = "debit" =>
                 /\ c.from \in Players /\ c.to = SystemAccount
                 /\ c.key # None /\ c.request = None
           /\ c.op = "transfer" =>
                 /\ c.from \in Players /\ c.to \in Players \cup {None}
                 /\ c.key = None /\ c.request = None
           /\ c.op = "accept" =>
                 /\ c.from \in Players /\ c.request \in Requests
                 /\ c.to = Payee[c.request] /\ c.amount = Due[c.request]
                 /\ c.key = None
           /\ c.op # "accept" => c.amount \in Amounts \cup {InitialMarkGrant}
<1> USE ConstantsAssumption DEF Call, Accounts, Operations, IdempotencyKeys
<1>1. CASE c \in WalletCalls
  BY <1>1 DEF WalletCalls
<1>2. CASE c \in CreditCalls
  BY <1>2 DEF CreditCalls
<1>3. CASE c \in DebitCalls
  BY <1>3 DEF DebitCalls
<1>4. CASE c \in TransferCalls
  BY <1>4 DEF TransferCalls
<1>5. CASE c \in AcceptCalls
  BY <1>5 DEF AcceptCalls
<1>6. QED
  BY <1>1, <1>2, <1>3, <1>4, <1>5

LEMMA BeginKeepsInv ==
    ASSUME IInv, NEW s \in Sessions,
           NEW c \in WalletCalls \cup CreditCalls \cup DebitCalls
                        \cup TransferCalls \cup AcceptCalls,
           Begin(s, c)
    PROVE  IInv'
<1>1. c \in Call /\ c.amount > 0
  BY CallsWellFormed DEF Begin
<1>2. /\ call'[s] = c /\ work'[s] = NoWork
      /\ pc'[s] = NextOf(c.op, "begin")
      /\ UNCHANGED <<tables, holder>>
  BY DEF Begin, IInv, TypeOK
<1>3. /\ c.op \in {"wallet", "credit", "debit"} => pc'[s] = "system"
      /\ c.op = "transfer" => pc'[s] = "from"
      /\ c.op = "accept" => pc'[s] = "request"
      /\ pc'[s] \in {"system", "from", "request"}
  BY <1>1, <1>2, ScriptSteps DEF Call, Operations
<1>4. SessionInv(s)'
  <2>1. CallInv(s)'
    BY <1>1, <1>2, <1>3, CallsWellFormed DEF CallInv, Call, Operations
  <2>2. WorkInv(s)'
    <3>1. /\ work'[s].rows = {} /\ ~work'[s].debited /\ ~work'[s].credited
          /\ ~work'[s].entered /\ ~work'[s].paid
      BY <1>2 DEF NoWork
    <3>2. QED
      BY <1>3, <3>1 DEF WorkInv
  <2>3. LockInv(s)'
    BY <1>2, <1>3 DEF LockInv, PastFrom, PastTo, NoWork
  <2>4. QED
    BY <1>3, <2>1, <2>2, <2>3 DEF SessionInv
<1>5. NoWork \in Work
  BY DEF NoWork, Work
<1>6. /\ pc' \in [Sessions -> Labels] /\ call' \in [Sessions -> Call]
      /\ work' \in [Sessions -> Work] /\ calls' \in 0..MaxCalls
      /\ holder' \in [Rows -> Sessions \cup {None}]
  BY <1>1, <1>2, <1>3, <1>5, ConstantsAssumption DEF Begin, IInv, TypeOK, Labels
<1>7. \A t \in Sessions \ {s} :
        /\ pc'[t] = pc[t] /\ call'[t] = call[t] /\ work'[t] = work[t]
        /\ \A row \in Rows : holder[row] = t => holder'[row] = t
  BY DEF Begin, IInv, TypeOK
<1>8. QED
  BY <1>2, <1>4, <1>6, <1>7, QuietStep

-----------------------------------------------------------------------------
(* Taking a free row, or one's own, takes nothing from anybody else. *)
LEMMA AcquireKeepsLocks ==
    ASSUME IInv, NEW s \in Sessions, Wanted(s) \in Rows,
           holder[Wanted(s)] \in {s, None}, Acquire(s)
    PROVE  /\ holder' \in [Rows -> Sessions \cup {None}]
           /\ holder'[Wanted(s)] = s
           /\ \A t \in Sessions, row \in Rows :
                 holder[row] = t => holder'[row] = t
  BY ConstantsAssumption DEF Acquire, IInv, TypeOK

(* A statement of s changes only the session variables of s. *)
LEMMA StatementKeepsInv ==
    ASSUME IInv, NEW s \in Sessions, UNCHANGED <<tables, call, calls>>,
           NEW w \in Work, work' = [work EXCEPT ![s] = w],
           NEW label \in Labels, pc' = [pc EXCEPT ![s] = label],
           holder' \in [Rows -> Sessions \cup {None}],
           \A t \in Sessions, row \in Rows : holder[row] = t => holder'[row] = t,
           SessionInv(s)'
    PROVE  IInv'
<1>1. /\ UNCHANGED tables
      /\ pc' \in [Sessions -> Labels] /\ call' \in [Sessions -> Call]
      /\ work' \in [Sessions -> Work] /\ calls' \in 0..MaxCalls
  BY DEF IInv, TypeOK
<1>2. \A t \in Sessions \ {s} :
        /\ pc'[t] = pc[t] /\ call'[t] = call[t] /\ work'[t] = work[t]
        /\ \A row \in Rows : holder[row] = t => holder'[row] = t
  BY DEF IInv, TypeOK
<1>3. QED
  BY <1>1, <1>2, QuietStep

(* What the invariant says of the session whose statement runs. *)
LEMMA OpenSession ==
    ASSUME IInv, NEW s \in Sessions, pc[s] # "idle"
    PROVE  /\ CallInv(s) /\ WorkInv(s) /\ LockInv(s)
           /\ call[s] \in Call /\ work[s] \in Work
           /\ call[s].op \in Operations
  BY DEF IInv, SessionInv, TypeOK, Call

LEMMA EnsureSystemKeepsInv ==
    ASSUME IInv, NEW s \in Sessions, EnsureSystemAccount(s)
    PROVE  IInv'
<1>1. pc[s] = "system" /\ UNCHANGED <<tables, call, work, calls>>
  BY DEF EnsureSystemAccount
<1>2. CallInv(s) /\ WorkInv(s) /\ LockInv(s) /\ call[s] \in Call /\ work[s] \in Work
      /\ call[s].op \in Operations
  BY <1>1, OpenSession
<1>3. call[s].op \in Keyed
  BY <1>1, <1>2 DEF CallInv, Operations, Keyed
<1>4. Wanted(s) = <<"account", SystemAccount>> /\ Wanted(s) \in Rows
  BY <1>1 DEF Wanted, Rows, Accounts
<1>5. /\ holder' \in [Rows -> Sessions \cup {None}]
      /\ \A t \in Sessions, row \in Rows : holder[row] = t => holder'[row] = t
  BY <1>1, <1>4, AcquireKeepsLocks DEF EnsureSystemAccount, Available, Locks
<1>6. pc' = [pc EXCEPT ![s] = pc'[s]] /\ pc'[s] \in {"from", "to"}
      /\ (call[s].op = "debit" => pc'[s] = "from")
      /\ (call[s].op \in {"wallet", "credit"} => pc'[s] = "to")
  BY <1>1, <1>3, ScriptSteps DEF EnsureSystemAccount, Advance, IInv, TypeOK, Keyed
<1>7. SessionInv(s)'
  <2>1. CallInv(s)'
    BY <1>1, <1>2, <1>3, <1>6 DEF CallInv, Keyed
  <2>2. WorkInv(s)'
    BY <1>1, <1>2, <1>3, <1>6 DEF WorkInv, Keyed
  <2>3. LockInv(s)'
    BY <1>1, <1>2, <1>3, <1>6 DEF LockInv, WorkInv, PastFrom, PastTo, Keyed
  <2>4. QED
    BY <1>6, <2>1, <2>2, <2>3 DEF SessionInv
<1>8. work' = [work EXCEPT ![s] = work[s]]
  BY <1>1 DEF IInv, TypeOK
<1>9. QED
  BY <1>1, <1>2, <1>5, <1>6, <1>7, <1>8, StatementKeepsInv DEF Labels

LEMMA EnsureFromKeepsInv ==
    ASSUME IInv, NEW s \in Sessions, EnsureAccount(s, "from", call[s].from)
    PROVE  IInv'
<1> DEFINE k == call[s]
           w == [work[s] EXCEPT !.rows = @ \cup ({k.from} \ hasRow)]
<1>1. pc[s] = "from" /\ UNCHANGED <<tables, call, calls>>
      /\ work' = [work EXCEPT ![s] = w]
  BY DEF EnsureAccount, IInv, TypeOK, Work
<1>2. CallInv(s) /\ WorkInv(s) /\ LockInv(s) /\ k \in Call /\ work[s] \in Work
      /\ k.op \in Operations
  BY <1>1, OpenSession
<1>3. k.op \in {"debit", "transfer", "accept"} /\ k.from \in Players
  BY <1>1, <1>2 DEF CallInv, Operations
<1>4. Wanted(s) = <<"account", k.from>> /\ Wanted(s) \in Rows
  BY <1>1, <1>3 DEF Wanted, Rows, Accounts
<1>5. /\ holder' \in [Rows -> Sessions \cup {None}]
      /\ holder'[<<"account", k.from>>] = s
      /\ \A t \in Sessions, row \in Rows : holder[row] = t => holder'[row] = t
  BY <1>1, <1>4, AcquireKeepsLocks DEF EnsureAccount, Available, Locks
<1>6. pc' = [pc EXCEPT ![s] = pc'[s]] /\ pc'[s] \in {"entry", "to"}
      /\ (k.op = "debit" => pc'[s] = "entry")
      /\ (k.op # "debit" => pc'[s] = "to")
  BY <1>1, <1>3, ScriptSteps DEF EnsureAccount, Advance, IInv, TypeOK
<1>7. w \in Work /\ work'[s] = w /\ w.rows \subseteq Players
      /\ w.debited = work[s].debited /\ w.credited = work[s].credited
      /\ w.entered = work[s].entered /\ w.paid = work[s].paid
  BY <1>1, <1>2, <1>3 DEF Work, WorkInv, Accounts, IInv, TypeOK
<1>8. SessionInv(s)'
  <2>1. CallInv(s)'
    BY <1>1, <1>2, <1>3, <1>6 DEF CallInv
  <2>2. WorkInv(s)'
    <3>1. ~w.debited /\ ~w.credited /\ ~w.entered /\ ~w.paid
      BY <1>1, <1>2, <1>3, <1>7 DEF WorkInv, Keyed
    <3> HIDE DEF w
    <3>2. QED
      BY <1>1, <1>3, <1>6, <1>7, <3>1 DEF WorkInv, Keyed
  <2>3. LockInv(s)'
    <3>1. ~w.debited /\ ~w.credited /\ ~w.entered
      BY <1>1, <1>2, <1>3, <1>7 DEF WorkInv, Keyed
    <3>2. k.op = "accept" =>
             /\ holder'[<<"request", k.request>>] = s
             /\ request'[k.request].status = "pending"
             /\ Payer[k.request] = k.from /\ k.from # k.to
      BY <1>1, <1>2, <1>5 DEF LockInv, CallInv, Rows, tables
    <3>3. QED
      BY <1>1, <1>3, <1>5, <1>6, <1>7, <3>1, <3>2 DEF LockInv, PastFrom, PastTo
  <2>4. QED
    BY <1>6, <2>1, <2>2, <2>3 DEF SessionInv
<1>9. QED
  BY <1>1, <1>5, <1>6, <1>7, <1>8, StatementKeepsInv DEF Labels

LEMMA EnsureToKeepsInv ==
    ASSUME IInv, NEW s \in Sessions, EnsureAccount(s, "to", call[s].to)
    PROVE  IInv'
<1> DEFINE k == call[s]
           w == [work[s] EXCEPT !.rows = @ \cup ({k.to} \ hasRow)]
<1>1. pc[s] = "to" /\ UNCHANGED <<tables, call, calls>> /\ k.to # None
      /\ work' = [work EXCEPT ![s] = w]
  BY DEF EnsureAccount, IInv, TypeOK, Work
<1>2. CallInv(s) /\ WorkInv(s) /\ LockInv(s) /\ k \in Call /\ work[s] \in Work
      /\ k.op \in Operations
  BY <1>1, OpenSession
<1>3. k.op \in {"wallet", "credit", "transfer", "accept"} /\ k.to \in Players
  BY <1>1, <1>2, ConstantsAssumption DEF CallInv, Operations
<1>4. Wanted(s) = <<"account", k.to>> /\ Wanted(s) \in Rows
  BY <1>1, <1>3 DEF Wanted, Rows, Accounts
<1>5. /\ holder' \in [Rows -> Sessions \cup {None}]
      /\ holder'[<<"account", k.to>>] = s
      /\ \A t \in Sessions, row \in Rows : holder[row] = t => holder'[row] = t
  BY <1>1, <1>4, AcquireKeepsLocks DEF EnsureAccount, Available, Locks
<1>6. pc' = [pc EXCEPT ![s] = pc'[s]] /\ pc'[s] \in {"entry", "debit"}
      /\ (k.op \in Keyed => pc'[s] = "entry")
      /\ (k.op \notin Keyed => pc'[s] = "debit")
  BY <1>1, <1>3, ScriptSteps DEF EnsureAccount, Advance, IInv, TypeOK, Keyed
<1>7. w \in Work /\ work'[s] = w /\ w.rows \subseteq Players
      /\ w.debited = work[s].debited /\ w.credited = work[s].credited
      /\ w.entered = work[s].entered /\ w.paid = work[s].paid
      /\ k.to \in hasRow \cup w.rows
  BY <1>1, <1>2, <1>3 DEF Work, WorkInv, Accounts, IInv, TypeOK
<1>8. SessionInv(s)'
  <2>1. CallInv(s)'
    BY <1>1, <1>2, <1>3, <1>6 DEF CallInv, Keyed
  <2>2. WorkInv(s)'
    BY <1>1, <1>2, <1>3, <1>6, <1>7 DEF WorkInv, Keyed
  <2>3. LockInv(s)'
    <3>1. ~w.debited /\ ~w.credited /\ ~w.entered
      BY <1>1, <1>2, <1>3, <1>7 DEF WorkInv, Keyed
    <3>2. k.op = "accept" =>
             /\ holder'[<<"request", k.request>>] = s
             /\ request'[k.request].status = "pending"
             /\ Payer[k.request] = k.from /\ k.from # k.to
      BY <1>1, <1>2, <1>5 DEF LockInv, CallInv, Rows, tables
    <3>3. k.op \in {"debit", "transfer", "accept"} =>
             holder'[<<"account", k.from>>] = s
      BY <1>1, <1>2, <1>5 DEF LockInv, PastFrom, Call, Rows
    <3>4. RowVisible(s, k.to)'
      BY <1>1, <1>7 DEF RowVisible, tables
    <3>5. QED
      BY <1>1, <1>3, <1>5, <1>7, <3>1, <3>2, <3>3, <3>4 DEF LockInv, PastFrom, PastTo
  <2>4. QED
    BY <1>6, <2>1, <2>2, <2>3 DEF SessionInv
<1>9. QED
  BY <1>1, <1>5, <1>6, <1>7, <1>8, StatementKeepsInv DEF Labels

LEMMA LockRequestKeepsInv ==
    ASSUME IInv, NEW s \in Sessions, LockRequest(s)
    PROVE  IInv'
<1> DEFINE k == call[s]
<1>1. pc[s] = "request" /\ UNCHANGED <<tables, call, work, calls>> /\ Acceptable(s)
  BY DEF LockRequest
<1>2. CallInv(s) /\ WorkInv(s) /\ LockInv(s) /\ k \in Call /\ work[s] \in Work
      /\ k.op \in Operations
  BY <1>1, OpenSession
<1>3. k.op = "accept" /\ k.request \in Requests /\ k.to = Payee[k.request]
  BY <1>1, <1>2 DEF CallInv, Operations
<1>4. Wanted(s) = <<"request", k.request>> /\ Wanted(s) \in Rows
  BY <1>1, <1>3 DEF Wanted, Rows
<1>5. /\ holder' \in [Rows -> Sessions \cup {None}]
      /\ holder'[<<"request", k.request>>] = s
      /\ \A t \in Sessions, row \in Rows : holder[row] = t => holder'[row] = t
  BY <1>1, <1>4, AcquireKeepsLocks DEF LockRequest, Available, Locks
<1>6. pc' = [pc EXCEPT ![s] = "from"]
  BY <1>1, <1>3, ScriptSteps DEF LockRequest, Advance, IInv, TypeOK
<1>7. pc'[s] = "from"
  BY <1>6 DEF IInv, TypeOK
<1>8. SessionInv(s)'
  <2>1. CallInv(s)'
    BY <1>1, <1>2, <1>3, <1>7 DEF CallInv
  <2>2. WorkInv(s)'
    BY <1>1, <1>2, <1>3, <1>7 DEF WorkInv, Keyed
  <2>3. LockInv(s)'
    BY <1>1, <1>2, <1>3, <1>5, <1>7
       DEF LockInv, WorkInv, PastFrom, PastTo, Acceptable, Keyed, tables
  <2>4. QED
    BY <1>7, <2>1, <2>2, <2>3 DEF SessionInv
<1>9. work' = [work EXCEPT ![s] = work[s]]
  BY <1>1 DEF IInv, TypeOK
<1>10. QED
  BY <1>1, <1>2, <1>5, <1>6, <1>8, <1>9, StatementKeepsInv DEF Labels

(* What the session sees of the two accounts it works on, from the writes  *)
(* it has buffered.                                                        *)
LEMMA SeenValues ==
    ASSUME IInv, NEW s \in Sessions, pc[s] # "idle"
    PROVE  /\ ~work[s].debited /\ ~work[s].credited =>
                 \A x \in Accounts : Seen(s, x) = balance[x]
           /\ call[s].from # call[s].to /\ ~work[s].credited
                /\ call[s].to \in Accounts =>
                 Seen(s, call[s].to) = balance[call[s].to]
  <1>1. call[s] \in Call /\ work[s] \in Work
    BY OpenSession
  <1>2. balance \in [Accounts -> 0..BigintMax]
    BY DEF IInv, TypeOK
  <1>3. \A x \in Accounts : balance[x] \in Int
    BY <1>2, ConstantsAssumption
  <1>4. ASSUME ~work[s].debited, ~work[s].credited, NEW x \in Accounts
        PROVE  Seen(s, x) = balance[x]
    BY <1>1, <1>3, <1>4 DEF Seen
  <1>5. ASSUME call[s].from # call[s].to, ~work[s].credited, call[s].to \in Accounts
        PROVE  Seen(s, call[s].to) = balance[call[s].to]
    BY <1>1, <1>3, <1>5 DEF Seen
  <1>6. QED
    BY <1>4, <1>5

LEMMA DebitKeepsInv ==
    ASSUME IInv, NEW s \in Sessions, DebitBalance(s)
    PROVE  IInv'
<1> DEFINE k == call[s]
           w == [work[s] EXCEPT !.debited = TRUE]
<1>1. pc[s] = "debit" /\ UNCHANGED <<tables, holder, call, calls>>
      /\ work' = [work EXCEPT ![s] = w] /\ k.from # k.to
      /\ Seen(s, k.from) >= k.amount
  BY DEF DebitBalance, IInv, TypeOK, Work
<1>2. CallInv(s) /\ WorkInv(s) /\ LockInv(s) /\ k \in Call /\ work[s] \in Work
      /\ k.op \in Operations
  BY <1>1, OpenSession
<1>3. k.op \in {"debit", "transfer", "accept"} /\ k.from \in Players
      /\ ~work[s].debited /\ ~work[s].credited
      /\ work[s].entered = (k.op = "debit") /\ ~work[s].paid
  BY <1>1, <1>2 DEF CallInv, WorkInv, Operations, Keyed, Work
<1>4. balance[k.from] >= k.amount
  BY <1>1, <1>3, SeenValues DEF Accounts
<1>5. /\ holder' \in [Rows -> Sessions \cup {None}]
      /\ \A t \in Sessions, row \in Rows : holder[row] = t => holder'[row] = t
  BY <1>1 DEF IInv, TypeOK
<1>6. pc' = [pc EXCEPT ![s] = "credit"] /\ pc'[s] = "credit"
  <2>1. NextOf(k.op, "debit") = "credit"
    BY <1>3, ScriptSteps
  <2>2. QED
    BY <1>1, <2>1 DEF DebitBalance, Advance, IInv, TypeOK
<1>7. w \in Work /\ work'[s] = w /\ w.rows = work[s].rows
      /\ w.debited /\ ~w.credited /\ w.entered = work[s].entered /\ ~w.paid
  BY <1>1, <1>2, <1>3 DEF Work, IInv, TypeOK
<1>8. SessionInv(s)'
  <2> HIDE DEF w
  <2>1. CallInv(s)'
    BY <1>1, <1>2, <1>3, <1>6 DEF CallInv
  <2>2. WorkInv(s)'
    BY <1>1, <1>2, <1>3, <1>6, <1>7 DEF WorkInv, Keyed
  <2>3. LockInv(s)'
    BY <1>1, <1>2, <1>3, <1>4, <1>6, <1>7
       DEF LockInv, PastFrom, PastTo, RowVisible, KeyUsed, tables
  <2>4. QED
    BY <1>6, <2>1, <2>2, <2>3 DEF SessionInv
<1>9. QED
  BY <1>1, <1>5, <1>6, <1>7, <1>8, StatementKeepsInv DEF Labels

LEMMA CreditKeepsInv ==
    ASSUME IInv, NEW s \in Sessions, CreditBalance(s)
    PROVE  IInv'
<1> DEFINE k == call[s]
           w == [work[s] EXCEPT !.credited = TRUE]
<1>1. pc[s] = "credit" /\ UNCHANGED <<tables, holder, call, calls>>
      /\ work' = [work EXCEPT ![s] = w] /\ ~Overflows(s)
  BY DEF CreditBalance, IInv, TypeOK, Work
<1>2. CallInv(s) /\ WorkInv(s) /\ LockInv(s) /\ k \in Call /\ work[s] \in Work
      /\ k.op \in Operations
  BY <1>1, OpenSession
<1>3. /\ k.op \in Keyed => work[s].entered /\ (work[s].debited <=> k.op = "debit")
      /\ k.op \notin Keyed => ~work[s].entered /\ work[s].debited /\ ~work[s].paid
      /\ ~work[s].credited
      /\ work[s].paid => k.op = "accept"
  BY <1>1, <1>2 DEF WorkInv
<1>4. k.op # "debit" => balance[k.to] + k.amount <= BigintMax
  <2>1. SUFFICES ASSUME k.op # "debit"
                 PROVE  balance[k.to] + k.amount <= BigintMax
    OBVIOUS
  <2>2. k.to \in Accounts /\ RowVisible(s, k.to)
    BY <1>1, <1>2, <2>1 DEF LockInv, PastTo, Call
  <2>3. Seen(s, k.to) = balance[k.to]
    BY <1>1, <1>2, <1>3, <2>2, SeenValues DEF WorkInv
  <2>4. ~(balance[k.to] + k.amount > BigintMax)
    BY <1>1, <2>2, <2>3 DEF Overflows
  <2>5. balance[k.to] \in Int /\ k.amount \in Int /\ BigintMax \in Int
    BY <1>2, <2>2, ConstantsAssumption DEF IInv, TypeOK, Call
  <2>6. QED
    BY <2>4, <2>5
<1>5. /\ holder' \in [Rows -> Sessions \cup {None}]
      /\ \A t \in Sessions, row \in Rows : holder[row] = t => holder'[row] = t
  BY <1>1 DEF IInv, TypeOK
<1>6. pc' = [pc EXCEPT ![s] = pc'[s]] /\ pc'[s] \in {"entry", "commit"}
      /\ (k.op \in Keyed => pc'[s] = "commit")
      /\ (k.op \notin Keyed => pc'[s] = "entry")
  BY <1>1, <1>2, ScriptSteps DEF CreditBalance, Advance, IInv, TypeOK, Keyed, Operations
<1>7. w \in Work /\ work'[s] = w /\ w.rows = work[s].rows
      /\ w.debited = work[s].debited /\ w.credited
      /\ w.entered = work[s].entered /\ w.paid = work[s].paid
  BY <1>1, <1>2 DEF Work, IInv, TypeOK
<1>8. SessionInv(s)'
  <2> HIDE DEF w
  <2>1. CallInv(s)'
    BY <1>1, <1>2, <1>6 DEF CallInv, Keyed
  <2>2. WorkInv(s)'
    BY <1>1, <1>2, <1>3, <1>6, <1>7 DEF WorkInv, Work
  <2>3. LockInv(s)'
    BY <1>1, <1>2, <1>3, <1>4, <1>6, <1>7
       DEF LockInv, PastFrom, PastTo, RowVisible, KeyUsed, tables
  <2>4. QED
    BY <1>6, <2>1, <2>2, <2>3 DEF SessionInv
<1>9. QED
  BY <1>1, <1>5, <1>6, <1>7, <1>8, StatementKeepsInv DEF Labels

LEMMA InsertEntryKeepsInv ==
    ASSUME IInv, NEW s \in Sessions, InsertEntry(s)
    PROVE  IInv'
<1> DEFINE k == call[s]
           w == [work[s] EXCEPT !.entered = TRUE]
<1>1. pc[s] = "entry" /\ UNCHANGED <<tables, call, calls>>
      /\ work' = [work EXCEPT ![s] = w] /\ (k.key # None => ~KeyUsed(k.key))
  BY DEF InsertEntry, IInv, TypeOK, Work
<1>2. CallInv(s) /\ WorkInv(s) /\ LockInv(s) /\ k \in Call /\ work[s] \in Work
      /\ k.op \in Operations
  BY <1>1, OpenSession
<1>3. /\ k.op \in Keyed => ~work[s].debited /\ ~work[s].credited
      /\ k.op \notin Keyed => work[s].debited /\ work[s].credited /\ ~work[s].paid
      /\ work[s].paid => k.op = "accept"
      /\ ~work[s].entered
      /\ k.op \in Keyed => k.key # None
      /\ k.op \notin Keyed => k.key = None
  BY <1>1, <1>2 DEF WorkInv, CallInv, Operations, Keyed
<1>4. /\ holder' \in [Rows -> Sessions \cup {None}]
      /\ \A t \in Sessions, row \in Rows : holder[row] = t => holder'[row] = t
      /\ k.key # None => holder'[<<"key", k.key>>] = s
  <2>1. CASE k.key = None
    BY <2>1 DEF InsertEntry, IInv, TypeOK
  <2>2. CASE k.key # None
    <3>1. Wanted(s) = <<"key", k.key>> /\ Wanted(s) \in Rows
      BY <1>1, <1>2, <2>2 DEF Wanted, Rows, Call
    <3>2. QED
      BY <1>1, <2>2, <3>1, AcquireKeepsLocks DEF InsertEntry, Available, Locks
  <2>3. QED
    BY <2>1, <2>2
<1>5. pc' = [pc EXCEPT ![s] = pc'[s]] /\ pc'[s] \in {"credit", "debit", "paid", "commit"}
      /\ (k.op \in {"wallet", "credit"} => pc'[s] = "credit")
      /\ (k.op = "debit" => pc'[s] = "debit")
      /\ (k.op = "transfer" => pc'[s] = "commit")
      /\ (k.op = "accept" => pc'[s] = "paid")
  BY <1>1, <1>2, ScriptSteps DEF InsertEntry, Advance, IInv, TypeOK, Operations
<1>6. w \in Work /\ work'[s] = w /\ w.rows = work[s].rows
      /\ w.debited = work[s].debited /\ w.credited = work[s].credited
      /\ w.entered /\ w.paid = work[s].paid
  BY <1>1, <1>2 DEF Work, IInv, TypeOK
<1>7. SessionInv(s)'
  <2> HIDE DEF w
  <2>1. CallInv(s)'
    BY <1>1, <1>2, <1>5 DEF CallInv, Operations
  <2>2. WorkInv(s)'
    BY <1>1, <1>2, <1>3, <1>5, <1>6 DEF WorkInv, Keyed, Work, Operations
  <2>3. LockInv(s)'
    <3>1. \A row \in Rows : holder[row] = s => holder'[row] = s
      BY <1>4
    <3>2. /\ k.from \in Accounts
          /\ k.op # "debit" => k.to \in Accounts
          /\ k.op = "accept" => k.request \in Requests
      BY <1>1, <1>2 DEF CallInv, LockInv, PastTo, Call
    <3>3. QED
      BY <1>1, <1>2, <1>3, <1>4, <1>5, <1>6, <3>1, <3>2
         DEF LockInv, PastFrom, PastTo, RowVisible, KeyUsed, Rows, tables
  <2>4. QED
    BY <1>5, <2>1, <2>2, <2>3 DEF SessionInv
<1>8. QED
  BY <1>1, <1>4, <1>5, <1>6, <1>7, StatementKeepsInv DEF Labels

LEMMA EntryExistsKeepsInv ==
    ASSUME IInv, NEW s \in Sessions, EntryExists(s)
    PROVE  IInv'
<1> DEFINE k == call[s]
<1>1. pc[s] = "entry" /\ UNCHANGED <<tables, holder, call, work, calls>> /\ k.key # None
      /\ pc' = [pc EXCEPT ![s] = "commit"]
  BY DEF EntryExists
<1>2. CallInv(s) /\ WorkInv(s) /\ LockInv(s) /\ k \in Call /\ work[s] \in Work
      /\ k.op \in Operations
  BY <1>1, OpenSession
<1>3. k.op \in Keyed /\ work[s].debited = FALSE /\ work[s].credited = FALSE
      /\ work[s].entered = FALSE
  BY <1>1, <1>2 DEF WorkInv, CallInv, Operations, Keyed, Work
<1>4. pc'[s] = "commit" /\ work' = [work EXCEPT ![s] = work[s]]
  BY <1>1 DEF IInv, TypeOK
<1>5. SessionInv(s)'
  <2>1. CallInv(s)'
    BY <1>1, <1>2, <1>3, <1>4 DEF CallInv, Keyed
  <2>2. WorkInv(s)'
    BY <1>1, <1>2, <1>3, <1>4 DEF WorkInv, Work
  <2>3. LockInv(s)'
    BY <1>1, <1>2, <1>3, <1>4 DEF LockInv, PastFrom, PastTo, RowVisible, Keyed, tables
  <2>4. QED
    BY <1>4, <2>1, <2>2, <2>3 DEF SessionInv
<1>6. /\ holder' \in [Rows -> Sessions \cup {None}]
      /\ \A t \in Sessions, row \in Rows : holder[row] = t => holder'[row] = t
  BY <1>1 DEF IInv, TypeOK
<1>7. QED
  BY <1>1, <1>2, <1>4, <1>5, <1>6, StatementKeepsInv DEF Labels

LEMMA MarkPaidKeepsInv ==
    ASSUME IInv, NEW s \in Sessions, MarkPaid(s)
    PROVE  IInv'
<1> DEFINE k == call[s]
           w == [work[s] EXCEPT !.paid = TRUE]
<1>1. pc[s] = "paid" /\ UNCHANGED <<tables, holder, call, calls>>
      /\ work' = [work EXCEPT ![s] = w]
  BY DEF MarkPaid, IInv, TypeOK, Work
<1>2. CallInv(s) /\ WorkInv(s) /\ LockInv(s) /\ k \in Call /\ work[s] \in Work
      /\ k.op \in Operations
  BY <1>1, OpenSession
<1>3. k.op = "accept" /\ work[s].debited /\ work[s].credited /\ work[s].entered
  BY <1>1, <1>2 DEF WorkInv, CallInv, Operations, Keyed
<1>4. pc' = [pc EXCEPT ![s] = "commit"] /\ pc'[s] = "commit"
  BY <1>1, <1>3, ScriptSteps DEF MarkPaid, Advance, IInv, TypeOK
<1>5. w \in Work /\ work'[s] = w /\ w.rows = work[s].rows
      /\ w.debited /\ w.credited /\ w.entered /\ w.paid
  BY <1>1, <1>2, <1>3 DEF Work, IInv, TypeOK
<1>6. SessionInv(s)'
  <2> HIDE DEF w
  <2>1. CallInv(s)'
    BY <1>1, <1>2, <1>3, <1>4 DEF CallInv
  <2>2. WorkInv(s)'
    BY <1>1, <1>2, <1>3, <1>4, <1>5 DEF WorkInv, Keyed
  <2>3. LockInv(s)'
    BY <1>1, <1>2, <1>3, <1>4, <1>5 DEF LockInv, PastFrom, PastTo, RowVisible, KeyUsed, tables
  <2>4. QED
    BY <1>4, <2>1, <2>2, <2>3 DEF SessionInv
<1>7. /\ holder' \in [Rows -> Sessions \cup {None}]
      /\ \A t \in Sessions, row \in Rows : holder[row] = t => holder'[row] = t
  BY <1>1 DEF IInv, TypeOK
<1>8. QED
  BY <1>1, <1>4, <1>5, <1>6, <1>7, StatementKeepsInv DEF Labels

-----------------------------------------------------------------------------
(* What a session that is about to commit has done, and still knows.  An   *)
(* operation has written both sides and its entry, or nothing at all.      *)
LEMMA AtCommit ==
    ASSUME IInv, NEW s \in Sessions, pc[s] = "commit"
    PROVE  /\ call[s] \in Call /\ call[s].op \in Operations /\ call[s].amount > 0
           /\ work[s].entered <=> work[s].credited
           /\ work[s].debited <=> work[s].entered /\ call[s].op \notin {"wallet", "credit"}
           /\ work[s].paid <=> call[s].op = "accept"
           /\ call[s].op \in {"transfer", "accept"} => work[s].entered
           /\ work[s].debited =>
                 /\ call[s].from \in Players /\ call[s].from # call[s].to
                 /\ holder[<<"account", call[s].from>>] = s
                 /\ balance[call[s].from] >= call[s].amount
           /\ call[s].op \in {"wallet", "credit"} => call[s].from = SystemAccount
           /\ call[s].op = "debit" => /\ call[s].to = SystemAccount
                                      /\ ~RowVisible(s, SystemAccount)
           /\ call[s].op # "debit" =>
                 /\ call[s].to \in Players /\ RowVisible(s, call[s].to)
                 /\ holder[<<"account", call[s].to>>] = s
                 /\ work[s].entered => balance[call[s].to] + call[s].amount <= BigintMax
           /\ work[s].entered /\ call[s].key # None =>
                 /\ holder[<<"key", call[s].key>>] = s /\ ~KeyUsed(call[s].key)
           /\ call[s].op = "accept" =>
                 /\ call[s].request \in Requests
                 /\ holder[<<"request", call[s].request>>] = s
                 /\ request[call[s].request].status = "pending"
                 /\ Payer[call[s].request] = call[s].from
                 /\ Payee[call[s].request] = call[s].to
                 /\ Due[call[s].request] = call[s].amount
           /\ call[s].op # "accept" => call[s].request = None
           /\ call[s].op \in {"transfer", "accept"} <=> call[s].key = None
<1> DEFINE k == call[s]
           w == work[s]
<1>1. CallInv(s) /\ WorkInv(s) /\ LockInv(s) /\ k \in Call /\ w \in Work
      /\ k.op \in Operations
  BY OpenSession
<1>2. /\ k.amount > 0
      /\ k.op \in {"wallet", "credit"} => k.from = SystemAccount /\ k.to \in Players
      /\ k.op = "debit" => k.from \in Players /\ k.to = SystemAccount
      /\ k.op = "transfer" => k.from \in Players /\ k.to \in Players \cup {None}
      /\ k.op = "accept" => /\ k.from \in Players /\ k.request \in Requests
                            /\ k.to = Payee[k.request] /\ k.amount = Due[k.request]
      /\ k.op # "accept" => k.request = None
      /\ k.op \in {"transfer", "accept"} <=> k.key = None
  BY <1>1 DEF CallInv, Operations
<1>3. /\ w.entered <=> w.credited
      /\ w.debited <=> w.entered /\ k.op \notin {"wallet", "credit"}
      /\ w.paid <=> k.op = "accept"
      /\ k.op \in {"transfer", "accept"} => w.entered
      /\ w.debited => k.from # k.to
      /\ w.rows \subseteq Players
  BY <1>1 DEF WorkInv, Keyed, Operations
<1>4. PastFrom(s) /\ PastTo(s)
  BY DEF PastFrom, PastTo
<1>5. k.op = "debit" => ~RowVisible(s, SystemAccount)
  BY <1>3, ConstantsAssumption DEF RowVisible, IInv, TypeOK
<1>6. w.debited => k.op \in {"debit", "transfer", "accept"}
  BY <1>1, <1>3 DEF Operations
<1>7. k.op # "debit" => /\ k.to # None /\ RowVisible(s, k.to)
                        /\ holder[<<"account", k.to>>] = s
  BY <1>1, <1>4 DEF LockInv
<1>8. w.debited => holder[<<"account", k.from>>] = s /\ balance[k.from] >= k.amount
  BY <1>1, <1>4, <1>6 DEF LockInv
<1>9. k.op # "debit" /\ w.entered => balance[k.to] + k.amount <= BigintMax
  BY <1>1, <1>3 DEF LockInv
<1>10. w.entered /\ k.key # None => holder[<<"key", k.key>>] = s /\ ~KeyUsed(k.key)
  BY <1>1 DEF LockInv
<1>11. k.op = "accept" => /\ holder[<<"request", k.request>>] = s
                          /\ request[k.request].status = "pending"
                          /\ Payer[k.request] = k.from
  BY <1>1 DEF LockInv
<1>12. k.op # "debit" => k.to \in Players
  BY <1>1, <1>2, <1>7, ConstantsAssumption DEF Operations
<1>13. w.debited => k.from \in Players
  BY <1>2, <1>6
<1>14. QED
  BY <1>1, <1>2, <1>3, <1>5, <1>7, <1>8, <1>9, <1>10, <1>11, <1>12, <1>13

(* The balances a commit publishes: the two sides move by the amount, or   *)
(* nothing moves; accounts whose row it does not hold stay as they are.    *)
LEMMA CommitBalances ==
    ASSUME IInv, NEW s \in Sessions, pc[s] = "commit"
    PROVE  /\ \A p \in Players :
                 Seen(s, p) = balance[p]
                     + (IF work[s].entered /\ p = call[s].to THEN call[s].amount ELSE 0)
                     - (IF work[s].entered /\ p = call[s].from THEN call[s].amount ELSE 0)
           /\ Seen(s, SystemAccount) = balance[SystemAccount]
           /\ \A x \in Accounts : Seen(s, x) \in 0..BigintMax
           /\ \A x \in Accounts :
                 holder[<<"account", x>>] # s => Seen(s, x) = balance[x]
<1> DEFINE k == call[s]
           w == work[s]
<1>a. /\ k \in Call /\ k.op \in Operations /\ k.amount > 0
      /\ w.entered <=> w.credited
      /\ w.debited <=> w.entered /\ k.op \notin {"wallet", "credit"}
      /\ w.debited => /\ k.from \in Players /\ k.from # k.to
                      /\ holder[<<"account", k.from>>] = s
                      /\ balance[k.from] >= k.amount
      /\ k.op \in {"wallet", "credit"} => k.from = SystemAccount
      /\ k.op = "debit" => k.to = SystemAccount /\ ~RowVisible(s, SystemAccount)
      /\ k.op # "debit" => /\ k.to \in Players /\ RowVisible(s, k.to)
                           /\ holder[<<"account", k.to>>] = s
      /\ k.op # "debit" /\ w.entered => balance[k.to] + k.amount <= BigintMax
  BY AtCommit
<1>b. SystemAccount \notin Players
  BY ConstantsAssumption
<1>c. k.amount \in Int /\ BigintMax \in Int
  BY <1>a, ConstantsAssumption DEF Call
<1>d. \A x \in Accounts : balance[x] \in Int /\ 0 <= balance[x] /\ balance[x] <= BigintMax
  BY <1>c DEF IInv, TypeOK
<1>0. /\ \A p \in Players : w.credited /\ p = k.to /\ RowVisible(s, p)
                               <=> w.entered /\ p = k.to
      /\ \A p \in Players : w.debited /\ p = k.from <=> w.entered /\ p = k.from
  <2>1. ASSUME NEW p \in Players
        PROVE  w.credited /\ p = k.to /\ RowVisible(s, p) <=> w.entered /\ p = k.to
    BY <1>a, <1>b
  <2>2. ASSUME NEW p \in Players
        PROVE  w.debited /\ p = k.from <=> w.entered /\ p = k.from
    BY <1>a, <1>b
  <2>3. QED
    BY <2>1, <2>2
<1>1. ASSUME NEW p \in Players
      PROVE  Seen(s, p) = balance[p]
                     + (IF w.entered /\ p = k.to THEN k.amount ELSE 0)
                     - (IF w.entered /\ p = k.from THEN k.amount ELSE 0)
  <2>1. balance[p] \in Int
    BY <1>d DEF Accounts
  <2>2. QED
    BY <1>0, <1>c, <2>1 DEF Seen
<1>2. Seen(s, SystemAccount) = balance[SystemAccount]
  <2>1. ~(w.debited /\ SystemAccount = k.from)
    BY <1>a, <1>b
  <2>2. ~(w.credited /\ SystemAccount = k.to /\ RowVisible(s, SystemAccount))
    BY <1>a, <1>b
  <2>3. QED
    BY <1>d, <2>1, <2>2 DEF Seen, Accounts
<1>3. ASSUME NEW x \in Accounts PROVE Seen(s, x) \in 0..BigintMax
  <2>1. CASE x = SystemAccount
    BY <1>c, <1>d, <1>2, <2>1
  <2>2. CASE x \in Players
    <3>1. w.entered /\ x = k.from => balance[x] >= k.amount /\ x # k.to
      BY <1>a, <1>0, <2>2
    <3>2. w.entered /\ x = k.to => balance[x] + k.amount <= BigintMax
      BY <1>a, <1>b, <2>2
    <3>3. QED
      BY <1>a, <1>c, <1>d, <1>1, <2>2, <3>1, <3>2
  <2>3. QED
    BY <2>1, <2>2 DEF Accounts
<1>4. ASSUME NEW x \in Accounts, holder[<<"account", x>>] # s
      PROVE  Seen(s, x) = balance[x]
  <2>1. CASE x = SystemAccount
    BY <1>2, <2>1
  <2>2. CASE x \in Players
    <3>1. ~(w.entered /\ x = k.to) /\ ~(w.entered /\ x = k.from)
      BY <1>a, <1>b, <1>0, <1>4, <2>2
    <3>2. balance[x] \in Int
      BY <1>d
    <3>3. QED
      BY <1>1, <2>2, <3>1, <3>2
  <2>3. QED
    BY <2>1, <2>2 DEF Accounts
<1>5. QED
  BY <1>1, <1>2, <1>3, <1>4

LEMMA CommitKeepsInv ==
    ASSUME IInv, NEW s \in Sessions, Commit(s)
    PROVE  IInv'
<1> DEFINE k == call[s]
           w == work[s]
           e == EntryOf(s)
           n == Len(ledger) + 1
<1>1. /\ pc[s] = "commit"
      /\ balance' = [x \in Accounts |-> Seen(s, x)]
      /\ hasRow' = hasRow \cup w.rows
      /\ ledger' = IF w.entered THEN Append(ledger, e) ELSE ledger
      /\ request' = IF w.paid THEN [request EXCEPT ![k.request] =
                                      [status |-> "paid", ledgerId |-> n]]
                              ELSE request
      /\ pc' = [pc EXCEPT ![s] = "idle"] /\ call' = [call EXCEPT ![s] = NoCall]
      /\ work' = [work EXCEPT ![s] = NoWork] /\ ReleaseAll(s) /\ calls' = calls
  BY DEF Commit
<1>2. /\ k \in Call /\ k.op \in Operations /\ w.rows \subseteq Players
      /\ w.paid <=> k.op = "accept"
      /\ k.op \in {"transfer", "accept"} => w.entered
      /\ w.entered => k.to \in Accounts
      /\ w.entered /\ k.key # None => holder[<<"key", k.key>>] = s /\ ~KeyUsed(k.key)
      /\ k.op = "accept" => /\ k.request \in Requests
                            /\ holder[<<"request", k.request>>] = s
                            /\ request[k.request].status = "pending"
                            /\ Payer[k.request] = k.from
                            /\ Payee[k.request] = k.to
                            /\ Due[k.request] = k.amount
      /\ k.op # "accept" => k.request = None
  BY <1>1, AtCommit, OpenSession DEF Accounts, WorkInv
<1>3. ledger \in Seq(Entry) /\ request \in [Requests ->
                          [status : {"pending", "paid"}, ledgerId : Nat]]
      /\ Len(ledger) \in Nat
  BY DEF IInv, TypeOK
<1>4. w.entered => /\ e \in Entry /\ ledger' \in Seq(Entry)
                   /\ Len(ledger') = n /\ DOMAIN ledger' = 1..n /\ ledger'[n] = e
                   /\ \A i \in 1..Len(ledger) : ledger'[i] = ledger[i]
  <2>1. w.entered => e \in Entry
    BY <1>2 DEF EntryOf, Entry, Call
  <2>2. QED
    BY <1>1, <1>3, <2>1
<1>5. DOMAIN ledger = 1..Len(ledger)
  BY <1>3
<1>6. TypeOK'
  <2>1. balance' \in [Accounts -> 0..BigintMax]
    BY <1>1, CommitBalances
  <2>2. ledger' \in Seq(Entry)
    BY <1>1, <1>3, <1>4
  <2>3. request' \in [Requests -> [status : {"pending", "paid"}, ledgerId : Nat]]
    BY <1>1, <1>2, <1>3
  <2>4. NoWork \in Work /\ NoCall \in Call
    BY DEF NoWork, Work, NoCall, Call, Accounts, Operations
  <2>5. QED
    BY <1>1, <1>2, <2>1, <2>2, <2>3, <2>4 DEF IInv, TypeOK, ReleaseAll, Labels
<1>7. ASSUME NEW t \in Sessions PROVE SessionInv(t)'
  <2>1. CASE t = s
    BY <1>1, <2>1 DEF SessionInv, IInv, TypeOK
  <2>2. CASE t # s
    <3>1. pc'[t] = pc[t] /\ call'[t] = call[t] /\ work'[t] = work[t]
          /\ \A row \in Rows : holder[row] = t => holder'[row] = t
      BY <1>1, <2>2 DEF ReleaseAll, IInv, TypeOK
    <3>2. \A x \in Accounts : holder[<<"account", x>>] = t => balance'[x] = balance[x]
      BY <1>1, <2>2, CommitBalances
    <3>3. hasRow \subseteq hasRow'
      BY <1>1
    <3>4. ASSUME NEW key \in IdempotencyKeys, holder[<<"key", key>>] = t, ~KeyUsed(key)
          PROVE  ~KeyUsed(key)'
      <4>1. CASE ~w.entered
        BY <1>1, <3>4, <4>1 DEF KeyUsed
      <4>2. CASE w.entered
        <5>1. e.key # key
          BY <1>2, <2>2, <3>4, <4>2, ConstantsAssumption DEF EntryOf
        <5>2. QED
          BY <1>4, <1>5, <3>4, <4>2, <5>1 DEF KeyUsed
      <4>3. QED
        BY <4>1, <4>2
    <3>5. \A r \in Requests : holder[<<"request", r>>] = t => request'[r] = request[r]
      BY <1>1, <1>2, <1>3, <2>2
    <3>6. QED
      BY <3>1, <3>2, <3>3, <3>4, <3>5, BystanderKeepsInv
  <2>3. QED
    BY <2>1, <2>2
<1>8. KeysPostedOnce'
  <2>1. CASE ~w.entered
    BY <1>1, <2>1 DEF IInv, KeysPostedOnce
  <2>2. CASE w.entered
    <3>1. \A i \in 1..Len(ledger) : e.key # None => ledger[i].key # e.key
      BY <1>2, <1>5, <2>2 DEF KeyUsed, EntryOf
    <3>2. \A i, j \in 1..Len(ledger) :
             ledger[i].key # None /\ ledger[i].key = ledger[j].key => i = j
      BY <1>5 DEF IInv, KeysPostedOnce
    <3>3. QED
      BY <1>3, <1>4, <2>2, <3>1, <3>2 DEF KeysPostedOnce
  <2>3. QED
    BY <2>1, <2>2
<1>9. RequestsPaidOnce'
  <2> SUFFICES ASSUME NEW r \in Requests
               PROVE  IF request'[r].status = "paid"
                        THEN /\ {i \in DOMAIN ledger' : ledger'[i].request = r}
                                   = {request'[r].ledgerId}
                             /\ ledger'[request'[r].ledgerId].debit = Payer[r]
                             /\ ledger'[request'[r].ledgerId].credit = Payee[r]
                             /\ ledger'[request'[r].ledgerId].amount = Due[r]
                        ELSE {i \in DOMAIN ledger' : ledger'[i].request = r} = {}
    BY DEF RequestsPaidOnce
  <2>1. IF request[r].status = "paid"
          THEN /\ {i \in DOMAIN ledger : ledger[i].request = r} = {request[r].ledgerId}
               /\ ledger[request[r].ledgerId].debit = Payer[r]
               /\ ledger[request[r].ledgerId].credit = Payee[r]
               /\ ledger[request[r].ledgerId].amount = Due[r]
          ELSE {i \in DOMAIN ledger : ledger[i].request = r} = {}
    BY DEF IInv, RequestsPaidOnce
  <2>2. CASE k.op = "accept" /\ k.request = r
    <3>1. request'[r] = [status |-> "paid", ledgerId |-> n]
      BY <1>1, <1>2, <1>3, <2>2
    <3>2. \A i \in 1..Len(ledger) : ledger[i].request # r
      BY <1>2, <1>5, <2>1, <2>2
    <3>3. e.request = r /\ e.debit = Payer[r] /\ e.credit = Payee[r] /\ e.amount = Due[r]
      BY <1>2, <2>2 DEF EntryOf
    <3>4. {i \in DOMAIN ledger' : ledger'[i].request = r} = {n}
      BY <1>2, <1>3, <1>4, <2>2, <3>2, <3>3
    <3>5. QED
      BY <1>2, <1>4, <2>2, <3>1, <3>3, <3>4
  <2>3. CASE ~(k.op = "accept" /\ k.request = r)
    <3>1. request'[r] = request[r]
      BY <1>1, <1>2, <1>3, <2>3
    <3>2. w.entered => e.request # r
      BY <1>2, <2>3, ConstantsAssumption DEF EntryOf
    <3>3. {i \in DOMAIN ledger' : ledger'[i].request = r}
             = {i \in DOMAIN ledger : ledger[i].request = r}
      BY <1>1, <1>3, <1>4, <1>5, <3>2
    <3>4. \A i \in DOMAIN ledger : ledger'[i] = ledger[i]
      BY <1>1, <1>4, <1>5
    <3>5. request[r].status = "paid" => request[r].ledgerId \in DOMAIN ledger
      BY <2>1
    <3>6. QED
      BY <2>1, <3>1, <3>3, <3>4, <3>5
  <2>4. QED
    BY <2>2, <2>3
<1>10. QED
  BY <1>6, <1>7, <1>8, <1>9 DEF IInv

-----------------------------------------------------------------------------
LEMMA InitEstablishesInv == Init => IInv
<1> SUFFICES ASSUME Init PROVE IInv
  OBVIOUS
<1>1. TypeOK
  BY ConstantsAssumption
     DEF Init, TypeOK, NoWork, Work, NoCall, Call, Accounts, Operations, Labels
<1>2. (\A s \in Sessions : SessionInv(s)) /\ KeysPostedOnce /\ RequestsPaidOnce
  BY DEF Init, SessionInv, KeysPostedOnce, RequestsPaidOnce
<1>3. QED
  BY <1>1, <1>2 DEF IInv

LEMMA StepKeepsInv == IInv /\ [Next]_vars => IInv'
<1> SUFFICES ASSUME IInv, [Next]_vars PROVE IInv'
  OBVIOUS
<1>1. CASE UNCHANGED vars
  <2>1. TypeOK'
    BY <1>1 DEF vars, tables, sessions, IInv, TypeOK
  <2>2. ASSUME NEW s \in Sessions PROVE SessionInv(s)'
    BY <1>1, BystanderKeepsInv DEF vars, tables, sessions, KeyUsed
  <2>3. KeysPostedOnce' /\ RequestsPaidOnce'
    BY <1>1 DEF vars, tables, IInv, KeysPostedOnce, RequestsPaidOnce
  <2>4. QED
    BY <2>1, <2>2, <2>3 DEF IInv
<1>2. CASE Next
  <2>1. PICK s \in Sessions : \/ Start(s) \/ Statement(s) \/ DeadlockAbort(s)
                              \/ Disconnect(s)
    BY <1>2 DEF Next
  <2>2. CASE Start(s)
    BY <2>2, BeginKeepsInv DEF Start
  <2>3. CASE Statement(s)
    BY <2>3, EnsureSystemKeepsInv, EnsureFromKeepsInv, EnsureToKeepsInv,
       LockRequestKeepsInv, DebitKeepsInv, CreditKeepsInv, InsertEntryKeepsInv,
       EntryExistsKeepsInv, MarkPaidKeepsInv, CommitKeepsInv, RollbackKeepsInv
       DEF Statement, RefuseRequest, TargetNotFound, RefuseDebit, OutOfRange
  <2>4. CASE DeadlockAbort(s) \/ Disconnect(s)
    BY <2>4, RollbackKeepsInv DEF DeadlockAbort, Disconnect
  <2>5. QED
    BY <2>1, <2>2, <2>3, <2>4
<1>3. QED
  BY <1>1, <1>2

(* The inductive invariant holds in every reachable state. *)
THEOREM LedgerInvariant == Spec => []IInv
<1>1. Init => IInv
  BY InitEstablishesInv
<1>2. IInv /\ [Next]_vars => IInv'
  BY StepKeepsInv
<1>3. QED
  BY <1>1, <1>2, PTL DEF Spec

(* Every variable keeps its type: no interleaving of the five operations   *)
(* takes a committed balance below zero or out of the bigint range.        *)
THEOREM LedgerTypeCorrect == Spec => []TypeOK
<1>1. IInv => TypeOK
  BY DEF IInv
<1>2. QED
  BY <1>1, LedgerInvariant, PTL

(* An idempotency key, the one of the initial grant included, is posted at *)
(* most once.                                                              *)
THEOREM LedgerKeysPostedOnce == Spec => []KeysPostedOnce
<1>1. IInv => KeysPostedOnce
  BY DEF IInv
<1>2. QED
  BY <1>1, LedgerInvariant, PTL

(* A request is paid exactly when one entry, the one it names, settles it. *)
THEOREM LedgerRequestsPaidOnce == Spec => []RequestsPaidOnce
<1>1. IInv => RequestsPaidOnce
  BY DEF IInv
<1>2. QED
  BY <1>1, LedgerInvariant, PTL

-----------------------------------------------------------------------------
(* Refinement: a commit with an entry is one step of AtomicLedger; every   *)
(* other step changes nothing that AtomicLedger speaks of.                 *)

LEMMA InitRefines == Init => Atomic!Init
  BY DEF Init, Atomic!Init, Accounts

(* Nothing but Commit writes the committed tables. *)
LEMMA OnlyCommitWrites ==
    ASSUME NEW s \in Sessions,
           Start(s) \/ Statement(s) \/ DeadlockAbort(s) \/ Disconnect(s)
    PROVE  Commit(s) \/ UNCHANGED tables
<1>1. ASSUME Rollback(s) PROVE UNCHANGED tables
  BY <1>1 DEF Rollback, tables
<1>2. CASE Start(s)
  BY <1>2 DEF Start, Begin, tables
<1>3. CASE Statement(s)
  BY <1>1, <1>3
     DEF Statement, EnsureSystemAccount, EnsureAccount, LockRequest, RefuseRequest,
         TargetNotFound, DebitBalance, RefuseDebit, CreditBalance, OutOfRange,
         InsertEntry, EntryExists, MarkPaid, tables
<1>4. CASE DeadlockAbort(s) \/ Disconnect(s)
  BY <1>1, <1>4 DEF DeadlockAbort, Disconnect
<1>5. QED
  BY <1>2, <1>3, <1>4

LEMMA CommitRefines ==
    ASSUME IInv, NEW s \in Sessions, Commit(s)
    PROVE  Atomic!Next \/ UNCHANGED Atomic!vars
<1> DEFINE k == call[s]
           w == work[s]
           mine == [p \in Players |-> balance[p]]
           paid == {r \in Requests : request[r].status = "paid"}
<1>1. /\ pc[s] = "commit"
      /\ balance' = [x \in Accounts |-> Seen(s, x)]
      /\ ledger' = IF w.entered THEN Append(ledger, EntryOf(s)) ELSE ledger
      /\ request' = IF w.paid THEN [request EXCEPT ![k.request] =
                                      [status |-> "paid", ledgerId |-> Len(ledger) + 1]]
                              ELSE request
  BY DEF Commit
<1>2. /\ k \in Call /\ k.op \in Operations /\ k.amount > 0
      /\ w.paid <=> k.op = "accept"
      /\ k.op \in {"transfer", "accept"} => w.entered
      /\ w.debited <=> w.entered /\ k.op \notin {"wallet", "credit"}
      /\ w.debited => /\ k.from \in Players /\ k.from # k.to
                      /\ balance[k.from] >= k.amount
      /\ k.op \in {"wallet", "credit"} => k.from = SystemAccount
      /\ k.op = "debit" => k.to = SystemAccount
      /\ k.op # "debit" => k.to \in Players
      /\ w.entered /\ k.key # None => ~KeyUsed(k.key)
      /\ k.op = "accept" => /\ k.request \in Requests
                            /\ request[k.request].status = "pending"
                            /\ Payer[k.request] = k.from
                            /\ Payee[k.request] = k.to
                            /\ Due[k.request] = k.amount
      /\ k.op # "accept" => k.request = None
      /\ k.op \in {"transfer", "accept"} <=> k.key = None
  BY <1>1, AtCommit
<1>3. SystemAccount \notin Players
  BY ConstantsAssumption
<1>4. \A p \in Players :
         balance'[p] = balance[p]
            + (IF w.entered /\ p = k.to THEN k.amount ELSE 0)
            - (IF w.entered /\ p = k.from THEN k.amount ELSE 0)
  BY <1>1, CommitBalances DEF Accounts
<1>5. \A p \in Players : balance[p] \in Int
  BY ConstantsAssumption DEF IInv, TypeOK, Accounts
<1>6. CASE ~w.entered
  <2>1. k.op \notin {"transfer", "accept"} /\ ~w.paid
    BY <1>2, <1>6
  <2>2. ledger' = ledger /\ request' = request /\ mine' = mine
    BY <1>1, <1>4, <1>5, <1>6, <2>1
  <2>3. QED
    BY <2>2 DEF Atomic!vars
<1>7. CASE w.entered
  <2>1. mine' = [p \in Players |->
                    mine[p] + (IF p = k.to THEN k.amount ELSE 0)
                            - (IF p = k.from THEN k.amount ELSE 0)]
    BY <1>4, <1>7
  <2>2. ledger' = Append(ledger, Atomic!Movement(k.from, k.to, k.amount, k.key, k.request))
    BY <1>1, <1>7 DEF EntryOf, Atomic!Movement
  <2>3. Atomic!Post(Atomic!Movement(k.from, k.to, k.amount, k.key, k.request))
    <3>1. k.from # k.to /\ k.amount > 0
      BY <1>2, <1>3, <1>7 DEF Operations
    <3>2. k.from \in Players => mine[k.from] >= k.amount
      BY <1>2, <1>3, <1>7 DEF Operations
    <3>3. k.key # None => Atomic!Unused(k.key)
      BY <1>2, <1>7 DEF Atomic!Unused, KeyUsed
    <3>4. QED
      BY <2>1, <2>2, <3>1, <3>2, <3>3 DEF Atomic!Post, Atomic!Movement
  <2>4. k.op # "accept" => k.amount \in Amounts \cup {InitialMarkGrant}
    BY <1>1, OpenSession DEF CallInv
  <2>5. k.op \in Keyed => k.key \in IdempotencyKeys
    BY <1>2 DEF Call, Keyed
  <2>6. k.op # "accept" => paid' = paid
    BY <1>1, <1>2
  <2>7. CASE k.op \in {"wallet", "credit"}
    <3>1. Atomic!Issue(k.to, k.amount, k.key)
      BY <1>2, <2>3, <2>6, <2>7 DEF Atomic!Issue, Atomic!Post, Atomic!Movement
    <3>2. QED
      BY <1>2, <2>4, <2>5, <2>7, <3>1 DEF Atomic!Next, Keyed
  <2>8. CASE k.op = "debit"
    <3>1. Atomic!Redeem(k.from, k.amount, k.key)
      BY <1>2, <2>3, <2>6, <2>8 DEF Atomic!Redeem, Atomic!Post, Atomic!Movement
    <3>2. QED
      BY <1>2, <1>7, <2>4, <2>5, <2>8, <3>1 DEF Atomic!Next, Keyed
  <2>9. CASE k.op = "transfer"
    <3>1. Atomic!Pay(k.from, k.to, k.amount)
      BY <1>2, <2>3, <2>6, <2>9 DEF Atomic!Pay, Atomic!Post, Atomic!Movement
    <3>2. QED
      BY <1>2, <1>7, <2>4, <2>9, <3>1 DEF Atomic!Next
  <2>10. CASE k.op = "accept"
    <3>1. PICK r \in Requests : r = k.request
      BY <1>2, <2>10
    <3>2. r \notin paid
      BY <1>2, <2>10, <3>1
    <3>3. paid' = paid \cup {r}
      BY <1>1, <1>2, <2>10, <3>1 DEF IInv, TypeOK
    <3>4. Atomic!Settle(r)
      BY <1>2, <2>3, <2>10, <3>1, <3>2, <3>3
         DEF Atomic!Settle, Atomic!Post, Atomic!Movement
    <3>5. QED
      BY <3>4 DEF Atomic!Next
  <2>11. QED
    BY <1>2, <2>7, <2>8, <2>9, <2>10 DEF Operations
<1>8. QED
  BY <1>6, <1>7

LEMMA StepRefines == IInv /\ [Next]_vars => [Atomic!Next]_(Atomic!vars)
<1> SUFFICES ASSUME IInv, [Next]_vars PROVE Atomic!Next \/ UNCHANGED Atomic!vars
  OBVIOUS
<1>1. ASSUME UNCHANGED tables PROVE UNCHANGED Atomic!vars
  BY <1>1 DEF tables, Atomic!vars
<1>2. CASE UNCHANGED vars
  BY <1>1, <1>2 DEF vars
<1>3. CASE Next
  <2>1. PICK s \in Sessions : \/ Start(s) \/ Statement(s) \/ DeadlockAbort(s)
                              \/ Disconnect(s)
    BY <1>3 DEF Next
  <2>2. QED
    BY <1>1, <2>1, OnlyCommitWrites, CommitRefines
<1>4. QED
  BY <1>2, <1>3

(* The transactions implement the atomic ledger: money moves only in       *)
(* two-sided, fully funded steps, each key and each request once.          *)
THEOREM LedgerRefinesAtomic == Spec => ImplementsAtomicLedger
<1>1. Init => Atomic!Init
  BY InitRefines
<1>2. IInv /\ [Next]_vars => [Atomic!Next]_(Atomic!vars)
  BY StepRefines
<1>3. QED
  BY <1>1, <1>2, LedgerInvariant, PTL DEF Spec, Atomic!Spec, ImplementsAtomicLedger

-----------------------------------------------------------------------------
(* Every set of naturals has a least one. *)
LEMMA LeastNatural ==
    ASSUME NEW T, T \subseteq Nat, T # {}
    PROVE  \E x \in T : \A y \in T : x <= y
<1> DEFINE R == OpToRel(<, Nat)
<1>1. IsWellFoundedOn(R, Nat)
  BY NatLessThanWellFounded
<1>2. \A x, y \in Nat : y < x => <<y, x>> \in R
  BY DEF OpToRel
<1> HIDE DEF R
<1>3. \E x \in T : \A y \in T : ~(<<y, x>> \in R)
  BY <1>1, WFMin
<1>4. PICK x \in T : \A y \in T : ~(<<y, x>> \in R)
  BY <1>3
<1>5. ASSUME NEW y \in T PROVE x <= y
  <2>1. x \in Nat /\ y \in Nat
    OBVIOUS
  <2>2. ~(y < x)
    BY <1>2, <1>4, <2>1
  <2> QED
    BY <2>1, <2>2
<1> QED
  BY <1>5

(* Induction up to n, over the set of the numbers for which a fact holds. *)
LEMMA UpTo ==
    ASSUME NEW n \in Nat, NEW S, 0 \in S,
           \A k \in 0..n : k # 0 /\ k - 1 \in S => k \in S
    PROVE  0..n \subseteq S
<1> SUFFICES ASSUME NEW j \in 0..n, j \notin S PROVE FALSE
  OBVIOUS
<1> DEFINE T == {k \in 0..n : k \notin S}
<1>1. T \subseteq Nat /\ T # {}
  OBVIOUS
<1>2. PICK x \in T : \A y \in T : x <= y
  BY <1>1, LeastNatural
<1>3. x # 0 /\ x \in 0..n /\ x - 1 \in 0..n /\ x \notin S
  OBVIOUS
<1>4. x - 1 \in S
  BY <1>2, <1>3
<1> QED
  BY <1>3, <1>4

(* The running totals of a sequence, and what tells them apart from other  *)
(* functions.                                                              *)
Running(d, f, k) == f = [n \in 0..k |-> IF n = 0 THEN 0 ELSE f[n - 1] + d[n]]

LEMMA RunningExists ==
    ASSUME NEW d \in Seq(Int), NEW k \in 0..Len(d)
    PROVE  \E f \in [0..k -> Int] : Running(d, f, k)
<1> DEFINE S == {m \in 0..Len(d) : \E f \in [0..m -> Int] : Running(d, f, m)}
<1>1. 0 \in S
  <2>1. [n \in 0..0 |-> 0] \in [0..0 -> Int] /\ Running(d, [n \in 0..0 |-> 0], 0)
    BY DEF Running
  <2> QED
    BY <2>1
<1>2. ASSUME NEW m \in 0..Len(d), m # 0, m - 1 \in S
      PROVE  m \in S
  <2>1. PICK g \in [0..m - 1 -> Int] : Running(d, g, m - 1)
    BY <1>2
  <2> DEFINE f == [n \in 0..m |-> IF n = m THEN g[m - 1] + d[m] ELSE g[n]]
  <2>2. m - 1 \in 0..m - 1 /\ g[m - 1] \in Int /\ d[m] \in Int
    BY <1>2
  <2>3. f \in [0..m -> Int]
    BY <1>2, <2>2
  <2>4. ASSUME NEW n \in 0..m
        PROVE  f[n] = IF n = 0 THEN 0 ELSE f[n - 1] + d[n]
    <3>1. CASE n = m
      BY <1>2, <3>1
    <3>2. CASE n # m
      <4>1. n \in 0..m - 1 /\ (n # 0 => n - 1 \in 0..m - 1)
        BY <1>2, <3>2
      <4>2. g[n] = IF n = 0 THEN 0 ELSE g[n - 1] + d[n]
        BY <2>1, <4>1 DEF Running
      <4>3. f[n] = g[n] /\ (n # 0 => f[n - 1] = g[n - 1])
        BY <1>2, <3>2, <4>1
      <4> QED
        BY <4>2, <4>3
    <3> QED
      BY <3>1, <3>2
  <2> HIDE DEF f
  <2>5. Running(d, f, m)
    BY <2>3, <2>4 DEF Running
  <2> QED
    BY <2>3, <2>5
<1>3. 0..Len(d) \subseteq S
  <2> HIDE DEF S
  <2>1. Len(d) \in Nat
    OBVIOUS
  <2> QED
    BY <1>1, <1>2, <2>1, UpTo
<1> QED
  BY <1>3

(* They are the same for sequences that agree that far. *)
LEMMA RunningAgrees ==
    ASSUME NEW d, NEW e, NEW f, NEW g, NEW k \in Nat, NEW m \in Nat, k <= m,
           Running(d, f, k), Running(e, g, m), \A n \in 1..k : d[n] = e[n]
    PROVE  \A n \in 0..k : f[n] = g[n]
<1> DEFINE S == {n \in 0..k : f[n] = g[n]}
<1>1. 0 \in S
  BY DEF Running
<1>2. ASSUME NEW n \in 0..k, n # 0, n - 1 \in S PROVE n \in S
  <2>1. f[n] = f[n - 1] + d[n] /\ g[n] = g[n - 1] + e[n]
    BY <1>2 DEF Running
  <2> QED
    BY <1>2, <2>1
<1>3. 0..k \subseteq S
  <2> HIDE DEF S
  <2> QED
    BY <1>1, <1>2, UpTo
<1> QED
  BY <1>3

LEMMA RunningOneMore ==
    ASSUME NEW d, NEW e, NEW f, NEW g, NEW k \in Nat,
           Running(d, f, k), Running(e, g, k + 1), \A n \in 1..k : d[n] = e[n]
    PROVE  g[k + 1] = f[k] + e[k + 1]
<1>1. PICK m \in Nat : m = k + 1
  OBVIOUS
<1>2. k <= m /\ Running(e, g, m)
  BY <1>1
<1>3. \A n \in 0..k : f[n] = g[n]
  BY <1>2, RunningAgrees
<1>4. k \in 0..k /\ m \in 0..m /\ m # 0 /\ m - 1 = k
  BY <1>1
<1>5. g[m] = g[k] + e[m]
  BY <1>2, <1>4 DEF Running
<1> QED
  BY <1>1, <1>3, <1>4, <1>5

LEMMA TotalRuns ==
    ASSUME NEW d \in Seq(Int)
    PROVE  \E f \in [0..Len(d) -> Int] : Running(d, f, Len(d)) /\ Total(d) = f[Len(d)]
<1> DEFINE sum == CHOOSE f : f = [n \in 0..Len(d) |-> IF n = 0 THEN 0 ELSE f[n - 1] + d[n]]
<1>1. Len(d) \in 0..Len(d) /\ Len(d) \in Nat /\ Len(d) <= Len(d)
  OBVIOUS
<1>2. PICK g \in [0..Len(d) -> Int] : Running(d, g, Len(d))
  BY <1>1, RunningExists
<1>3. Total(d) = sum[Len(d)]
  BY DEF Total
<1>4. Running(d, sum, Len(d))
  BY <1>2 DEF Running
<1> HIDE DEF sum
<1>5. sum[Len(d)] = g[Len(d)]
  BY <1>1, <1>2, <1>4, RunningAgrees
<1> QED
  BY <1>2, <1>3, <1>5

LEMMA TotalOfNothing ==
    ASSUME NEW d \in Seq(Int), Len(d) = 0
    PROVE  Total(d) = 0
<1>1. PICK f \in [0..Len(d) -> Int] : Running(d, f, Len(d)) /\ Total(d) = f[Len(d)]
  BY TotalRuns
<1> QED
  BY <1>1 DEF Running

(* e has the amounts of d and one more. *)
OneMore(d, e) == /\ d \in Seq(Int) /\ e \in Seq(Int) /\ Len(e) = Len(d) + 1
                 /\ \A n \in 1..Len(d) : d[n] = e[n]

LEMMA TotalGrows ==
    ASSUME NEW d, NEW e, OneMore(d, e)
    PROVE  Total(e) = Total(d) + e[Len(e)] /\ Total(d) \in Int
<1>0. d \in Seq(Int) /\ e \in Seq(Int)
  BY DEF OneMore
<1>1. PICK f : /\ f \in [0..Len(d) -> Int]
               /\ Running(d, f, Len(d)) /\ Total(d) = f[Len(d)]
  BY <1>0, TotalRuns
<1>2. PICK g : Running(e, g, Len(e)) /\ Total(e) = g[Len(e)]
  BY <1>0, TotalRuns
<1>3. PICK k \in Nat : k = Len(d)
  BY <1>0
<1>4. k + 1 = Len(e)
  BY <1>3 DEF OneMore
<1>5. Running(d, f, k) /\ Running(e, g, k + 1) /\ \A n \in 1..k : d[n] = e[n]
  BY <1>1, <1>2, <1>3, <1>4 DEF OneMore
<1>6. g[k + 1] = f[k] + e[k + 1]
  BY <1>3, <1>5, RunningOneMore
<1>7. f[k] \in Int
  <2>1. k \in 0..Len(d)
    BY <1>3
  <2> QED
    BY <1>1, <2>1
<1> QED
  BY <1>1, <1>2, <1>3, <1>4, <1>6, <1>7

-----------------------------------------------------------------------------
Flows(l, a) == [n \in 1..Len(l) |-> Flow(l[n], a)]

LEMMA FlowsTyped ==
    ASSUME NEW l \in Seq(Entry), NEW a
    PROVE  /\ Flows(l, a) \in Seq(Int) /\ Len(Flows(l, a)) = Len(l)
           /\ \A n \in 1..Len(l) : Flows(l, a)[n] = Flow(l[n], a)
<1>1. \A n \in 1..Len(l) : l[n].amount \in Nat
  <2>1. \A n \in 1..Len(l) : l[n] \in Entry
    OBVIOUS
  <2> QED
    BY <2>1 DEF Entry
<1>2. \A n \in 1..Len(l) : Flow(l[n], a) \in Int
  BY <1>1 DEF Flow
<1>3. Len(l) \in Nat
  OBVIOUS
<1> QED
  BY <1>2, <1>3 DEF Flows

LEMMA NetGrows ==
    ASSUME IInv, NEW e \in Entry, NEW a, ledger' = Append(ledger, e)
    PROVE  Net(a)' = Net(a) + Flow(e, a)
<1>1. ledger \in Seq(Entry)
  BY DEF IInv, TypeOK
<1>2. PICK l, m : l = ledger /\ m = ledger'
  OBVIOUS
<1>3. /\ l \in Seq(Entry) /\ m \in Seq(Entry) /\ Len(m) = Len(l) + 1 /\ m[Len(m)] = e
      /\ \A n \in 1..Len(l) : m[n] = l[n]
  BY <1>1, <1>2
<1>4. /\ Flows(l, a) \in Seq(Int) /\ Len(Flows(l, a)) = Len(l)
      /\ \A n \in 1..Len(l) : Flows(l, a)[n] = Flow(l[n], a)
      /\ Flows(m, a) \in Seq(Int) /\ Len(Flows(m, a)) = Len(m)
      /\ \A n \in 1..Len(m) : Flows(m, a)[n] = Flow(m[n], a)
  BY <1>3, FlowsTyped
<1>5. /\ Len(Flows(m, a)) = Len(Flows(l, a)) + 1
      /\ \A n \in 1..Len(Flows(l, a)) : Flows(m, a)[n] = Flows(l, a)[n]
      /\ Flows(m, a)[Len(Flows(m, a))] = Flow(e, a)
  BY <1>3, <1>4
<1>6. Total(Flows(m, a)) = Total(Flows(l, a)) + Flow(e, a)
  BY <1>4, <1>5, TotalGrows DEF OneMore
<1> QED
  BY <1>2, <1>6 DEF Net, Flows

LEMMA CommitKeepsBalances ==
    ASSUME IInv, BalancesMatchLedger, NEW s \in Sessions, Commit(s)
    PROVE  BalancesMatchLedger'
<1>0. pc[s] = "commit"
  BY DEF Commit
<1>1. ASSUME NEW p \in Players PROVE balance'[p] = Net(p)'
  <2>1. /\ balance'[p] = Seen(s, p)
        /\ ledger' = IF work[s].entered THEN Append(ledger, EntryOf(s)) ELSE ledger
    BY DEF Commit, Accounts
  <2>2. Seen(s, p) = balance[p]
                     + (IF work[s].entered /\ p = call[s].to THEN call[s].amount ELSE 0)
                     - (IF work[s].entered /\ p = call[s].from THEN call[s].amount ELSE 0)
    BY <1>0, CommitBalances
  <2>3. call[s] \in Call /\ balance[p] \in Int /\ call[s].amount \in Int /\ balance[p] = Net(p)
    BY ConstantsAssumption DEF IInv, TypeOK, Call, Accounts, BalancesMatchLedger
  <2>4. CASE work[s].entered
    <3>1. call[s].to \in Accounts
      BY <1>0, <2>4, AtCommit DEF Accounts, Call, Operations
    <3>2. EntryOf(s) \in Entry
      BY <2>3, <3>1 DEF EntryOf, Entry, Call
    <3>3. Net(p)' = Net(p) + Flow(EntryOf(s), p)
      BY <2>1, <2>4, <3>2, NetGrows
    <3>4. Flow(EntryOf(s), p) = (IF p = call[s].to THEN call[s].amount ELSE 0)
                                  - (IF p = call[s].from THEN call[s].amount ELSE 0)
      BY DEF Flow, EntryOf
    <3> QED
      BY <2>1, <2>2, <2>3, <2>4, <3>3, <3>4
  <2>5. CASE ~work[s].entered
    <3>1. Net(p)' = Net(p)
      BY <2>1, <2>5 DEF Net
    <3> QED
      BY <2>1, <2>2, <2>3, <2>5, <3>1
  <2> QED
    BY <2>4, <2>5
<1> QED
  BY <1>1 DEF BalancesMatchLedger

(* A player's cached balance is what the committed entries add up to, after *)
(* every commit, rollback and skipped duplicate.                           *)
THEOREM LedgerMatchesBalances == Spec => []BalancesMatchLedger
<1>1. Init => BalancesMatchLedger
  <2> SUFFICES ASSUME Init, NEW p \in Players PROVE balance[p] = Net(p)
    BY DEF BalancesMatchLedger
  <2>1. ledger \in Seq(Entry) /\ Len(ledger) = 0
    BY DEF Init
  <2>2. Flows(ledger, p) \in Seq(Int) /\ Len(Flows(ledger, p)) = 0
    BY <2>1, FlowsTyped
  <2>3. Net(p) = 0
    BY <2>2, TotalOfNothing DEF Net, Flows
  <2> QED
    BY <2>3 DEF Init, Accounts
<1>2. IInv /\ BalancesMatchLedger /\ [Next]_vars => BalancesMatchLedger'
  <2> SUFFICES ASSUME IInv, BalancesMatchLedger, [Next]_vars PROVE BalancesMatchLedger'
    OBVIOUS
  <2>1. CASE UNCHANGED tables
    BY <2>1 DEF tables, BalancesMatchLedger, Net
  <2>2. ASSUME NEW s \in Sessions, Commit(s) PROVE BalancesMatchLedger'
    BY <2>2, CommitKeepsBalances
  <2>3. CASE UNCHANGED vars
    BY <2>1, <2>3 DEF vars
  <2> QED
    BY <2>1, <2>2, <2>3, OnlyCommitWrites DEF Next
<1> QED
  BY <1>1, <1>2, LedgerInvariant, PTL DEF Spec

-----------------------------------------------------------------------------
(* The order of the locks: an operation of the system account has the      *)
(* system row from its first statement on, before any player's row; a row  *)
(* is held by an operation that is past the statement that locks it.       *)
MayHold(s, row) ==
    LET k == call[s]
    IN  \/ /\ row = <<"account", SystemAccount>>
           /\ k.op \in Keyed /\ pc[s] \notin {"idle", "system"}
        \/ /\ row = <<"account", k.from>> /\ k.from \in Players
           /\ pc[s] # "idle" /\ PastFrom(s)
        \/ /\ row = <<"account", k.to>> /\ k.to \in Players
           /\ pc[s] # "idle" /\ PastTo(s)
        \/ /\ row = <<"key", k.key>>
           /\ k.op \in Keyed /\ pc[s] \in {"debit", "credit", "commit"}
        \/ /\ row = <<"request", k.request>>
           /\ k.op = "accept" /\ pc[s] \notin {"idle", "request"}

InOrder(s) ==
    /\ call[s].op \in Keyed /\ pc[s] \notin {"idle", "system"} =>
          holder[<<"account", SystemAccount>>] = s
    /\ \A row \in Rows : holder[row] = s => MayHold(s, row)

LockOrder == \A s \in Sessions : InOrder(s)

(* A step of s that leaves the locks of the others as they are. *)
LEMMA OthersInOrder ==
    ASSUME IInv, LockOrder, NEW s \in Sessions,
           \A t \in Sessions \ {s} :
               /\ pc'[t] = pc[t] /\ call'[t] = call[t]
               /\ \A row \in Rows : holder'[row] = t <=> holder[row] = t,
           InOrder(s)'
    PROVE  LockOrder'
<1> SUFFICES ASSUME NEW t \in Sessions \ {s} PROVE InOrder(t)'
  BY DEF LockOrder
<1>1. InOrder(t)
  BY DEF LockOrder
<1>2. <<"account", SystemAccount>> \in Rows
  BY DEF Rows, Accounts
<1>3. /\ pc'[t] = pc[t] /\ call'[t] = call[t]
      /\ \A row \in Rows : holder'[row] = t <=> holder[row] = t
  OBVIOUS
<1>4. \A row \in Rows : MayHold(t, row) => MayHold(t, row)'
  BY <1>3 DEF MayHold, PastFrom, PastTo
<1> QED
  BY <1>1, <1>2, <1>3, <1>4 DEF InOrder

(* A transaction that ends has no row left. *)
LEMMA EndInOrder ==
    ASSUME IInv, LockOrder, NEW s \in Sessions, ReleaseAll(s),
           pc' = [pc EXCEPT ![s] = "idle"], call' = [call EXCEPT ![s] = NoCall]
    PROVE  LockOrder'
<1>1. \A row \in Rows : holder[row] \in Sessions \cup {None} /\ holder'[row] # s
  BY ConstantsAssumption DEF ReleaseAll, IInv, TypeOK
<1>2. InOrder(s)'
  BY <1>1 DEF InOrder, IInv, TypeOK
<1>3. \A t \in Sessions \ {s} :
         /\ pc'[t] = pc[t] /\ call'[t] = call[t]
         /\ \A row \in Rows : holder'[row] = t <=> holder[row] = t
  BY ConstantsAssumption DEF ReleaseAll, IInv, TypeOK
<1> QED
  BY <1>2, <1>3, OthersInOrder

LEMMA BeginInOrder ==
    ASSUME IInv, LockOrder, NEW s \in Sessions,
           NEW c \in WalletCalls \cup CreditCalls \cup DebitCalls
                        \cup TransferCalls \cup AcceptCalls,
           Begin(s, c)
    PROVE  LockOrder'
<1>1. c \in Call
  BY CallsWellFormed
<1>2. pc[s] = "idle" /\ call'[s] = c /\ pc'[s] = NextOf(c.op, "begin") /\ holder' = holder
  BY DEF Begin, IInv, TypeOK
<1>3. c.op \in Keyed => pc'[s] = "system"
  BY <1>1, <1>2, ScriptSteps DEF Keyed
<1>4. \A row \in Rows : holder[row] # s
  BY <1>2 DEF LockOrder, InOrder, MayHold
<1>5. InOrder(s)'
  BY <1>2, <1>3, <1>4 DEF InOrder
<1>6. \A t \in Sessions \ {s} :
         /\ pc'[t] = pc[t] /\ call'[t] = call[t]
         /\ \A row \in Rows : holder'[row] = t <=> holder[row] = t
  BY DEF Begin, IInv, TypeOK
<1> QED
  BY <1>5, <1>6, OthersInOrder

(* A session goes on from a statement to a later one. *)
LEMMA Forward ==
    ASSUME IInv, NEW s \in Sessions, pc[s] \notin {"idle", "commit"}, Advance(s)
    PROVE  /\ pc'[s] \notin {"idle", "system", "request"}
           /\ pc[s] \in {"system", "request"} => ~PastFrom(s) /\ ~PastTo(s)
           /\ PastFrom(s) \/ pc[s] = "from" => pc'[s] # "from"
           /\ PastTo(s) \/ pc[s] = "to" => pc'[s] \notin {"from", "to"}
           /\ call[s].op \in Keyed /\ pc[s] \in {"entry", "debit", "credit"} =>
                 pc'[s] \in {"debit", "credit", "commit"}
           /\ pc[s] = "system" => call[s].op \in Keyed
           /\ pc[s] = "request" => call[s].op = "accept"
<1>1. CallInv(s) /\ call[s].op \in Operations
  BY OpenSession
<1>2. pc'[s] = NextOf(call[s].op, pc[s])
  BY DEF Advance, IInv, TypeOK
<1>3. CASE call[s].op \in {"wallet", "credit"}
  BY <1>1, <1>2, <1>3, ScriptSteps DEF CallInv, PastFrom, PastTo, Keyed
<1>4. CASE call[s].op = "debit"
  BY <1>1, <1>2, <1>4, ScriptSteps DEF CallInv, PastFrom, PastTo, Keyed
<1>5. CASE call[s].op = "transfer"
  BY <1>1, <1>2, <1>5, ScriptSteps DEF CallInv, PastFrom, PastTo, Keyed
<1>6. CASE call[s].op = "accept"
  BY <1>1, <1>2, <1>6, ScriptSteps DEF CallInv, PastFrom, PastTo, Keyed
<1> QED
  BY <1>1, <1>3, <1>4, <1>5, <1>6 DEF Operations

(* It may hold what it held, at a later statement. *)
LEMMA StillMayHold ==
    ASSUME NEW s \in Sessions, NEW row \in Rows, MayHold(s, row), call'[s] = call[s],
           pc'[s] \notin {"idle", "system", "request"},
           PastFrom(s) => PastFrom(s)', PastTo(s) => PastTo(s)',
           call[s].op \in Keyed /\ pc[s] \in {"entry", "debit", "credit"} =>
               pc'[s] \in {"debit", "credit", "commit"},
           pc[s] # "commit"
    PROVE  MayHold(s, row)'
BY DEF MayHold

(* A statement that goes on, with the row it wanted or with no new one. *)
LEMMA StatementInOrder ==
    ASSUME IInv, LockOrder, NEW s \in Sessions, pc[s] \notin {"idle", "commit"},
           Advance(s), call' = call, NEW wanted, wanted = Wanted(s),
           \/ holder' = holder /\ pc[s] # "system"
           \/ /\ wanted \in Rows /\ holder[wanted] \in {s, None} /\ Acquire(s)
              /\ MayHold(s, wanted)'
              /\ pc[s] = "system" => wanted = <<"account", SystemAccount>>
    PROVE  LockOrder'
<1>1. /\ pc'[s] \notin {"idle", "system", "request"}
      /\ PastFrom(s) => PastFrom(s)'
      /\ PastTo(s) => PastTo(s)'
      /\ call[s].op \in Keyed /\ pc[s] \in {"entry", "debit", "credit"} =>
            pc'[s] \in {"debit", "credit", "commit"}
  BY Forward DEF PastFrom, PastTo
<1>2. \A row \in Rows : MayHold(s, row) => MayHold(s, row)'
  BY <1>1, StillMayHold
<1>3. \A t \in Sessions \ {s}, row \in Rows : holder'[row] = t <=> holder[row] = t
  BY ConstantsAssumption DEF Acquire, IInv, TypeOK
<1>4. \A row \in Rows : holder'[row] = s => holder[row] = s \/ MayHold(s, row)'
  BY DEF Acquire, IInv, TypeOK
<1>5. <<"account", SystemAccount>> \in Rows
  BY DEF Rows, Accounts
<1>6. call[s].op \in Keyed => holder'[<<"account", SystemAccount>>] = s
  <2>1. CASE pc[s] = "system"
    BY <1>5, <2>1 DEF Acquire, IInv, TypeOK
  <2>2. CASE pc[s] # "system"
    <3>1. call[s].op \in Keyed => holder[<<"account", SystemAccount>>] = s
      BY <2>2 DEF LockOrder, InOrder
    <3> QED
      BY <1>5, <3>1 DEF Acquire, IInv, TypeOK
  <2> QED
    BY <2>1, <2>2
<1>7. InOrder(s)'
  BY <1>2, <1>4, <1>6 DEF InOrder, LockOrder
<1>8. \A t \in Sessions \ {s} : pc'[t] = pc[t] /\ call'[t] = call[t]
  BY DEF Advance, IInv, TypeOK
<1> QED
  BY <1>3, <1>7, <1>8, OthersInOrder

LEMMA WantedRows ==
    ASSUME IInv, NEW s \in Sessions, pc[s] \in {"system", "from", "to", "request", "entry"},
           pc[s] = "to" => call[s].to # None, pc[s] = "entry" => call[s].key # None
    PROVE  /\ Wanted(s) \in Rows
           /\ Available(s) => holder[Wanted(s)] \in {s, None}
           /\ pc[s] = "system" => Wanted(s) = <<"account", SystemAccount>> /\ call[s].op \in Keyed
           /\ pc[s] = "from" => Wanted(s) = <<"account", call[s].from>> /\ call[s].from \in Players
           /\ pc[s] = "to" => Wanted(s) = <<"account", call[s].to>> /\ call[s].to \in Players
           /\ pc[s] = "request" => /\ Wanted(s) = <<"request", call[s].request>>
                                   /\ call[s].op = "accept"
           /\ pc[s] = "entry" => Wanted(s) = <<"key", call[s].key>> /\ call[s].op \in Keyed
<1>1. CallInv(s) /\ call[s] \in Call /\ call[s].op \in Operations
  BY OpenSession
<1>2. /\ pc[s] = "system" => call[s].op \in Keyed
      /\ pc[s] = "from" => call[s].from \in Players
      /\ pc[s] = "to" => call[s].to \in Players
      /\ pc[s] = "request" => call[s].op = "accept" /\ call[s].request \in Requests
      /\ pc[s] = "entry" => call[s].op \in Keyed /\ call[s].key \in IdempotencyKeys
  <2>1. call[s].key \in IdempotencyKeys \cup {None} /\ call[s].to \in Accounts \cup {None}
    BY <1>1 DEF Call
  <2>2. /\ pc[s] = "system" => call[s].op \in Keyed
        /\ pc[s] = "from" => call[s].from \in Players
        /\ pc[s] = "request" => call[s].op = "accept" /\ call[s].request \in Requests
        /\ pc[s] = "entry" => call[s].op \in Keyed /\ call[s].key \in IdempotencyKeys
    BY <1>1, <2>1 DEF CallInv, Operations, Keyed
  <2>3. pc[s] = "to" => call[s].to \in Players
    BY <1>1, <2>1, ConstantsAssumption DEF CallInv, Operations
  <2> QED
    BY <2>2, <2>3
<1>3. Wanted(s) \in Rows
  BY <1>2 DEF Wanted, Rows, Accounts
<1> QED
  BY <1>2, <1>3 DEF Wanted, Available, Locks

LEMMA StepInOrder ==
    ASSUME IInv, LockOrder, NEW s \in Sessions, Statement(s)
    PROVE  LockOrder'
<1>1. ASSUME Rollback(s) PROVE LockOrder'
  BY <1>1, EndInOrder DEF Rollback
<1>2. ASSUME pc[s] \in {"system", "from", "to", "request", "entry"},
             pc[s] = "to" => call[s].to # None, pc[s] = "entry" => call[s].key # None,
             Available(s), Acquire(s), Advance(s), call' = call
      PROVE  LockOrder'
  <2>1. PICK row : row = Wanted(s)
    OBVIOUS
  <2>2. /\ row \in Rows /\ holder[row] \in {s, None}
        /\ pc[s] = "system" => row = <<"account", SystemAccount>> /\ call[s].op \in Keyed
        /\ pc[s] = "from" => row = <<"account", call[s].from>> /\ call[s].from \in Players
        /\ pc[s] = "to" => row = <<"account", call[s].to>> /\ call[s].to \in Players
        /\ pc[s] = "request" => row = <<"request", call[s].request>> /\ call[s].op = "accept"
        /\ pc[s] = "entry" => row = <<"key", call[s].key>> /\ call[s].op \in Keyed
    BY <1>2, <2>1, WantedRows
  <2>3. /\ pc'[s] \notin {"idle", "system", "request"}
        /\ pc[s] = "from" => pc'[s] # "from"
        /\ pc[s] = "to" => pc'[s] \notin {"from", "to"}
        /\ call[s].op \in Keyed /\ pc[s] = "entry" => pc'[s] \in {"debit", "credit", "commit"}
    BY <1>2, Forward
  <2>4. MayHold(s, row)'
    BY <1>2, <2>2, <2>3 DEF MayHold, PastFrom, PastTo
  <2> QED
    BY <1>2, <2>1, <2>2, <2>4, StatementInOrder
<1>3. ASSUME pc[s] \notin {"idle", "commit", "system"}, Advance(s), call' = call, holder' = holder
      PROVE  LockOrder'
  BY <1>3, StatementInOrder
<1>4. CASE EnsureSystemAccount(s)
  BY <1>2, <1>4 DEF EnsureSystemAccount
<1>5. CASE EnsureAccount(s, "from", call[s].from) \/ EnsureAccount(s, "to", call[s].to)
  BY <1>2, <1>5 DEF EnsureAccount
<1>6. CASE LockRequest(s)
  BY <1>2, <1>6 DEF LockRequest
<1>7. CASE InsertEntry(s)
  <2>1. CASE call[s].key # None
    BY <1>2, <1>7, <2>1 DEF InsertEntry
  <2>2. CASE call[s].key = None
    BY <1>3, <1>7, <2>2 DEF InsertEntry
  <2> QED
    BY <2>1, <2>2
<1>8. CASE DebitBalance(s) \/ CreditBalance(s) \/ MarkPaid(s)
  BY <1>3, <1>8 DEF DebitBalance, CreditBalance, MarkPaid
<1>9. CASE EntryExists(s)
  <2>1. /\ pc[s] = "entry" /\ pc' = [pc EXCEPT ![s] = "commit"] /\ call' = call
        /\ holder' = holder
    BY <1>9 DEF EntryExists
  <2>2. pc'[s] = "commit" /\ \A t \in Sessions \ {s} : pc'[t] = pc[t]
    BY <2>1 DEF IInv, TypeOK
  <2>3. \A row \in Rows : MayHold(s, row) => MayHold(s, row)'
    BY <2>1, <2>2 DEF MayHold, PastFrom, PastTo
  <2>4. InOrder(s)'
    BY <2>1, <2>2, <2>3 DEF LockOrder, InOrder
  <2> QED
    BY <2>1, <2>2, <2>4, OthersInOrder
<1>10. CASE Commit(s)
  BY <1>10, EndInOrder DEF Commit
<1>11. CASE RefuseRequest(s) \/ TargetNotFound(s) \/ RefuseDebit(s) \/ OutOfRange(s)
  BY <1>1, <1>11 DEF RefuseRequest, TargetNotFound, RefuseDebit, OutOfRange
<1> QED
  BY <1>4, <1>5, <1>6, <1>7, <1>8, <1>9, <1>10, <1>11 DEF Statement

(* The order of the locks is kept by every statement of every script of    *)
(* storage_ext.rs, however they interleave, end or fail.                   *)
THEOREM LedgerLockOrder == Spec => []LockOrder
<1>1. Init => LockOrder
  BY ConstantsAssumption DEF Init, LockOrder, InOrder
<1>2. IInv /\ LockOrder /\ [Next]_vars => LockOrder'
  <2> SUFFICES ASSUME IInv, LockOrder, [Next]_vars PROVE LockOrder'
    OBVIOUS
  <2>1. CASE UNCHANGED vars
    BY <2>1 DEF vars, sessions, LockOrder, InOrder, MayHold, PastFrom, PastTo
  <2>2. ASSUME NEW s \in Sessions, Start(s) PROVE LockOrder'
    BY <2>2, BeginInOrder DEF Start
  <2>3. ASSUME NEW s \in Sessions, DeadlockAbort(s) \/ Disconnect(s) PROVE LockOrder'
    BY <2>3, EndInOrder DEF DeadlockAbort, Disconnect, Rollback
  <2> QED
    BY <2>1, <2>2, <2>3, StepInOrder DEF Next
<1> QED
  BY <1>1, <1>2, LedgerInvariant, PTL DEF Spec

(* A session of a deadlocked set waits for a row another of them holds,    *)
(* and holds a row another of them waits for.                              *)
LEMMA WaitsForAnother ==
    ASSUME IInv, LockOrder, NEW s \in Sessions, NEW t \in Sessions, WaitsFor(s, t)
    PROVE  /\ t # s /\ Locks(s) /\ Wanted(s) \in Rows /\ MayHold(t, Wanted(s))
           /\ pc[s] \in {"system", "from", "to", "request", "entry"}
           /\ pc[s] = "to" => call[s].to # None
           /\ pc[s] = "entry" => call[s].key # None
<1>1. Locks(s) /\ holder[Wanted(s)] \notin {s, None} /\ holder[Wanted(s)] = t
  BY DEF WaitsFor, Available
<1>2. /\ pc[s] \in {"system", "from", "to", "request", "entry"}
      /\ pc[s] = "to" => call[s].to # None
      /\ pc[s] = "entry" => call[s].key # None
  BY <1>1 DEF Locks
<1>3. Wanted(s) \in Rows
  BY <1>2, WantedRows
<1> QED
  BY <1>1, <1>2, <1>3 DEF LockOrder, InOrder

(* It has the system row, if it is an operation of the system account: one *)
(* that waits for the system row holds nothing.                            *)
LEMMA WaiterHasSystem ==
    ASSUME IInv, LockOrder, NEW s \in Sessions, NEW t \in Sessions, NEW u \in Sessions,
           WaitsFor(s, t), WaitsFor(u, s), call[s].op \in Keyed
    PROVE  /\ pc[s] \in {"from", "to", "entry"}
           /\ holder[<<"account", SystemAccount>>] = s
<1>1. pc[s] \in {"system", "from", "to", "request", "entry"}
  BY WaitsForAnother
<1>2. PICK row : row = Wanted(u) /\ MayHold(s, row)
  BY WaitsForAnother
<1>3. pc[s] # "system"
  BY <1>2 DEF MayHold, PastFrom, PastTo, Keyed
<1>4. pc[s] # "request"
  BY OpenSession DEF CallInv, Keyed
<1> QED
  BY <1>1, <1>3, <1>4 DEF LockOrder, InOrder

LEMMA NoDeadlock ==
    ASSUME IInv, LockOrder
    PROVE  IssuanceNeverDeadlocks
<1> SUFFICES ASSUME NEW s \in Sessions, call[s].op \in Keyed, NEW C \in SUBSET Sessions, s \in C,
                    \A t \in C : /\ \E u \in C : WaitsFor(t, u)
                                 /\ \E u \in C : WaitsFor(u, t)
             PROVE  FALSE
  BY DEF IssuanceNeverDeadlocks, Deadlocked, Keyed
<1>1. \A t \in C : call[t].op \in Keyed => /\ pc[t] \in {"from", "to", "entry"}
                                          /\ holder[<<"account", SystemAccount>>] = t
  BY WaiterHasSystem
<1>2. \A t \in C : call[t].op \in Keyed => t = s
  BY <1>1
<1>3. PICK t \in C : WaitsFor(s, t)
  OBVIOUS
<1>4. PICK u \in C : WaitsFor(u, s)
  OBVIOUS
<1>5. t # s /\ u # s
  BY <1>3, <1>4, WaitsForAnother
<1>6. call[t].op \notin Keyed /\ call[u].op \notin Keyed
  BY <1>2, <1>5
<1>7. pc[s] # "entry"
  <2> SUFFICES ASSUME pc[s] = "entry" PROVE FALSE
    OBVIOUS
  <2>1. MayHold(t, Wanted(s)) /\ call[s].key # None
    BY <1>3, WaitsForAnother
  <2>2. Wanted(s) = <<"key", call[s].key>>
    BY <2>1, WantedRows
  <2> QED
    BY <1>6, <2>1, <2>2 DEF MayHold
<1>8. pc[s] \in {"from", "to"}
  BY <1>1, <1>7
<1>9. MayHold(s, Wanted(u)) /\ pc[u] \in {"system", "from", "to", "request", "entry"}
      /\ (pc[u] = "to" => call[u].to # None) /\ (pc[u] = "entry" => call[u].key # None)
  BY <1>4, WaitsForAnother
<1>10. /\ pc[u] \notin {"system", "entry"}
       /\ pc[u] = "from" => Wanted(u) = <<"account", call[u].from>> /\ call[u].from \in Players
       /\ pc[u] = "to" => Wanted(u) = <<"account", call[u].to>> /\ call[u].to \in Players
       /\ pc[u] = "request" => Wanted(u) = <<"request", call[u].request>>
  BY <1>6, <1>9, WantedRows
<1>11. Wanted(u) # <<"account", SystemAccount>>
  BY <1>9, <1>10, ConstantsAssumption
<1>12. \/ pc[s] = "to" /\ call[s].op = "debit"
       \/ ~(PastFrom(s) /\ call[s].from \in Players)
  BY <1>8, OpenSession, ConstantsAssumption DEF PastFrom, CallInv, Keyed
<1>13. ~(pc[s] = "to" /\ call[s].op = "debit")
  BY OpenSession DEF CallInv
<1> QED
  BY <1>8, <1>9, <1>11, <1>12, <1>13 DEF MayHold, PastTo, Keyed

(* An operation of the system account is never one of a deadlocked set: it *)
(* locks the system row before any other, so the row a session of such a   *)
(* set would wait for is one it does not have yet.                         *)
THEOREM LedgerIssuanceNeverDeadlocks == Spec => []IssuanceNeverDeadlocks
<1>1. IInv /\ LockOrder => IssuanceNeverDeadlocks
  BY NoDeadlock
<1> QED
  BY <1>1, LedgerInvariant, LedgerLockOrder, PTL
=============================================================================
