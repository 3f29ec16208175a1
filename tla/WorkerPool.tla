----------------------------- MODULE WorkerPool -----------------------------
(***************************************************************************)
(* The gate before worker commands (protocol/ssh/src/handler.rs): a worker *)
(* must be on a fresh SSH session inside the parcel and in the mail-agent  *)
(* pool, which is a stamp on its mail token that every IMAP or SMTP        *)
(* command renews, and every second of IDLE without a line, though no more *)
(* often than the throttle of the update allows.  One worker with several  *)
(* SSH sessions and several mail clients; time passes in ticks.            *)
(***************************************************************************)
EXTENDS Console, Naturals

CONSTANTS
    SshSessions,    \* connections to the SSH server
    MailClients,    \* connections to the mail sidecar
    Poll,           \* how long the IDLE loop waits for a line: 1 second
    Throttle,       \* a younger stamp is left alone: 5 seconds
    Window,         \* MAIL_AGENT_POOL_WINDOW_SECONDS: 120
    Lease,          \* SSH_PRESENCE_LEASE: 90 seconds
    MaxClock        \* bound on the time that passes

ASSUME WorkerPoolAssumption ==
    /\ {Poll, Throttle, Window, Lease, MaxClock} \subseteq Nat
    /\ Poll + Throttle <= Window

VARIABLES
    now,
    stamp,      \* mail_auth_tokens.last_seen_at
    mail,       \* what a mail client is doing
    polled,     \* when the sidecar last recorded a client's presence
    waiting,    \* when the IDLE loop began the wait it is in
    heard,      \* clients whose presence was recorded since the last rotation
    joined,     \* the worker's admission_state is `agreed'
    inParcel,   \* the runtime has the worker in the parcel
    session,    \* presence record of an SSH session: where, and last_seen_at
    worker,     \* what a session's worker command waits for
    answer      \* and how the gate answered the last one

mailVars    == <<stamp, mail, polled, waiting, heard>>
workerVars  == <<joined, inParcel, session, worker, answer>>
poolVars    == <<now, mailVars, workerVars>>

Epoch == 0                      \* to_timestamp(0), outside every window
Start == Window + 1
Away  == [in |-> FALSE, seen |-> Epoch]

PoolInit ==
    /\ now = Start
    /\ stamp = Epoch
    /\ mail = [m \in MailClients |-> "out"]
    /\ polled = [m \in MailClients |-> Epoch]
    /\ waiting = [m \in MailClients |-> Epoch]
    /\ heard = {}
    /\ joined \in BOOLEAN
    /\ inParcel = FALSE
    /\ session = [c \in SshSessions |-> Away]
    /\ worker = [c \in SshSessions |-> "none"]
    /\ answer = [c \in SshSessions |-> "none"]

-----------------------------------------------------------------------------
(* Time.  The IDLE loop waits a second for a line and then records: time   *)
(* does not pass a client whose wait is over.                              *)
PollDue(m) == mail[m] = "idle" /\ waiting[m] + Poll <= now

Tick ==
    /\ now < MaxClock
    /\ \A m \in MailClients : ~PollDue(m)
    /\ now' = now + 1
    /\ UNCHANGED <<mailVars, workerVars>>

-----------------------------------------------------------------------------
(* The pool. *)
RenewWhenFresh == IF now <= stamp + Throttle THEN now ELSE stamp  \* a mutant: the young
RecordPresence == IF stamp + Throttle < now  THEN now ELSE stamp

PoolContains == joined /\ now <= stamp + Window

(* touch_agent_mail_pool of client m, which is then doing `next'; a wait   *)
(* of IDLE begins after it.                                                *)
TouchPool(m, next) ==
    /\ stamp' = RecordPresence
    /\ polled' = [polled EXCEPT ![m] = now]
    /\ waiting' = [waiting EXCEPT ![m] = now]
    /\ heard' = heard \cup {m}
    /\ mail' = [mail EXCEPT ![m] = next]
    /\ UNCHANGED <<now, workerVars>>

(* A rotation hands out another token and puts the worker out of the pool; *)
(* clients that are logged in with the old one stay.                       *)
SetToken ==
    /\ stamp' = Epoch
    /\ heard' = {}
    /\ UNCHANGED <<now, mail, polled, waiting, workerVars>>

(* verify_mail_auth_token: the hash is compared, and the stamp renewed in  *)
(* a statement of its own, whatever token the row has by then.             *)
CompareToken(m) ==
    /\ mail[m] = "out"
    /\ mail' = [mail EXCEPT ![m] = "verified"]
    /\ UNCHANGED <<now, stamp, polled, waiting, heard, workerVars>>

StampToken(m) ==
    /\ mail[m] = "verified"
    /\ stamp' = now
    /\ mail' = [mail EXCEPT ![m] = "stamped"]
    /\ UNCHANGED <<now, polled, waiting, heard, workerVars>>

AuthenticateMailToken(m) == mail[m] = "stamped" /\ TouchPool(m, "in")

(* NOOP and every other command of a client that is logged in, and IDLE. *)
MailCommand(m) == /\ mail[m] = "in"
                  /\ \E next \in {"in", "idle"} : TouchPool(m, next)
PollPool(m)    == PollDue(m) /\ TouchPool(m, "idle")

(* Any line but DONE is dropped, and the loop waits a full second again:   *)
(* a client that talks puts its poll off.                                  *)
IdleLine(m) ==
    /\ mail[m] = "idle"
    /\ waiting' = [waiting EXCEPT ![m] = now]
    /\ UNCHANGED <<now, stamp, mail, polled, heard, workerVars>>

(* DONE touches nothing. *)
EndIdle(m) ==
    /\ mail[m] = "idle"
    /\ mail' = [mail EXCEPT ![m] = "in"]
    /\ UNCHANGED <<now, stamp, polled, waiting, heard, workerVars>>

CloseMail(m) ==
    /\ mail[m] # "out"
    /\ mail' = [mail EXCEPT ![m] = "out"]
    /\ UNCHANGED <<now, stamp, polled, waiting, heard, workerVars>>

MailStep(m) == \/ CompareToken(m) \/ StampToken(m) \/ AuthenticateMailToken(m)
               \/ MailCommand(m) \/ PollPool(m) \/ IdleLine(m) \/ EndIdle(m) \/ CloseMail(m)

-----------------------------------------------------------------------------
(* Worker commands. *)
NeedsPool == {<<"parcel", "shift", "start">>}
               \cup Under("parcel", Under("work", One(ParcelWorkAction)))

Join == /\ ~joined /\ joined' = TRUE
        /\ UNCHANGED <<now, mailVars, inParcel, session, worker, answer>>

(* A line that moves the worker: the record of its own session follows,    *)
(* those of the others do not.                                             *)
MoveWorker(c) ==
    /\ worker[c] = "none"
    /\ joined
    /\ inParcel' = ~inParcel
    /\ session' = [session EXCEPT ![c] = [in |-> inParcel', seen |-> now]]
    /\ UNCHANGED <<now, mailVars, joined, worker, answer>>

(* The line touches the record, and stands where the runtime has the       *)
(* worker when it begins.                                                  *)
WorkerLine(c, command) ==
    /\ worker[c] = "none"
    /\ joined
    /\ session' = [session EXCEPT ![c].seen = now]
    /\ IF command \in NeedsPool /\ inParcel
         THEN worker' = [worker EXCEPT ![c] = "session"] /\ UNCHANGED answer
         ELSE answer' = [answer EXCEPT ![c] = "passed"]  /\ UNCHANGED worker
    /\ UNCHANGED <<now, mailVars, joined, inParcel>>

Fresh(c) == session[c].in /\ now <= session[c].seen + Lease

CheckSession(c) ==
    /\ worker[c] = "session"
    /\ IF Fresh(c)
         THEN worker' = [worker EXCEPT ![c] = "pool"] /\ UNCHANGED answer
         ELSE /\ worker' = [worker EXCEPT ![c] = "none"]
              /\ answer' = [answer EXCEPT ![c] = "needsSession"]
    /\ UNCHANGED <<now, mailVars, joined, inParcel, session>>

CheckPool(c) ==
    /\ worker[c] = "pool"
    /\ worker' = [worker EXCEPT ![c] = "none"]
    /\ answer' = [answer EXCEPT ![c] = IF PoolContains THEN "passed" ELSE "needsLease"]
    /\ UNCHANGED <<now, mailVars, joined, inParcel, session>>

WorkerStep(c, orders) == \/ MoveWorker(c)
                         \/ \E command \in orders : WorkerLine(c, command)
                         \/ CheckSession(c) \/ CheckPool(c)

-----------------------------------------------------------------------------
PoolTypeOK ==
    /\ {now, stamp} \subseteq Nat
    /\ mail \in [MailClients -> {"out", "verified", "stamped", "in", "idle"}]
    /\ {polled, waiting} \subseteq [MailClients -> Nat] /\ heard \subseteq MailClients
    /\ {joined, inParcel} \subseteq BOOLEAN
    /\ session \in [SshSessions -> [in : BOOLEAN, seen : Nat]]
    /\ worker \in [SshSessions -> {"none", "session", "pool"}]
    /\ answer \in [SshSessions -> {"none", "passed", "needsSession", "needsLease"}]

(* A client whose own lines have not kept the poll off for longer than     *)
(* what the window leaves beside the throttle.                             *)
Listens(m) == mail[m] = "idle" /\ waiting[m] + Poll + Throttle <= polled[m] + Window

(* block_unavailable_parcel_worker_pool answers "Keep IMAP IDLE ... running,  *)
(* then retry": a worker one of whose clients idles, has been heard since  *)
(* the token was last rotated and lets the loop wait its second out often  *)
(* enough, is in the pool at every instant: the poll, the throttle of the  *)
(* update, the lines it does send and what other clients record in between *)
(* never let its lease end.                                                *)
IdlersStayPooled ==
    joined /\ (\E m \in heard : Listens(m)) => PoolContains
=============================================================================
