# Hinemos: specifications, model checks and proofs

Hinemos (`crates/`) is a persistent text world. Players connect over SSH, walk
through views, talk, send mail, own parcels of land, run rooms on them, hire one
another and pay in MARK. Residents are mostly agents, so several connections of
one player and many calls at the same time are the ordinary case. All lasting
state is in Postgres, reached through a pool of five connections
(`crates/storage/src/lib.rs:138`) at READ COMMITTED; the SSH server holds the
runtime copy of the world, presence and caches in memory. Most storage functions
check with one statement and write with a later one, so what interleaves is
statements: that is the grain of nearly every module here.

Paths below are relative to the repository's root.

## 1. Inventory

| Component | State it keeps | Operations | Interacts with | Hard part |
|---|---|---|---|---|
| MARK ledger (`storage_ext.rs`, `accounts.rs`, `storage_payments.rs`) | `world_accounts`, `world_balances`, `world_ledger_entries`, `payment_requests` | wallet grant, credit, debit, transfer, accept a request | admission, login, parcels, CLI | concurrent transactions, row locks, deadlock, retries with a key |
| Parcel work (`storage_mailing_lists.rs`, `storage_parcel.rs`) | desks, staff, shifts, routes, `operator_commands`, work items | create desk, hire, fire, route, dispatch, shift, claim, finish | room cache, inbox, payment requests, ownership | check and write in separate statements, one transaction only in finish |
| Mail and inbox (`messages.rs`, `app/src/messages.rs`, `inbox.rs`) | `world_messages`, `inbox_items` | send, claim, ack, archive | memory, listener, IMAP | five statements per letter, any of which may be the last |
| Mailing lists (`storage_mailing_lists.rs`) | lists, subscriptions, posts, deliveries | create, close, subscribe, post, deliver | inbox | partial delivery, delivery again |
| Service rooms (`rooms.rs`, `room_mail.rs`, `storage_rooms.rs`) | registrations, requests by number | a line to the room, a reply | mail, reload | the line is mail first, a request later |
| Live notices (`inbox_notify.rs`, `presence.rs`) | presence records, leases, channels, kicks | listen, tell, kick | inbox, sessions | every error ends the listener |
| SMTP and IMAP sidecar (`protocol/ssh/src/mail.rs`) | a transaction per SMTP connection, a selection per IMAP connection | MAIL, RCPT, DATA; SELECT, FETCH, STORE, IDLE | mail, inbox, worker pool | message numbers over a mailbox that is loaded again |
| Parcel ownership and boards (`storage_ext.rs`, `identities.rs`, `storage_badges.rs`) | `parcels`, room tokens, desks, guides, badges, awards | claim, transfer, token, build, publish, create, award, revoke | dispatch, caches | token replaced by a second call, limits read before the insert |
| Room caches (`protocol/ssh/src/lib.rs`) | contexts, bindings, the fronts of streets | look up, fill, invalidate, expire | ownership, reload | filled on the way back from a miss |
| Dispatch (`app/src/dispatch*`, `commerce/`) | none | command, claim of a view, request, domain, handler | everything | which statements run, in which order, after which checks |
| SSH sessions (`protocol/ssh`) | connections, runtime player state, presence, pending messages | authenticate, command line, relocate, disconnect, kick | runtime, storage, app | several connections of a player; three copies of where the player is |
| Runtime and reload (`runtime`, `runtime_state.rs`) | views and what lies in them, players and what they carry | move, take, set state, reload preserving players | rooms, sessions | takes run together; a state is read, and put back later as a whole |
| Room registration (`registration.rs`, `storage_rooms.rs`) | `service_rooms`, claimed names | disable, check, upsert, enter by name | parcels, reload, caches | a load without a transaction, loads side by side |
| Identities and admission (`identities.rs`, `admission.rs`, `auth.rs`) | accounts, keys, passwords, tokens, display names, admission | first login, later login, token, rename, agree | wallet, sessions | first-come names, in two spellings and with two kinds of secret |
| Worker pool (`work_pool.rs`, `mail.rs`) | the stamp of the mail token | mail login, IDLE poll, gate of worker commands | sidecar, parcel work | throttled stamp, rotation, time |
| Hunger (`hunger.rs`) | points, the last cooldown | check, record, cool down | ledger | read, compare, add in separate statements |
| Resident loop (`resident_loop.rs`, `memory.rs`, `agent_task*.rs`) | self model, virtual day | context, step, report | sessions | states made from stale ones |
| Grid map (`core/src/grid_map.rs`) | none | ids and doorplates, roads, buildings, exits | runtime, parcels | checked i32 arithmetic, an authored origin |
| Parser, rendering, HTTP, admin socket, CLI | little or none | | | data conversion |

What makes each component correct is stated in its module; what can go wrong and
a test would hardly reach is listed with its line in `PROJECT.json` (`hazards`).

## 2. Plan

All modules of the plan are written: the ledger over its atomic specification,
parcel work over the work board, player sessions, the mail system, and the town
(parcels, caches, identities, hunger, residents, worker pool, grid, the names of
rooms), and what players carry. Every safety property of them is proved (section 6).
What is left: liveness, which stays with TLC, and the parts that section 8 names.

## 3. Modules

    AtomicLedger <- MarkLedger          - MCMarkLedger,     MarkLedgerProofs
    WorkBoard    <- ParcelWork          - MCParcelWork,     ParcelWorkProofs
                    PlayerSessions      - MCPlayerSessions, PlayerSessionsProofs
                    Belongings          - MCBelongings,     BelongingsProofs
    InboxItems -- MailCalls -- SmtpSessions -\
               \- LiveNotices ---------------- MailSystem - MCMailSystem, MailProofs
               \- MailSidecar ---------------/
    Console -- Land -- RoomCache -\           (LandProofs)
    Identities -------------------\           (PeopleProofs)
    Hunger, WorkerPool -------------\         (PeopleProofs)
    TaskMatch -- Residents ----------- Town - MCTown, TownProofs   (PeopleProofs)
    GridMap ------------------------/         (TownProofs)
    RoomDirectory -----------------/          (TownProofs)

`<-` is refinement, `--` is EXTENDS.

### MarkLedger, AtomicLedger

`MarkLedger` runs the five operations that move MARK one SQL statement at a time.
`pc[s]` is the statement session `s` will issue next, `call[s]` the arguments,
`work[s]` what its transaction has written and not committed. The committed tables
are `balance` and `hasRow` (`world_balances`), `ledger` (`world_ledger_entries`)
and `request` (`payment_requests`); `holder` is the row-lock table. The order of
statements in each function is a record (`WalletScript`, `CreditScript`,
`DebitScript`, `TransferScript`, `AcceptScript`); each kind of statement is an
action (`EnsureAccount`, `DebitBalance`, `InsertEntry`, `MarkPaid`, `Commit`...).
An error return is the action that rolls back (`RefuseDebit`, `RefuseRequest`,
`TargetNotFound`, `OutOfRange`), `Disconnect` ends a transaction anywhere and
`DeadlockAbort` is the database's victim in a cycle of waits.

Postgres is modelled from how the code uses it: an upsert or update locks its row
until the transaction ends, an insert with an idempotency key waits for an
uncommitted insert of the same key, writes are seen by others at the commit.

`AtomicLedger` is what callers may rely on: balances, the set of used keys and of
settled requests, and three steps (issue, withdraw, pay).

Properties: `BalancesMatchLedger` (the README's "cached view over ledger
activity"), `KeysPostedOnce`, `RequestsPaidOnce`, `ImplementsAtomicLedger`,
`IssuanceNeverDeadlocks`, `EveryCallEnds`.

### ParcelWork, WorkBoard

`ParcelWork` follows a visitor's command: stored, put in the room's inbox, routed to the
desks whose prefix matches, claimed by a worker on shift, finished; beside it the owner
manages desks, staff and routes, asks the sender for payment and may transfer the parcel.
`todo[s]` holds the statements session `s` has yet to issue. `finish_parcel_work` and
`create_payment_request` use a transaction and lock the command's row (`holder`); all else
is a check and a write, and a disconnect between them leaves what was written. The calls
that are made in a behaviour are of one menu (`Menus`), since all of them together pass
what a run allows. `cachedOwner` is the owner as the SSH server's room cache has it.

A command is a row of its own for every line a visitor says; players stand for
owners, workers and visitors. Names, texts, payloads and results are left out.

`WorkBoard` is the promise: an item is offered once per desk and command, and only
for a command that the room's inbox has; it is claimed by one worker, finished by that
worker, and a command is handled by a finish.

### PlayerSessions

`PlayerSessions` follows connections from their login. A step is one lock region of
the server or one SQL statement; `at[c]` is what connection `c` does next and
`seen[c]` what its handler has read, which may be stale when it is used. A player's
place is `place` (the runtime's `PlayerState`), `stored` (`player_states`) and, per
connection, `present` (the presence registry). `Login` is `finish_authentication`;
`Line` to `UpdateView` are a command line: the room's context from the cache or the
table, the observation, the admission gate, then a command that relocates the
player, moves it in the runtime, or leaves it. `Reload` is `reload_world_from_dir`
in the order of its calls, ending with the visitors of closed rooms; `Restart` stops
the server anywhere and starts it with the files as they are then.

The files are a set of possible directories (`Files`), each with views, registered rooms
and an agreement version; the admission view and the spawn view are in all of them. A
room's view is in no file, a parcel's is of the generated grid. A behaviour has a cast
(below): the connections that come, the lines typed and the files there are. `Residents`
are players admitted before; `Lines` are the commands typed, "look" standing for every
command that leaves the player where it is. A context entry of the room cache may be over
its 30 seconds whenever it is read. What players carry is in `Belongings`; messages to
connections and the role card (taken as complete) are left out. A kick, an idle timeout
and a closed connection are all `Disconnect`, between two lines.

Any statement of the `faulty` ones in a cast may fail, done by the database or not
(`Fails`, `ReloadFails`). An error at login refuses the connection, most errors of a
line end it, and a reload stops where it is. Printed instead are those of observing, with
the escape out of a closed room, and of saving what a command did (`Prints`,
`crates/protocol/ssh/src/handler.rs:834-849`): the connection goes on, with a runtime that
is ahead of the table and of presence. `unsaved` notes players whose last save
failed, `unpaid` connections whose login was over when a grant failed.

Properties: `PendingStayAtTheGate`, `AgreementsWereRead`, `AgreedPlayersHaveWallets`,
`GoneConnectionsLeaveNoRecord`, `CopiesAgreeWhenAlone`. With two connections of a
player the copies of its place need not agree, not even after both are done; with one
they need not after a save that failed, until the next one succeeds.

### Belongings

`Belongings` is the other half of a `PlayerState`. A thing lies in a view (`lying`,
the `dropped_entities`) or is carried in the runtime's state of a player (`body`),
of which `saved` is the row. Commands run together under the read side of the
runtime's lock, so `TakeEntity` is one step under the locks of player and view, and
the state that is saved is cloned in a later one (`PlayerState`); a login, a
relocation and a reload need the write side (`WriteLocked`). `Relocate` reads a state
that `SetPlayerState` puts back as a whole; the escape of a closed room does the same
for a reload. `ReloadRuntime` makes new views with what the new files put there and
keeps the inventories; after `Restart` nobody is known until the login brings the row.
A save may fail (`SaveFails`, `EscapeSaveFails`), which leaves the connection at its
prompt with what it took and the row without it; a login then brings the old row and the
thing is nowhere. `before`, `kept`, `doubly` and `unsaved` are histories: what players had
when the views were loaded, whom a reload left with what they carried, of whom two wrote
at a time, and what failed saves held until it is both carried and stored.

Properties: `OnePlace`, `LostOnlyToTwo`.

### RoomDirectory

`RoomDirectory` is the load of `rooms.ron` into `service_rooms`: the statement that
disables what is not listed, then for each entry the check against the parcels of its
street and the names this load has claimed (`CheckRegistration`), and the upsert. Two
loads may run side by side, each may fail after any statement, and owners name their
parcels meanwhile. `Declared` are the names the check counts, `EnterMatches` those
that `/enter` compares with. Names are folded as the code folds them, so two that
differ in case are one.

It is a part of the town below, with rows of its own; titles are the names that lead
into a parcel, where `Land` has what a build sheet says.

Properties: `DeclaredNamesDiffer`, `NamesLeadToOneRoom` (refuted).

### The mail system: InboxItems, MailCalls, SmtpSessions, LiveNotices, MailSidecar, MailSystem

`InboxItems` is the table `inbox_items` and the channel `hinemos_inbox_mail`: the
insert with its unique key, `pg_notify`, claim and finish, the newest rows. An
item's id is its place in `inbox`. The insert draws its id in one step (`DrawId`) and
shows its row in another, when it commits (`InsertItem`), so that rows come in any order
of their ids and an id may stay without one (`Drawn`). Who changes or hears it extends it:

* `MailCalls`: the statements of a letter (row, source, item, notification, memory),
  of a line to a service room (a letter, then its number), and of the parcel's mailing
  list. `todo[s]` is what session `s` has yet to issue; `AbandonCall` is a statement
  that fails or a connection that goes. A reload enables and disables the room.
* `SmtpSessions`: what an SMTP connection keeps between its commands; DATA begins the
  call of `MailCalls` that writes to each recipient in turn.
* `LiveNotices`: the listener (receive, read the item, read the rooms, tell), its end
  by any failing query, the notifications lost with its connection, and the presence
  registry with leases, channels and kicks.
* `MailSidecar`: IMAP. `selected[c]` is the mailbox as it was last loaded, numbers are
  places in it; `told[c]` and `fetched[c]` are the client's side, `shown[c]` what was
  selected at its FETCH. The client is the agent that the instructions of
  `app/src/account.rs` describe.

Properties: a letter whose sender had an answer is in every inbox
(`AnsweredLettersArrived`), a room's request has its own item's number
(`RequestsNumberThemselves`), a post is delivered once however often it is delivered
(`PostsArriveOnce`, `SentPostsReachSubscribers`), what is done stays done
(`DoneItemsStayDone`), no kick outlives its connection (`NothingLeftOfTheGone`), STORE
acks what was fetched while all fits the window and no item of a lower id, drawn before
and committed after, has come into sight (`SeenIsWhatWasFetched`), and a connection is
told of what the listener heard (`ConnectionsAreTold`, liveness).

### The town: Console, Land, RoomCache, Identities, Hunger, TaskMatch, Residents, WorkerPool, GridMap, Town

* `Console`: from a command to what it runs. A command is the path of its enum's
  variants; `PendingAdmission`, `ViewCommand`, `BusinessRequest`, `Routed` and the
  handlers' scripts are the code's decisions one after the other, `Script` their
  composition: the ordered guards, statements and events of a line.
* `Land`: parcels, the mail token of their room, desks, guides, badges and awards. A
  connection has its line, the view read when it began, and the steps left of its
  script. `cutOff` notes parcels whose transfer ended between its two calls. A list is
  called by its room's id or title (`Bears`): the guard resolves that name
  (`EnsureInsideList`) and the operation resolves it again (`OnList`), while owners
  retitle their rooms. `edits` counts what was written to a build sheet.
* `RoomCache`: `room_context_for_view` through its maps, each under a lock of its own,
  the fill on the way back, invalidation, expiry. `raced` marks an entry filled with
  rows that were held while an event dropped the others, `unsaid` a change whose call
  ended before its event.
* `Identities`: first key or password of a name, later logins, tokens, display names,
  one statement per step; a name has two spellings that fold to one.
* `Hunger`: the gate's statements, from several connections of a player.
* `TaskMatch`, `Residents`: which commands count as a step of a task; the loop's
  contexts and steps, each made from the self model read at its beginning.
* `WorkerPool`: time, the stamp of a worker's mail token, the clients that renew it,
  and the gate of worker commands, which asks the session and then the pool. IDLE renews
  after a second without a line (`PollPool`); a line that is not DONE begins the second
  anew and renews nothing (`IdleLine`), so `waiting[m]` and `polled[m]` are apart.
* `GridMap`: view ids, doorplates, roads, buildings, exits, and players who walk.

Properties: `TokensAreOfTheOwner`, `BoardsNearTheirCaps`, `AwardsStand`,
`ActsOnlyInside`, `StaleOnlyIfRaced`, `NamesAreOnePlayer`, `HungryWorkIsPaced`,
`ProgressCountsDays`, `IdlersStayPooled`, `WaysBack`.

Some of these have an excuse in their statement, because the code has it:
`TokensAreOfTheOwner` leaves out a transfer that was cut off before its second call
(the old token then stays), `BoardsNearTheirCaps` lets a limit be passed by the other
connections, `StaleOnlyIfRaced` names the race and the lost event that leave a stale
entry for thirty seconds, `ActsOnlyInside` lets a line that called its own room by a
title act on the list of another room once its own was retitled, and `IdlersStayPooled`
leaves out a client that has kept its poll off by talking (`Listens`). What they say is
that nothing else has that effect.

Left out in these modules: history rows, scores, texts and versions of the self model,
which no statement reads back; other users of a scene other than those met;
`restore_player_hunger` and `replace_ssh_identity`, which have no caller in the program
(`add_ssh_identity` is the last part of `authenticate_ssh_identity`, and modelled with
it); actions that entities of the world files offer.

### Casts

`MailSystem` and `Town` compose parts of which few share rows, and `PlayerSessions` and
`Belongings` have more actors than a run can hold at once. Every behaviour has a `cast`,
chosen at the start and never changed: the actors that take part, and the calls or lines
they may make, and whose statements may fail. A component that is not in a cast is idle, so
interleavings of actors that share nothing are not enumerated; those that share a row
are in one cast. A cast is a constant of the specification, and the proofs are for
all casts, the one with everybody included.

## 4. Runs

| Run | Instance | Shows |
|---|---|---|
| `ledger` | 2 sessions, 2 players, 2 opposite requests, 1 key, amounts 0 and 2, bigint up to 4, 5 calls | the ledger's invariants and the refinement |
| `ledger_locks` | 3 sessions, 2 players, 1 request, 3 calls, fair | who can deadlock; every call ends |
| `parcel_work` | 2 sessions, owner and guest, 1 command; 2 desks that share it, or 1 desk with the owner's calls | claims, finishes, routing and payment interleaved; hiring, firing, limits, transfer |
| `handled_early` | as `parcel_work` | finding: handled while an item is open |
| `removed_worker` | claim, fire, shifts | finding: a removed worker claims |
| `sessions` | 1 new player on 2 connections, or on 1 with every line, a parcel and a room; 1 reload, 2 directories, restarts, statements that fail | the gate, the agreement's version and the wallet; the copies of the place, presence records |
| `open_room` | 1 resident, 2 connections, a room, 1 reload | finding: visitors of an open room are moved |
| `belongings` | 2 players on a connection each, or 1 on 2, or 1 whose saves may fail, again or beside the reload; 1 coin, 2 views and a room, 2 directories, 1 reload, restarts | one place of a thing, and what two writers of a player or a failed save may lose |
| `room_names` | 2 rooms, one without an address | finding: two rooms under one name |
| `mail` | 8 casts over 2 players, 2 letters, 4 items, 2 callers, 1 post, 1 SSH connection, 1 IMAP client with a window of 2; fair | letters, rooms, lists, SMTP, notices, IMAP |
| `idle_missed` | 1 writer of 2 letters, 1 IMAP client; fair | finding: an idling client is never told of a letter |
| `world` | 17 casts (6 of land, 2 of caches, logins, hunger, 3 of residents, the pool, its gate, the walk and the loads of registrations) | the town's invariants |

Bounds. Two sessions meet in every pair of statements, and every conflict in the
ledger is between two transactions over one row; a deadlock cycle with bystanders
needs three, which is the second run. Five calls allow a wallet, a
credit with a key, its retry, and both requests. The largest bigint is 4 so that
overflow happens within two credits; amount 0 reaches the refusal before the
transaction. Two desks are enough for a command with a last item and one before
it; one command suffices because commands share no row. `MaxCalls` is the only
bound that is not a constant of the code; `ParcelWork` needs none.

`PlayerSessions` has no counters: a connection is used once, so a restart leaves the
remaining ones to log in. Two connections of one player are enough for every pair of
handlers, and their players share nothing but caches. Two directories differ in the
agreement, and in the alley, whose room the second one closes because its front view
is missing. The cross product of two connections, rooms and a reload is larger than
a run allows and is explored only as far as `open_room` needs; the rooms are
otherwise checked in the casts of one connection beside the reload. There any statement
may fail, the reload's too; with two connections, statements fail in a cast where players
read and agree and do not walk (2.2 million states in all casts).

`belongings` (2.5 million states) has no counters either. One coin suffices, since
things do not meet, but as a set that is saved and restored with its player; a second
view is there to walk away from a relocation's back, and the second directory has the
coin no more, so that a reload drops it from inventories. Three connections at once pass
what a run allows: two takers and two writers of one player are a cast each, beside the
reload. A failed save loses a thing at the next login, for which two connections of one
player suffice without a reload, and has to agree with a reload, for which one does.

`mail` (about 770,000 states): `MaxItems` = 4 counts the ids that were drawn, those that
never get a row included: a letter to each of two recipients, one more between them and an
id without a row, and more than the IMAP window (`Window` = 2, in the code 500), so that
the oldest falls out of it and a lower one comes late. One IMAP cast has one writer beside
the player's own handler, the other two writers, who draw and commit in any order;
`MaxPosts` = 1 since posts share no rows; `MaxRecipients` = 2 for a letter that stops half
way. The listener's queries fail and its connection is lost at any step.

`world` (about 1.5 million states): two connections per cast. Two parcels and one title
are enough for a list's name to pass from one room to another between guard and operation;
the other casts of land stay on one parcel. `BoardMax` = 1 with three slugs passes a limit
by one connection and not by two; `MaxAwards` = 2 rows are an award, its revocation and
the next; `MaxEdits` = 1 edit retitles a parcel or leaves its title. Hunger has a
threshold of 2 with points up to 8 and two cooldowns, enough for both connections to pass
the gate before, between and after them. Residents live `MaxDay` = 3 days with one search
and a pressure up to 2: a report counted, skipped and overwritten. The pool's clock begins
at 5 and goes to 10 with a poll of 1, a throttle of 2 and a window of 4, in the proportion
that matters (poll + throttle <= window; in the code 1, 5 and 120 seconds), one more than
the least, so that an idler may put a poll off and stay. The grid's coordinates end at
`MaxCoord` = 2 where the code's end at `i32::MAX`, and begin one below, as the type does.
The directories of registrations have a name that passes from one room to the other, one
that both want, a street that is not in the files and no `rooms.ron`; two rooms and a
parcel are enough, since conflicts are between two rooms or a room and a parcel.

Deadlock of the model is not checked for the ledger, where after `MaxCalls` calls
nothing is left to do, and for `mail` and `world`, where a cast ends when its bounds
are reached; `ParcelWork` and `PlayerSessions` are checked for it (a restart is
always possible in the latter). `Belongings` has restarts that are always possible, so
the question has no meaning there.

Fairness. In the ledger (`FairSpec`) the server awaits each statement of an open
transaction (weak fairness of `Statement(s)`), and the database resolves deadlocks after
its timeout (`DeadlockAbort(s)`). In the mail system the listener's task is polled by the
runtime as long as it lives (`Progress`), and the IDLE loop has a timer of one second
(`Poll(c)`), as long as its client is silent, which is the client of the one run that asks
for it (`idle_missed`); the listener's failures, callers and clients owe nothing, and no
statement of a caller is fair. `WorkerPool` is timed: time does not pass a poll that is
due, and this is the only assumption about time. It is no promise that polls come: the
timer of `mail.rs:716` begins anew with every line, so a client that talks more often than
once a second is never due, and `IdleLine` lets it. `ParcelWork` states no liveness: no
statement returns a claimed item to the queue, so a worker who leaves keeps it for ever.

Each property is paired in `PROJECT.json` with a mutant, an operator named beside
the definition it would replace (`DebitUnguarded`, `InsertAlways`, `ForViewOnly`...):
a plausible slip in that code, which the property must reject. They are part of no
behaviour.

## 5. What the runs found

* `handled_early`: `dispatch_parcel_command_routes` inserts one desk's item after
  another (`storage_mailing_lists.rs:1042-1046`), each committed at once; a worker
  who claims and finishes the first before the second exists makes the command
  handled. `crates/storage/tests/parcel_mailing_lists.rs:1077` expects it to stay
  delivered while a desk has an open item.
* `removed_worker`: `claim_parcel_work` checks the assignment in a statement before
  its update, so a worker removed in between still claims, against
  `docs/parcel-blueprints/newspaper.md:322`.
* `open_room`: `merge_player_for_reload` (`crates/runtime/src/reload.rs:68`) knows the
  views of the files and of the grid, and a service room is in neither; its visitors
  are moved to the spawn view though the room stays open, while `player_states` and
  presence still say the room, against the comment at `reload.rs:13`.
* `idle_missed`: STORE loads the mailbox again and sends no EXISTS
  (`crates/protocol/ssh/src/mail.rs:695`), and IDLE takes the length of that selection
  for what the client knows (`:711`, `:736`). A letter that arrives between the
  client's FETCH and its STORE is therefore never announced to an agent that follows
  `crates/app/src/account.rs:69` ("keep an IMAP IDLE connection open; when EXISTS
  arrives, FETCH the new message ... then STORE").

* `room_names`: the check of a registration counts the names that are written
  (`crates/app/src/registration.rs:121`), and `from_service_room`
  (`crates/storage/src/types.rs:419-420`) puts the room's id in place of a missing
  address or label. A room without one, beside a room whose address is the first one's
  id, is enabled with it, though `registration.rs:150` promises a check of the
  "proposed room aliases"; the order of addresses decides which of them is entered.

## 6. Proofs

The theorems hold for all values of the constants that satisfy the modules' named
assumptions, and are checked by TLAPS to the last leaf.

`MarkLedgerProofs` (`LedgerTypeCorrect`, `LedgerKeysPostedOnce`,
`LedgerRequestsPaidOnce`, `LedgerRefinesAtomic`, `LedgerMatchesBalances`,
`LedgerLockOrder`, `LedgerIssuanceNeverDeadlocks`, from `ConstantsAssumption`). None of
these is inductive: that a commit is right depends on what its session did before.
`IInv` adds, per session, `CallInv` (its arguments are those of a call), `WorkInv` (its
uncommitted writes are those of the statements behind it) and `LockInv` (by its place in
its script, which rows it has locked, so that what it checked under a lock still holds).
Each action has a lemma. In the refinement only commits are steps of `AtomicLedger`.
That balances are sums over a ledger of any length is an induction: `Total` is a
recursive function, whose value one entry later follows from the least length at which
it would not (`LeastNatural`). `LockOrder` says of each place in a script which rows its
session may hold. A set of sessions that wait for one another has one that waits for a
row another of them holds; whoever waits for the system's row holds nothing, so a session
of the system account is in no such set.

`PlayerSessionsProofs` (`TypeCorrect`, `GateHolds`, `WalletsProvided`, `RecordsEnd`,
`AgreementsRead`, `CopiesAgree`). The gate is not inductive, since a handler acts on what
it read: `IInv` says of every connection what it may hold at each of its steps
(`HeldBack`, `VersionRead`, `ViewRead`, `Known`, `Absent`, `Provided`) and of a reload
whom it visits (`Visiting`). `CopiesInv` says of a connection that is alone (`Alone`: the
player's others have not begun, and no reload runs) that the copies of its place differ
only as its own next writes make good (`InStep`), or as a save that failed has left them;
a reload that has begun leaves nobody alone until the restart, whose rows are the only
copies.

`ParcelWorkProofs` (`WorkTyped`, `WorkersAreHired`, `DrainedAreHandled`,
`WorkImplementsBoard`, from `ConstantsAssumption`). `SessionInv` places a session in the
script of its operation (`Placed`, `Leads`) and says what the statements behind it have
told it (`Knows`): a worker at its claim is still hired, a finish at its commit holds
the command's lock, so that its item and the count of open items are as it read them.
`SaysApart` keeps two sessions from storing one command. Each action has a lemma of two
halves: what it does to its own session (`Own`), and to the tables (`Tables`), which
takes nothing that another session knows (`Kept`) and is a step of `WorkBoard` or none.

`BelongingsProofs` (`BelongingsTyped`, `ThingsHaveOnePlace`, `OnlyTwoLose`). `OnePlace` is
about two players and what they carry now; what they will carry is in rows and in the
hands of handlers. `HadInv` says of all copies together (`Had`) that what lies in a view
was had by nobody since the views were loaded, and that two have nothing in common but
what one had then. `LossInv` says, while nobody has written twice of a player, where the
newest copy is: what a handler is about to set has what the player carries (`Current`),
and so has the row between two commands (`RowHas`), but for what `unsaved` holds of a save
that failed.

`MailProofs` (`MailTypeCorrect`, `LettersArrive`, `RequestsNumbered`, `PostsOnce`,
`PostsReach`, `DoneStaysDone`, `GoneAreGone`, `SeenIsFetched`, from the assumptions of the
parts). A letter, a room's line and a post are five statements and more, each of which may
be the last, so what is true between calls is not inductive. `SessionInv` places a caller
in the script of its call (`Rest`, for which a lemma enumerates what statements leave) and
says what it knows: for whom a letter is still to be written (`LetterKnows`), which item
the statement before has made and with what source, which recipients of a post are to be
delivered and which post's rows it has read. `Grows` says what every step leaves to the
other callers: items keep recipient, letter and source, posts keep their recipients, and
links are not undone; with it a caller's knowledge is kept by all the others' steps
(`Own`, `Tables`). IMAP numbers are places in a selection (`Place`, `Ascending`): members
of a finite set of ids have different places, the places of the ids that are there stay
when later ones come, and while all fit the window and none of a lower id has come late
(`Late`) the number a client holds is the place of its item in what was selected then and
is now (`Chosen`, in `ImapInv`). `DrawsInv` says that the id a caller has drawn is its own
until its row shows. TLC checked `IInv` on the
instance of `mail` before it was proved.

`TownProofs` has one invariant per part. `TownInv` is their conjunction with `CastInv`;
the parts share no rows, so each is kept by the steps of its own part and left alone by
those of the others. The parts' lemmas are in the modules
named in section 3.

| Theorem | Inductive invariant | Why it is needed |
|---|---|---|
| `TokensOfOwners` | `LandInv`: `TokenInv` | between the transfer and its token a line is `Bringing` it; `Kept` and `Transfer` say what is left of a script, and are proved from `Console` for every command |
| `ActsInside` | `OwnersInv`: `LineInv` | every script of a command for those in the parcel begins by asking where the line came from (`Guarded`, proved from `Console` for every command), and a line keeps its view and parcel; of a list, the room of the line is called as it was when the guard looked unless its edits have grown (`StoodHere`, `Called`) |
| `BoardsCapped` | `OwnersInv`: `CapInv` | connections between the count and the insert (`Adding`) count as boards |
| `StaleIsExcused` | `CacheInv`: `OwedInv`, `EntriesInv`, `LooksInv` | what is left of a script that changes a row still has the event that drops it (`Owed`); what lookups bring back is fresh, or excused as an entry is |
| `TownTypes` | `OwnersInv`, `IdTypes`, `ResTypes` | what a call or a loop holds depends on its place: a binding is of a key, a search stays within the tasks, a pressure within its bounds |
| `AwardsAreHistory` | `LandInv`: `AwardInv`, `WornOnce` | the row a revocation has read is still an award's |
| `IdlersStay` | `PoolInv` | no wait of an idling client is longer than the period, and the stamp is behind a client's last record by at most the throttle |
| `HungryWorkPaced` | `HungerInv` | connections that passed the gate and are about to record count as work done |
| `NamesOnePlayer` | `IdInv` | what is left of a call ensures the account before it writes for its player |
| `ProgressIsOfDays` | `ResInv` | the states connections hold are sound for the day they read |
| `StepsTakenBack` | `GridInv` | walkers stand in the town, and the encoding of coordinates can be undone |
| `NamesDiffer` | `RoomsInv` | of a load that is alone so far: the open rooms it has come to, or that its list has not, have claimed their names, each its own, and so has the next one if it was found free (`Deciding`) |

The bounds of the instances (`MaxDay`, the pool's clock) are constants of the theorems:
they hold for any.

## 7. Only model-checked

Liveness, `EveryCallEnds` and `ConnectionsAreTold`, is out of the prover's reach. Every
invariant and every action property that a passing run checks is proved. The
disagreements of section 5 are traces of TLC.

## 8. Not modelled

* The grammars of the parser and of the natural-language shell
  (`core/src/command.rs`, `runtime/src/client_shell*.rs`), from text to a command: they
  keep no state, and a model of string matching would be their transliteration. The
  commands, and all that happens after, are modelled.
* Rendering of observations, pages, letters and maps: wording and layout.
* The HTTP service: read-only pages, and forms over calls that are modelled.
* The framing of the admin socket and the CLI; kick and reload are actions.
* The loading of world files, which are constants here, and the idempotent DDL of the
  schema, whose constraints are guards of the actions.
* TLS, literals and base64 of the mail sidecar, and the text of messages.
* Memory events after a commit and rows of history that no statement reads back.
* Line editing and the mailbox view of the SSH sessions, which one connection keeps for
  itself, and text search.
