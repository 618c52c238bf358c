# kupio-backend in TLA+

A verification project for the kupio classifieds backend (FastAPI, SQLAlchemy on
PostgreSQL, Redis, Stripe, a streaq worker). It holds TLA+ modules of the parts whose
correctness depends on the order in which concurrent requests, jobs and external
services act, TLC configurations that check them on small instances, and TLAPS proofs
of the main safety properties for all instances.

Paths below are relative to `src/src/` of the repository.

## 1. The system

| component | state | operations | interacts with | what makes it hard |
|---|---|---|---|---|
| payments (`domains/payments`) | `payments_sessions`, `balance_transactions` | create a checkout, handle a Stripe webhook | Stripe; `users.balance` | delivery at least once, status read outside the transaction, crashes between commit and answer |
| promotions (`domains/promotions`) | `promotion_packets`, `listing_promotions` | create/update packet, purchase, expire | `users.balance`, listings, worker cron | check-then-act over four queries, two clocks, stale price |
| user balance (`domains/users/repository.py`) | `users.balance` | add, deduct | payments, promotions | lost updates, overdraft |
| auth (`domains/auth`) | `sessions`, `oauth_identities`, `users.password_hash` | register, login, Google login, refresh, logout, revoke, change/set password | users, notification tokens, Google | revoking statements miss rows that are inserted meanwhile; values are looked for before they are written, and banned accounts keep theirs |
| Google tokens (`core/security/google.py`) | a cache of Google's signing keys, its lock | verify an ID token | Google; Google logins | keys rotate behind the cache, the lock is held across a request |
| reports (`domains/reports`) | `listing_reports`, `report_reasons`, `moderators` | file, view, decide | soft-deletes listings and users | multi-row updates, deadlock, partial unique index |
| chat (`domains/chat`) | `conversations`, `messages`, presence keys, pub/sub channels | open a conversation, send, delete, read, list, WebSocket session | Redis, worker (push) | commit, publication and `created_at` orders differ; replay and subscription leave a window |
| images (`domains/images`) | `images`, `listing_images`, S3 objects | upload, delete, reorder, avatars | S3, listings, users | counts read before the transaction, S3 clean-up |
| categories (`domains/categories`) | `categories` (a tree with depths) | create, re-parent | listings | two re-parentings can close a cycle |
| listings (`domains/listings`) | `listings` | create, edit, change status, search | all of the above | ownership and status are read before use |
| users (`domains/users`) | `users`, `notification_tokens` | profile, username, push tokens | auth, worker | uniqueness tests before writes; tokens outlive the row that justified them |
| filter definitions (`domains/filter_definitions`) | `filter_definitions` | define, patch, delete, check a listing | listings, categories | a definition and a listing are checked against rows that change meanwhile |
| favourites | rows | add, remove, list | listings | little |
| pagination (`core/utils/pagination.py`) | none; a cursor names the last row sent | next page of any list | listings, favourites, promotions, reports, chat | rows move, come and go between two pages |
| worker (`worker.py`) | none of its own | expiry cron, FCM push | promotions, chat | runs beside requests |
| core | `UoW`, `BaseRepository`, tokens, S3, Google keys | commit/rollback, statements | everything | the concurrency semantics below |

The properties that make each correct, and the lines where each can go wrong, are the
hazards of `PROJECT.json`.

### Concurrency semantics of the code

- One database session per request (`core/dependencies.py`). Its transaction begins with
  the request's first query, and PostgreSQL's `now()` is that moment.
- `UoW.__aexit__` (`core/database/uow.py`) commits, or rolls back on an exception.
  Queries before `async with self.uow` read what is committed at that moment and are
  steps of their own; objects they loaded are not read again (`expire_on_commit=False`).
- READ COMMITTED: each statement has its own snapshot. An UPDATE chooses rows in that
  snapshot, waits for a row another transaction has locked, tests the row again, and
  never sees a row committed after the snapshot.
- A unit of work whose statements name rows by id, or are conditional on the row
  itself, is one atomic step: the row locks are held to the commit. Where a later
  snapshot inside a unit of work matters (revocation of sessions, decisions of
  moderators), the statements are separate steps and the locks are variables.
- A task can die at any `await`: PostgreSQL rolls its open transaction back.

## 2. The modules

    Ledger      users.balance and its two UPDATE statements
    Payments    EXTENDS Ledger: checkouts, Stripe, the webhook
    Promotions  EXTENDS Ledger: packets, purchases, listings' status, expiry, the clock
    Wallet      EXTENDS Payments, Promotions: the composition, its fairness and properties
    Account     what a wallet promises (abstract specification)
    Sessions    refresh-token sessions of one account
    GoogleKeys  the cache of Google's signing keys
    Identities  EXTENDS GoogleKeys: who owns which e-mail, username, phone, Google identity
    PushTokens  one user's notification tokens: registration, logout, pushes
    Moderation  reports, decisions, bans, beside the creation of reports and listings
    Docket      what moderation promises (abstract specification)
    Chat        one conversation as one participant sees it
    Images      the ordering of one listing's images, one user's avatar, objects in S3
    Categories  the tree of categories, its cycles and depths
    Filters     filter definitions, and one listing's values for them
    Pages       walks through the lists by cursors
    MC*         instances for TLC;  *Proofs  theorems for TLAPS

Modules that share no row of the database are not composed. MCAccounts and MCListings put
such modules into one TLC run, side by side, with a variable that says which one moves.

An operator called a *mutant* in its comment is a plausible bug. It is used by no
specification: substituted for the definition it names, it makes TLC find the property
it is paired with in `PROJECT.json` violated, which shows that the property depends on
that code.

### Wallet (Ledger, Payments, Promotions, Account)

A *checkout* `c` is one `POST /payments/checkout`. `CreateStripeSession` and
`InsertSession` are its two halves, `AbandonCheckout` a death between them.
`CustomerPays` and `SessionTimesOut` are Stripe's; the two outcomes exclude each other.
`Deliver` is the webhook up to the read of the row (`service.py:97-101`), `CommitCompleted`
and `CommitExpired` its two units of work, `Respond` the 200, `LoseDelivery` a death or a
lost answer at any point between. `OverlappingDelivery` is a constant: Stripe repeats an
event until it is answered and usually waits for the answer, but promises neither.

A *purchase* `p` is one `POST` of a promotion. Its four queries (listing, packet, live
promotion, unit of work) are `ReadListing`, `ReadPacket`, `CheckDuplicate` and
`Pay`/`RefusePayment`; packets, listings and the clock move between them.
`BulkExpire` is the worker's cron job. Prices are any set of positive numbers, durations
are in clock ticks, and `MaxClock` bounds the clock.

`Account` is the abstract specification: a set of paid checkouts, a set of credited
ones, and purchases that take money that is there. `Wallet` implements it with
`paid` = sessions complete at Stripe, `credited` = checkouts with a TOP_UP row, and
`spent` = DEBIT rows.

### Sessions

One account, because requests of different accounts share no row. A request `r` is one
call; the session it inserts is called `r` too. `Begin...` is what the request reads
before its first write; `UpdateRow` the write that takes the lock on the user row
(password changes) or the identity row (Google login); `Choose` the snapshot of
`revoke_all_by_user_id` or `revoke_active_for_device`; `Commit...` the revocation,
insertion and commit. `CommitLogin` fails when it revokes two rows, because
`BaseRepository._update` loads them with `scalar_one_or_none`.

### GoogleKeys and Identities

`GoogleKeys` is `_GoogleJwksCache`. A call `c` of `get_key` finds its key in a fresh cache,
or takes or queues for the lock (`Ask`, `Acquire`; asyncio's lock is first come, first
served), looks at the cache again, and otherwise fetches. `GoogleAnswers` and `Arrive` are
the two ends of Google's answer: what it says (`answer`) was so when it was given. The fetch
fails, times out or carries no key (`FetchFails`). `Rotate` is Google's. `FetchTimeout` is
httpx's timeout in ticks, `Lifetimes` the `max-age` values Google may send.

`Identities` has the requests that write unique columns: `register`, `google_login`,
`set_username`, `update_profile`, and bans. `pc[r]` is the query or write the request is at.
The queries do not see banned rows (`Alive`), the unique constraints do (`Taken`,
`LinkTaken`), and a violated constraint fails the request. `Identities` EXTENDS
`GoogleKeys`: a login is one of its calls, and every behaviour of `Identities` is one of
`GoogleKeys` (theorem IdentitiesKeepKeys).

### PushTokens

A row of `notification_tokens` is `token[f]`, with the request that inserted it as its id.
A logout is `BeginLogout` (it reads the session), `DeleteTokens` (holds the rows' locks) and
`CommitLogout`; `Register` is an upsert that waits for such a lock. `BeginPush`, `Send` and
`FinishPush` are `send_fcm_push`: it reads the rows, sends to one after the other, and
deletes by id those FCM called unregistered. `Disown` is FCM's, for good. `RestartPush` is
the queue running the task of a dead worker again. A login is one step here, Sessions has its
races, and the access token that a registration needs may be that of any session there was,
since it is not checked against sessions.

### Moderation and Docket

Rows are reports, listings and sellers. A decision of moderator `m` is
`BeginModeration`, then for each statement a snapshot (`NextStatement`) and one
`LockRow` per row, in any order, with the re-test PostgreSQL makes, then
`CommitModeration`, which publishes everything at once. `mine[m]` is what `m` has
updated and locked. `BreakDeadlock` is PostgreSQL's deadlock detection. Opening a report
(`VIEW`) is a request of one statement. `about`, chosen initially, says which listing and
reporter each report has. Filing a report and posting a listing are two steps each, what the
request reads (`BeginReport`, `BeginListing`) and what it inserts, because a removal or a ban
can come between. What it then could not see is `late`, a history variable that delimits
what LeftoversOnlyWhenRaced promises.

`Docket` is the abstract specification: `Decide` is a whole decision in one step, about pending
reports, with the listings and the seller it takes down; `Publish`, `File` and `See` are the rest.
`Moderation` implements it with the same variables, but for a listing that is being posted,
which is not there yet (`Published`). A statement's snapshot, a lock, a refusal and a rollback
are stutters, and every commit is a decision.

### Chat

The messages of the other participant to one recipient with several tabs. Messages are ordered
by `created_at`, which is when the sender's transaction began (`begun`); they are committed,
published and pushed in steps of their own, and their request may die between (`FailSend`). A
push that cannot be enqueued (`FailPush`) is logged and the sending answered as a success, as
in `_maybe_enqueue_push`. The conversation is looked for (`FindNone`) and inserted (`Open`) in
two steps. A tab's session goes through marking, replay, presence, subscription and forwarding
in the order of `ws/handler.py`; the presence key is one for all tabs. A session that is open
has two tasks beside the loop that receives from its client, and nothing catches what they
raise: `FailRefresh` ends the one that refreshes presence (`refreshing`), `FailForward` the
one that forwards, and leaves the tab *deaf*. The loop, and the socket, go on without either
until `Disconnect`; a task is not started again. `Crash` is any end of a session that does not
delete the presence key. `BeginList`, `MarkListed` and `List` are `list_messages`. A replay
sends the `ReplayLimit` oldest of the messages it finds (200 in `get_messages_after`), and a
first page of the history has the `PageLimit` newest.

A time is the number of messages begun before it: `lastRead` is `last_read_at`, and
`reading[t]` when the transaction that will write it began. `Unread` is the count of unread
messages. A deletion is committed, then published; the history shows deleted messages as such
and the replay leaves them out. The history variables name the cases that are excepted:
`crossed` (sendings that overlapped), `gap` (told while a tab was between replay and
subscription, or never, or left behind by the limit of a replay or a page), `cut` (what the
limit cut off the last replay of a tab, until the tab goes past it), `unqueued` (pushes that
could not be enqueued), `unwatched` (messages published to nobody), `unsettled` (readings that
overlapped or failed), `untold` and `overtaken` (deletions nobody was subscribed to, or
published before the message), `rivals`.

### Images

One listing and one avatar. A request is a sequence `todo[r]` of statements, each of
which gives rows a `sort_order` one row after another, since that is how PostgreSQL
checks a unique constraint that is not deferred. What the open transaction has written
is `draft[r]`, `Seen(r)` the table as it sees it, and the commit publishes all of it
(`Apply`). A row another transaction has written and a `sort_order` another one takes are
waited for; a `sort_order` in use is refused (`Refuse`). `BeginUpload` counts the images
outside the transaction, `BeginDelete` and `ReadRest` are the two halves of
`delete_listing_image`, and `Renumber` the two bulk updates of a reordering.

S3 may fail, or store an object and lose its answer (`PutFails`); a commit may succeed
and report failure (`CommitUnanswered`); the clean-up of `except` may itself fail
(`Clean`), and a death (`Die`) skips it while a thread still puts its object. History
variables name those cases: `overlapped`, `refused`, `unanswered`, `strays`. They delimit
what the code promises:

- an upload beside a deletion leaves a gap, after which every upload fails on the
  constraint, until a deletion or a reordering that runs alone closes it (RepairedAlone);
- two deletions beside each other can leave the listing without an image 0, its cover;
- an upload whose commit was not answered deletes the objects of rows that are there;
- two uploads of an avatar leave a row in `images` nobody refers to.

### Categories

The category a request creates is named after it. `BeginUpdate` is what
`update_category` does with the category that its dependency has loaded, `ReadAncestors`
and `ReadParent` its two queries, `Write` the unit of work. `Ancestors(c)` is the least
set that contains `c` and is closed under `parent`, which is what the recursive query
computes while it ends; on a cycle it does not (`Endless`), because it is a UNION ALL.
`Unset` is a PATCH without `parent_id`: the schema's default is null, so the code takes it
for another parent, writes depth 0, and leaves `parent_id` alone. That, and the depths
below a category that moves, are excepted by DepthFollowsMove: the code does not keep
them right even when nothing runs concurrently.

### Filters

A category's filter definitions and one listing. A listing's contents are compared as Python
compares them (`SameContent`): 1 and true are equal (`Equal`), so `update_listing` does not
validate an edit that puts true in the place of a valid 1, though NUMBER and RANGE refuse
booleans. ListingHasFitted therefore speaks of contents equal to those that fitted. A
definition, its PATCH and a listing's values are records over small sets (`Posted`, `Patches`,
`FilterValues`); `Accepts` and `Fits` are the validation of one value and of a listing,
`HasValues` that of a SELECT's options. A request loads what it works on (`BeginPatch`,
`BeginEdit`), looks for a twin (`FindTwin`) or the definitions (`ReadDefinitions`), and writes
in one statement. `update_definition` computes the options it validates as
`filter_data.options or definition.options`, although what it writes is `filter_data.options`
when that is set: a PATCH with `options` null or `{}` takes a SELECT's values away without
being refused, while the comment at `domains/filter_definitions/service.py:82-83` says that
SELECT always has valid ones. SelectHasValuesUnlessRaced excepts it by name.

### Pages

One client, one list, any endpoint that uses a cursor. An endpoint is a record of what
distinguishes them: whether promotions rank first, the direction, and what can happen to
its rows meanwhile. A row has a rank, a value (time or price) and an id; `Ahead` is the
ORDER BY, `PastCursor` the condition on the cursor, `Page` a query and `NextCursor` what is
returned beside it. `Promote`, `Demote`, `Reprice`, `Leave` and `Enter` happen at any
time before, between and after pages. `moved` and `missing` remember which rows changed
place or were not listed at some time, and the properties speak of the others.

## 3. Runs

| run | instance | properties | shows |
|---|---|---|---|
| wallet_topups | 2 users, 3 checkouts, 2 handlers, no purchases; deliveries repeat but do not overlap | CreditMatchesPayment, KeepsPromise | every paid checkout is credited once, in the end |
| wallet_promotions | 1 checkout, 2 purchases, 2 packets, clock to 2; deliveries do not overlap | BalanceMatchesLedger, DuplicateOnlyWhenRaced, TermHonoured, KeepsPromiseSafety | balance, ledger and promotions agree under purchases, credits, price changes and the cron job |
| wallet_overlap | deliveries overlap | CreditedAtMostOnce is violated | finding 1 |
| sessions | 4 requests of any kind, 2 devices | RevocationCoversEarlier, SessionDiesWithPassword, TokenReuseOnlyWhenRaced, RefreshStopsAtRevocation | how far a revocation reaches |
| sessions_login | 3 requests, 1 device | LoginNeverRefused is violated | finding 2 |
| accounts | four slices, see below | QueueMoves, KeysAreRecent, RejectedOnlyIfMissing, OneAccountPerIdentity, BannedStaysOut, FailsOnlyWhenRaced, NameStandsUnlessRaced, PushesFollowLogins | the key cache, the owners of unique values, and notification tokens |
| moderation | 2 moderators, 2 listings of one seller, 2 reports, 2 reporters | StatusTellsTheTruth, LeftoversOnlyWhenRaced, OnePendingPerReporter, SomeoneGoesOn, KeepsDocket | decisions are whole, final and not stuck |
| chat | 1 message and 2 tabs; 2 messages and 1 tab; or 3 messages and 1 tab, a replay of 1 and a page of 2 | MissedOnlyWhenRaced, PushedOrReplayed, SeenIsRead, DeletedIsHidden, OpeningLostOnlyWhenRaced | what reaches a recipient, and what is counted read |
| chat_presence | 1 message, 2 tabs | PresenceRecovers | presence follows the tabs whose refresh task runs, in the end |
| images | 3 requests of any kind, 1 image at first, up to 2 files in an upload | RowsHaveObjects, NoOrphanObject, RefusedOnlyWhenRaced, RepairedAlone, ReorderTakesEffect | rows and objects agree, orderings recover |
| categories | 3 requests, 3 categories at first | CyclesOnlyWhenRaced, DepthFollowsMove | the tree stays one |
| listings | any list, 4 rows, 2 values, 2 ranks, pages of 1 or 2, 2 changes; or 2 requests on the filters of 2 categories, with the values 1 and true | NothingSkipped, PagesInOrder, SelectHasValuesUnlessRaced, ListingHasFitted | cursors, and the filters of a listing |

Each module's type invariant is proved, and has no run of its own.

The slices. *accounts* explores four parts of the product of three modules: `keys`, three
logins with one Google account that wait for its key while Google replaces it once, clock to 2;
`accounts`, two requests of any kind and bans, one account at first, two e-mail addresses,
usernames and Google accounts, with a key that Google keeps; `tokens`, four requests and no
push, one device with its token; `pushes`, three requests from one device or two, beside a
push. The first two meet only where a login is told what became of its key, and PushTokens
shares no state with them. *listings* runs Pages or Filters. *chat* explores three: `tabs`, one
message and two tabs, with every failure; `messages`, two messages, one of which may be deleted, and one tab,
whose tasks run and pushes are enqueued; `backlog`, three messages sent one after the other and
one tab, which may be deaf, so that a replay finds more than it sends. `ReplayLimit` is 1 and
`PageLimit` 2 in all of them. *chat_presence* is not cut: its tasks may end at any time.

Why the bounds are enough. Every race in the code is between two requests over one row
or one set of rows, with a third to observe the result: two handlers of one event, two
purchases, two logins and a later one, two moderators with two reports each can lock in
opposite orders, two messages that overlap or follow one another. Two tabs share the
presence key and `last_read_at`. A replay of one message is cut off by a second, and a third shows
whether the rest comes with the next replay or is passed over; the proofs are for any limits. Three requests on images are two that race and one that
meets what they left (a fourth request of a device registers its token between a login
and a late logout); an upload of two files has a statement before and after another's.
Two re-parentings close a cycle, a third runs beside or after them, and three categories
are deep enough for an ancestor that is neither the parent nor its parent. Four rows
make three pages, `Values` of two make ties and `Ranks` of two put a row before or
behind every other. Two logins in the queue of the lock and one that holds it meet every
answer; a rotation between a fetch and its arrival, and one between two logins, need no
second. Two Google identities and two e-mail addresses make the four pairs a first login
can name. But for liveness the proofs of section 5 remove the
bounds. `MaxClock` = 2 lets a promotion be bought before, at and after
another's expiry. Deadlock is not checked, because every instance has finitely many
requests and the system stops when they are done. Where waiting is possible it is
checked instead: QueueMoves for the lock of the key cache, SomeoneGoesOn for
PostgreSQL's row locks, and liveness for the wallet and the presence key.

### Findings

Two properties are violated that generalise what a test or a comment states:

1. *wallet_overlap*: `handle_webhook` tests the status before its unit of work and
   updates by id alone. `tests/payments/test_stripe_checkout.py:82` asserts one TOP_UP row for a
   completed checkout, whose event it delivers once. No test, comment or document of the
   repository says what becomes of an event that is delivered again; the run shows that two
   deliveries which overlap leave two TOP_UP rows and credit the user twice. A condition on
   `status = PENDING` in `update_status`, with its row count tested, would close it.
2. *sessions_login*: two logins of one device that race leave two active sessions, and
   then `revoke_active_for_device` raises `MultipleResultsFound` in every later login.

For each there are properties that do hold and say how far the guarantee goes. CreditOnce is
proved without overlap; with it, CreditMatchesPayment still holds (nothing is credited that was
not paid, and nothing paid is left out), and CreditedPerHandler bounds the damage by the
number of handlers there can be at a time. RevocationCoversEarlier says what a login ends, and
TwoSessionsOnlyWhenRaced that the login that fails comes after a race and never without one.

Other properties are stated with an exception because the code has one:
DuplicateOnlyWhenRaced (`purchase` looks for a live promotion outside its unit of work),
MissedOnlyWhenRaced (a message begun before the last one a tab received, and committed
while the tab was away, has an earlier `created_at` and is not replayed, which
`docs/chat-websocket.md` does not say of `last_message_id`), FailsOnlyWhenRaced (a Google
login, or a new phone, whose value belongs to a banned account fails with an IntegrityError
nothing handles), NameStandsUnlessRaced, and those of Images, Categories, Chat and Filters named
in section 2.

## 4. Fairness

- Wallet: Stripe repeats an unanswered event (strong fairness of `Redeliver`), a handler
  is not hung (weak fairness of `Finish`) and does not fail on the same event for ever
  (strong fairness of `Settle`); the cron job runs (weak fairness of `BulkExpire`).
  Nothing is assumed of customers, admins or the clock.
- Chat: a refresh task sleeps and goes on for as long as it runs (weak fairness of `Refresh`), and
  Redis expires keys (weak fairness of `ExpirePresence`). That a task goes on running is not
  assumed: `FailRefresh`, `FailForward`, `Disconnect` and `Crash` may happen at any time. A tab
  whose refresh task has ended is promised nothing, and can stay offline while it is connected.
  Nothing is assumed of senders or of clients.
- Moderation assumes no fairness. In place of liveness it has SomeoneGoesOn: while a request is
  open, and in whatever order statements try their rows, some request has a next step of the
  code, or PostgreSQL a deadlock to break. It is stated by the guards of the actions
  (`CanGoOn`), which on the instance TLC checks say the same as ENABLED, and can be proved.
- All other modules state safety only. A walk through a list that
  grows as fast as it is read need not end.

## 5. Proofs

The theorems hold for all values of the constants that satisfy the modules' assumptions, with
any number of requests, moderators, users or keys. Checkouts and purchases are finite sets
(WalletAssumption), so that a ledger has a sum.

| theorem | property | argument |
|---|---|---|
| *WalletProofs* | | TypeOK, then CreditInv, TopUpInv and PurchaseInv |
| TypeCorrect | TypeOK | inductive as it stands, one step per action |
| CreditOnce | CreditedAtMostOnce | assumes `~OverlappingDelivery`. At most one handler per checkout, and a handler at "commit" has a PENDING row and no TOP_UP row; without these the commit could follow another |
| CreditFollowsPayment | CreditMatchesPayment | CreditInv, with or without overlap: rows, credits and Stripe's final states are tied together, and a handler at "respond" has settled its row |
| CreditsAreBounded | CreditedPerHandler | for finitely many handlers and any overlap: a checkout's credits and the handlers still to commit on its PENDING row are together no more than the handlers |
| NeverOverdrawn | NoOverdraft | the conditional UPDATE, amounts positive |
| BalancesMatch | BalanceMatchesLedger | inductive with PurchaseInv (a purchase about to pay has no DEBIT row yet), needs no assumption on overlap. What one more row does to a sum over a finite set is shown on a smallest counterexample (SumsUpTo: the recursion of the sum has a solution; SumsDiffer: sums differ by as much as the one number that changed) |
| DuplicatesRaced | DuplicateOnlyWhenRaced | whoever is in `seen[p]` was not live when `p` looked, at or after `begun[p]`, and promotions never come back to life |
| TermsHonoured | TermHonoured | an action property over the same invariant: rows of done purchases never change but by expiry |
| WalletKeepsPromise | KeepsPromiseSafety | every step of Wallet is a step of Account or a stutter, using CreditOnce's invariant, hence also `~OverlappingDelivery` |
| *SessionsProofs* | | SessionsInv |
| SessionsTypeCorrect | TypeOK | the lock variable agrees with the program counters |
| RevocationCovers | RevocationCoversEarlier | between snapshot and commit every earlier active session is in the snapshot; revoked sessions stay revoked |
| SessionFollowsPassword | SessionDiesWithPassword | the user-row lock orders password changes: the later one's snapshot contains the earlier one's session |
| TokenReuseRaced | TokenReuseOnlyWhenRaced | a session exchanged by a finished refresh is revoked for good, so a later request cannot begin with it |
| RefreshStops | RefreshStopsAtRevocation | for password changes of any kind ("log out everywhere" promises less, RevocationCovers): a refresh begins only from an active session, and covered sessions are revoked for good |
| TwoSessionsRaced | TwoSessionsOnlyWhenRaced | DeviceInv: a login or a password change ends all it found, and a refresh that found a second session on its device found what a race had left (TwoAfterRace); such a race stays on record (RaceStays) |
| *ModerationProofs* | | ModerationInv |
| ModerationTypeCorrect | TypeOK | with TaskInv: which stages go with which request |
| StatusIsTrue | StatusTellsTheTruth | LockInv (a locked row stays as it was when it was locked) and TruthInv (what a request is to take down is chosen, updated or already gone when its siblings are resolved) |
| OnePending | OnePendingPerReporter | the partial unique index tests what is committed, and no status becomes PENDING again |
| LeftoversRaced | LeftoversOnlyWhenRaced | CoverInv (what was there when the request began is chosen, updated or resolved) and LateInv (the rest is counted late before it is inserted) |
| DecisionsStand | DecidedOnce | an action property over LockInv: a commit writes only rows it may write |
| SomebodyGoesOn | SomeoneGoesOn | OwnInv (no statement chooses a row its request has updated already, so nobody waits for itself) and StatementLeadsOn (a request whose statement has nothing left to lock has a next step) |
| DocketIsKept | KeepsDocket | every step is a step of Docket or a stutter: what a commit hits was pending (LockInv), lies in what the decision covers (ReachIsCovered), and what it leaves is late (DecisionLeaves, from CoverInv and TruthInv) |
| DocketSuffices | | Docket alone implies StatusTellsTheTruth, LeftoversOnlyWhenRaced and OnePendingPerReporter (DocketInv), so that it is no weaker than what Moderation is checked for |
| *AccountsProofs* | | KeysInv; AccInv and ContentionInv; PushInv |
| KeysTypeCorrect | KeysTypeOK | inductive with the lock |
| KeysStayRecent | KeysAreRecent | TimeInv (no fetch outlives its timeout, the cache expires at most a lifetime after its arrival) and WithdrawnInv (a key in the cache was withdrawn, if at all, after it was given) |
| RejectionIsDeserved | RejectedOnlyIfMissing | LackedInv: a login in the queue or in a fetch whose key Google lacks is counted so |
| LockIsReleased | QueueMoves | LockInv: the holder is the login in a fetch, and no other is in one |
| CacheGoesForward | CacheNeverGoesBack | LockInv, and a fetch begins after what is cached was given |
| IdentitiesKeepKeys | | Spec => KeysSpec: each step is one of the cache or leaves it alone |
| IdentitiesTypeCorrect | TypeOK | with WorkInv: where a request works on which account |
| OneAccount | OneAccountPerIdentity | LinkInv: one account per Google identity, and a login past its reads has a link |
| BannedOut | BannedStaysOut | BanInv: no read after a ban finds the account, and a ban is for good |
| FailuresAreRaces | FailsOnlyWhenRaced | an action property over ContentionInv: a value the request looked for and found free is free still, or a request beside it was given it, or a banned account has it |
| NamesStand | NameStandsUnlessRaced | an action property over the same: a request at the write of a username began when the account had none, or beside the one that set it |
| PushTypeCorrect | PushTypeOK | with QuietInv: which rows a logout holds |
| PushesFollow | PushesFollowLogins | HushedInv (a push has read no token its device gave up before) and UpheldInv (what a logout or a push may still delete is not a token that has to stay) |
| *ChatProofs* | | ChatInv |
| ChatTypeCorrect | TypeOK | with Started: which messages have begun, each once |
| OpeningsAreKept | OpeningLostOnlyWhenRaced | OpeningInv: requests that opened the conversation beside one another are rivals, also those that come late |
| NothingElseIsMissed | MissedOnlyWhenRaced | MissInv: a message under way that overlaps no other is the last one begun (OverlapInv), so what a tab got up to its newest message is whole (Covers), its subscription holds messages in order (Ordered), and after the replay nothing else is missing (Whole). What a limit leaves out comes after all a replay sends (FirstComeFirst), is `cut`, and becomes a gap when a later message or a page passes over it; any ReplayLimit and PageLimit but 0 |
| PushesOrReplays | PushedOrReplayed | PushInv over MissInv: what nobody was sent is in no subscription, and reached a tab when the recipient came online, and stays reached (ReachedStands); a push that failed is unqueued |
| SentIsRead | SeenIsRead | ReadInv: per stage of a tab, which messages between two readings are unsettled |
| DeletionsHide | DeletedIsHidden | HideInv: in a subscription a deletion that follows its message stays behind it |
| *CategoriesProofs* | | TypeInv, CycleInv |
| CategoriesTyped | TypeOK | inductive with the rows a request may refer to |
| CyclesComeFromRaces | CyclesOnlyWhenRaced | CycleInv: every cycle is one of two that raced, in the tree as it is and as it will be when a request that has read the ancestors it asks about has moved its category |
| DepthsFollowMoves | DepthFollowsMove | DepthInv: the depth a request is to write is one more than its new parent's, unless it moves nothing or a request on either raced |
| *ListingsProofs* | | PagesInv; FiltersTypeInv, FittedInv, SelectInv |
| PagesTyped | TypeOK | with PagesInv |
| WalksAreWhole | NothingSkipped | CoverInv: a row that was listed all the time, in its place, was sent or is past the cursor |
| WalksAreOrdered | PagesInOrder | BehindInv: no row that was sent, and has kept its place, is behind the cursor |
| FiltersTyped | FiltersTypeOK | one step per action |
| ListingsHaveFitted | ListingHasFitted | FittedInv: what fits now, and what an edit is going to write, is equal by Python's == to what has fitted; equality of contents is an equivalence (SameIsEquivalence), so an edit that is not validated changes nothing |
| SelectsHaveValues | SelectHasValuesUnlessRaced | SelectInv: a PATCH that is to take values away, or to make a SELECT, finds the definition as it loaded it, or another changed it beside it |
| *ImagesProofs* | | Inv |
| ImagesTypeCorrect | TypeOK | with Stage: what a request of each kind has left to do where; UniqueInv: neither the committed places nor those any transaction sees have one twice |
| RowsKeepObjects | RowsHaveObjects | RowInv (rows are live, the images of a request have none before it is over) and ObjectInv (an object stands before its row is written) |
| NoOrphans | NoOrphanObject | OrphanInv: a request knows the objects it has put, and what it knows has a row to come |
| RefusalsAreRaces | RefusedOnlyWhenRaced | AloneInv: a place that a request running alone is about to give is free, since an upload goes on behind the rows, a deletion moves each row down past the ones before it, and a reordering goes first above all the rows |
| RepairsStand | RepairedAlone | an action property over the same: with no statement left, each row is at its rank |
| ReorderingsTakeEffect | ReorderTakesEffect | an action property over ReorderInv: each place asked for is still to be given, is given, or its image is gone |

The inductive invariants are conjunctions of named parts, each with its meaning above it:

- CreditInv ties handlers, rows, credits and Stripe whatever overlaps; TopUpInv adds what holds
  without overlap (one handler per checkout, whose reading of the row stands, and one credit).
  PurchaseInv ties purchases to what they have read and to the promotions there were.
- SessionsInv == TypeInv /\ RowInv /\ CoverInv /\ PasswordInv /\ TokenInv /\ RefreshInv /\
  DeviceInv.
- ModerationInv joins TypeInv, RowInv, LockInv, TruthInv, CoverInv, LateInv and
  OnePendingPerReporter. Type correctness alone is not enough for any of them: without LockInv
  another moderator could decide a row between the snapshot and the commit.
- KeysInv == KeysTypeOK /\ LockInv /\ QueueInv /\ TimeInv /\ WithdrawnInv /\ LackedInv.
- AccInv == KeysTypeOK /\ AccTypeOK /\ WorkInv /\ LinkInv /\ BanInv. ContentionInv follows each
  value a request asks for from the query for it to the write.
- ChatInv joins SendTypes, TabTypes, RefreshTypes, Started and one invariant for each property. Whole is of no
  use without Covers and Ordered: a replay starts at the newest message a tab has, and would skip
  what lies before it.
- CycleInv speaks of reachability as the least closed set; that `Ancestors` is that set, and how
  it changes with one link, are lemmas (AncestorsAreReached and those before it).
- PagesInv == TypeOK /\ BehindInv /\ CoverInv /\ PagesInOrder. That `Sorted` sorts needs no
  induction: the positions of n rows are n different numbers below n, by the pigeonhole
  principle (Positions, SortedFacts).
- Inv of ImagesProofs joins TypeInv, UniqueInv, RowInv, PresentInv, ObjectInv, OrphanInv,
  ReorderInv, BusyInv, AloneInv and RefusedInv. BusyInv (two requests on the listing that run
  at once have both overlapped) keeps everybody else's hands off the rows of a request that runs
  alone; AloneInv follows such a request statement by statement (Appends, Shifts, Permutes), over
  lemmas about ranks in a finite set (Ranks, RankBelow, SameRank).

The type invariants, NoOverdraft, CacheNeverGoesBack, DecidedOnce, TwoSessionsOnlyWhenRaced,
CreditedPerHandler and CreditedAtMostOnce (without overlap) are proved and in no passing run.

Only checked by TLC, because it is out of the prover's reach: liveness under fairness
(KeepsPromise, PresenceRecovers).

## 6. What is not modelled

- Session expiry (an expired session behaves as a revoked one), token cryptography and the
  claims of a Google token, which are a choice of the environment in Identities.
- The administration of report reasons and a moderator's `last_action_at`: rows nothing else
  depends on.
- Typing events and the read receipts that are published to the other participant.
- Sponsored listings, views and statistics, and lists by LIMIT and OFFSET, which promise nothing
  between pages.
- Labels and `display_order` of filters; the unique constraint on the latter is one of the
  errors of `FailRequest`.
- S3 and Firebase beyond success and failure, configuration, start-up, migrations and scripts.
- Numbers are unbounded: balances are 64-bit and depths and sort orders 16-bit in the database,
  and no reachable value comes near.

That a purchase may be of a listing hidden or removed since its request began
(`promotions/service.py:94`) is in the model of Promotions and forbidden by no property, because
nothing in the repository says that it must not be.

## 7. Plan

1. Done: Ledger, Payments, Promotions, Wallet, Account, Sessions, GoogleKeys, Identities,
   Moderation, Docket, PushTokens, Chat, Images, Categories, Filters and Pages, with proofs of
   every invariant and action property the runs check.
2. Session expiry in Sessions, read receipts in Chat, reasons of reports in Moderation.
