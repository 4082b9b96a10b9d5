# A TLA+ verification of the NestJS backend

The repository is the server of a social application: users follow each other,
post, chat in groups and rooms, buy virtual currency with PayPal, send gifts.
It is a NestJS process (or several) over PostgreSQL, through Prisma, and Redis.
This directory holds its TLA+ models, the TLC configurations that check them and
the TLAPS proofs about them. Paths below are relative to `src/src/`.

## How the program runs, and what is hard about it

A request handler is an `async` function. Between two of its `await`s any other
handler may run, in the same process or in another; each awaited Prisma call is
one SQL statement, or one transaction where `$transaction` is used. Hence the
granularity of all models: **one step per await, one step per committed
transaction**, requests interleaved freely, PostgreSQL's default isolation
(READ COMMITTED, no row locked by a read).

What goes wrong in such code, and what the properties are about:

* a value read before an `await` is written back, or decides, after it (lost
  updates, a status tested outside the transaction that writes it);
* *find, then create*: two requests create the same row, one meets the unique
  index (P2002), and mostly nobody catches that;
* several statements without a transaction: another request, an error or a
  dying process falls between them;
* an external effect (PayPal's payout or capture) before or between database
  writes, whose answer may be lost;
* a cache entry filled from rows read before an invalidation, after it.

## Inventory

| Part | Code | State | Modules |
| --- | --- | --- | --- |
| Wallet operations: transfer, conversion, withdrawal, monthly card, administration | `modules/wallet/service/{transfer,convert,deposit,subscription,wallet}.service.ts` | `res_wallet`, `res_wallet_transaction`, `res_vip_status`; PayPal's payouts | `Ledger`, `Wallet`, `Bank`, `WalletBank` |
| Recharge and PayPal payments | `modules/wallet/service/recharge.service.ts`, `modules/payment/**` | the same tables; PayPal's orders | `Ledger`, `Payment`, `Recharge`, `PaymentRecharge` |
| Wallet queries | `modules/wallet/service/{wallet-summary,transaction,payment-method}.service.ts` | cached balances, summary, history | `Balances`, `Listings`, `Views` |
| Follows, friendships, blocks | `modules/users/service/user-connections.service.ts`, `modules/users/block-user/**` | `res_follow`, `res_friend`, `res_block`, the entries `user:<id>:connections` | `Social`, `Listings`, `Views` |
| Gifts and inventory | `modules/gifts/**`, `modules/profile/inventory/**` | `res_gift`, `res_inventory`, `res_item`, the Diamond wallet | `Gifts`, `Listings`, `Views` |
| Groups | `modules/groups/**` | `res_group`, its members, its conversation | `Groups`, `Settings`, `Listings` |
| Messaging | `modules/messaging/**` | conversations, participants, messages, read marks | `Messaging`, `Settings`, `Listings` |
| Posts, likes, comments, hashtags | `modules/posts/**` | rows, `post_count`, cached lists | `Posts`, `Settings`, `Listings`, `Views` |
| Feeds and search | `modules/posts/service/*feed*`, `modules/search/**` | cached pages | `Feeds`, `Listings`, `Views` |
| Rooms and events | `modules/room/**`, `modules/events/**` | participants, `current_participants`, seats, blacklist, flags, challenge | `Rooms`, `Events`, `Settings`, `Listings` |
| Clans | `modules/clans/**` | memberships, three cached lists | `Clans`, `Listings` |
| Authentication | `auth/**` | refresh tokens, blacklist, verification codes, second factor, cached validations | `Sessions`, `Accounts`, `Access` |
| Cache, warm-up, rate limits | `common/cache/**`, `common/interceptors/cache.interceptor.ts`, `common/rate-limit/**` | in-process LRU, Redis, the warm-up lock, counters | `Caching`, `Warming`, `RateLimit`, `Views`, `Access` |
| Notifications, realtime | `modules/notifications/**`, `modules/realtime/**` | rows, cached lists, sockets | `Notices`, `Presence` |
| Profiles, albums, stories, store, tasks, feedback, support | `modules/{profile,users,store,tasks,stories,feedback,support}/**` | rows of one user | `Belongings`, `Listings`, `Views` |
| Third-party clients, uploads, mail, monitoring, start-up | `apim/**`, `common/**` | none | none: I/O and wiring |

How they interact. Wallet operations and payments share the wallet and
transaction tables (`Ledger` holds these once, for both modules), and the
administrator's `deleteWallet` runs beside both. Gifts debit the same Diamond
wallet: `Gifts` sees the rest of the money as top-ups, which read the balance at one
await and write it, increased, at a later one.
`followUser` inserts a notification it does not wait for; notifications are pushed
to the sockets `Presence` keeps. A group has a conversation, so who belongs to it
is kept twice (`Groups`). Almost every read goes through the cache: each of
`Social`, `Posts`, `Clans`, `Notices`, `Feeds`, `Balances` models the entries of
its own lists, `Caching` the two tiers under them, `Views` and `Listings` the
common shape of all the others.

## Modules

| Module | What it is |
| --- | --- |
| `Ledger` | the wallet table, the transaction table, row identity (a wallet deleted and created again is another row: `gen`) |
| `Wallet` | six calls (`Kinds`) as steps `Find`, `Miss`, `Create`, `CreateLost`, `Payout`, `PayoutThrows`, `Commit`, `Rollback`, `MarkFailed`, `Crash`, and `Delete` |
| `Bank`, `WalletBank` | every wallet operation at once; the refinement mapping |
| `Payment` | checkout (`FindWallet` ... `CreateOrder`), PayPal's order, seven endpoints (`Capture`, `Lookup`, `ReadWallet`, `Commit`, `MarkFailed`, ...) |
| `Recharge`, `PaymentRecharge` | buying currency: paid once, used once, never more than due and exactly that but for overlaps; the refinement mapping |
| `Social` | seven requests on pairs of accounts, each a sequence of statements; members of a `Promise.all` are taken in any order |
| `Gifts` | buying, giving, sending from the bag, stocking, removing, delisting; the receiver's bag is filled after the transaction |
| `Groups` | one group: members in `res_group_member` and participants of its conversation, seven requests and the conversation's deletion |
| `Messaging` | direct conversations, messages, gift messages, forwarding, retraction, read marks, the removal of an account |
| `Posts` | one post with likes, comments, media, hashtags and four kinds of cached entries |
| `Community` | these three side by side, parametric; `mode` says which one a behaviour is about |
| `Sessions`, `Accounts` | logins, tokens, second factor, revocation; addresses, codes, password reset |
| `Caching`, `RateLimit`, `Warming` | one key of the two-tier cache; one key of the limiter; the locked warm-up |
| `Access` | these five side by side, parametric; `mode` says which one a behaviour is about |
| `Rooms`, `Events` | one live room, one event |
| `Clans`, `Presence`, `Belongings` | memberships without an index; sockets; rows updated in part |
| `Feeds`, `Notices`, `Balances` | pages, lists and balances put together from several statements and kept |
| `Listings` | the paged lists of the API, by what sets them apart |
| `Views` | the answers kept whole under one key or by the route, by what sets them apart; the levels computed from gifts |
| `Settings` | what is set after a check: a group's card, one's own seat in a conversation, a room's flags and challenge, a hashtag's views and followers |
| `Venues` | `Rooms` to `Settings` side by side, parametric, as `Community` is |
| `MC*` | instances for TLC: model values, symmetry; in `MCWallet` and `MCPayment` what documents say and overlapping requests refute |
| `*_proofs` | the TLAPS proofs |

All request models have one shape: `call`/`ask`/`job` is what a request asks, `pc`/`at`
the statement it awaits, `seen`/`got`/`found` what it has read. `Crash` ends a
request at any await, as a dying process does, where this leaves something behind.
The **history** variables, which no code reads, name the overlaps that break a
promise; each property says what holds of everything they do not name.

### Wallet

`call[r]` is the request, `pc[r]` the await it is at, `seen[r]` the rows it has
read, which may be stale. Every operation follows the same pattern in the code:
`findFirst` or `create` one or two wallets, compare the balance read with the
amount, and then write *absolute* balances inside a `$transaction`. `Commit` is
that transaction; it uses `seen`, never `wallet`, for what it writes. Its answer
may be lost after it became durable (`Goto(r, OnError(c))` with the writes done).
`withdrawVex` pays first (`Payout`), debits afterwards, and its `catch` block
writes a `failed` row (`MarkFailed`).

An administrator may set any balance, also a negative one (`wallet.dto.ts` asks for a
number only): `NoOverdraft` holds of the wallets no call sets below zero (`Indebted`),
and of *every* wallet it says that no debit on record leaves it below zero.
Amounts are integers (`Decimal` columns in the code, no division is applied to
them here); e-mail checks, paging and the `gem`/`gold` columns are left out.

### Payment

`order[t]` is PayPal's order (external, and the assumption the credit rests on:
**PayPal captures an approved order once**). `call[h]` is the endpoint, the order and
the transaction a handler is called with. `POST /payment/capture` and the redirect
page take `token` and `transactionId` from their caller and never compare them, so
these two are independent in the model (`NamesBoth`); the success page looks up the
`reference_id` of the order it captured, and the others name one thing only. The
endpoints differ in which statuses they credit: `WillCredit`. `held[h]` is the wallet
row a handler has read. `credits` (the handlers that credited), `due` (what each wallet
had, and the credits since) and `mixed` (wallets two credits of which overlapped) are
history, which no code reads. The order id PayPal draws never equals one of our
`reference_id`s (`PaymentAssumption`): this is why the webhook finds no row.

So the promises are about orders: `CreditedOnce`, the money of one order is credited
once at most, whichever transactions are named; `CreditIsPaid`, no credit without a
captured order, and a transaction named with its own order only was paid. Neither says
that the amounts agree, and two paid orders can credit one transaction twice: the
endpoints compare nothing. `CapturedIsCredited` is told of every endpoint and names the
two losses the code has: a wallet deleted meanwhile, and a row the success page finds
cancelled. `ImplementsRecharge` has no hypothesis on schedules: overlapping credits may
lose one another (`mixed`), but a wallet never holds more than what is due.
Left out: the orders of `POST /payment/test` (payment-test.controller.ts), which belong to
no transaction, and rows of the other services, whose `reference_id`s a caller could name
as well.

### Social

Rows are pairs; `todo[c]` holds the statements of a `Promise.all` still out,
`found[c]` what has been read. The code promises little while two requests
overlap on one pair, so the properties say what holds *in spite of* earlier
overlaps. For this, three history variables: `overlap`, the pairs some requests
overlapped on (an unfriend or a block that runs alone clears it: `Healed`);
`alone`, the running requests nothing has overlapped; `dirty`, the users whose
cache entry may be older than the tables (a list request ran during a write, a
request died before it reached the deletes, or a block, which deletes none of
these entries). The Redis deletes of one request are one step: they leave the
same client together. Assumed here: Redis is connected and one process serves
the requests; the in-process layer is the subject of `Caching`.

### Gifts

One catalogue item is followed, with the `res_item` rows of its name (the name is
not unique: `ForgeItem`). A paid gift reads the balance (`ReadWallet`), debits the
*value it read* in the transaction (`BeginTx`, `CommitGive`), and fills the
receiver's bag afterwards, in statements whose errors are only logged
(`FindItem` ... `PutRow`, `Lose`). `spent` and `topped` account for the Diamonds,
`owed` for what committed requests put into bags. A top-up (`convert.service.ts`, the
payment endpoints) is two steps, as there: `ReadBalance` before its transaction, and
`WriteBalance`, which writes what was read plus the Diamonds bought; `topup[u]` holds the
balances read and not yet written back. `raced`, `crossed` and `late` name users with
two requests in flight, users of whom a top-up overlapped a payment or another
top-up, and gifts made after a removal counted. Balances set by an administrator are
left to `Wallet`. `ChargesRight`: however purchases overlap, no user's
balance is below what he was given minus what he paid, but for those `crossed`, and
it is exactly that but for those `raced` or `crossed`. `BagExact`: but for the raced,
a bag holds what committed requests owe it. `GiftsSurviveDelisting`: removing a
catalogue item takes no gift it had not counted, but the late ones.

### Groups, Messaging, Posts

`Groups` keeps the member rows (`member`) and the conversation's participants
(`part`) apart, as the code does. `MembersParticipate`: at rest a member
participates and a former one does not, but for users two requests were about
(`raced`). `SomeoneInCharge`: a live group has a row with a manager's role
unless two changes of roles overlapped (`demoting`).
`Messaging` names rows by the request that made them. `OneDirect`: a pair has one
direct conversation unless two requests were opening one (`crossed`).
`ForwardsArrive`: the two seated in the conversation of a forwarded message are the
one who forwarded it and the one he chose.
`Posts` follows one post. `PostListsCurrent`: an entry shows the rows, but for those
named `torn` (read before a write and stored after its deletes, or a path that
deletes none). `TagsCounted`: `post_count` is the number of posts tagged with
`attachHashtags`, but for tags given at creation (`listed`: nothing counts them) and
counts cut off (`lost`).

### Sessions, Accounts, Caching, RateLimit, Warming

`Sessions`: `refresh` tokens, access tokens `minted`, the `black` list and the
validations a process has `cached`; `TokensSpentOnce` and `RevokedIsOut` hold but for
two uses at once (`raced`) and validations cached when the token was revoked
(`late`). `Accounts`: `CodesBounded` (at most `MaxAttempts` tries per code unless two
at once, `guessed`) and `OneOwner` (an address has one owner unless two requests
made it at once, `rushed`).
`Caching` is one key in the memory of each process and in Redis, with connections
that come and go; `CacheFresh`: an entry is the database's version, but for reads
that overlapped a write (`overlap`), another process's memory (`away`), writes `cut`.
`RateLimit`: the counter is read through `CacheService`, hence from the memory of the
process (`mem`) and only on a miss from Redis (`red`), and written back to both, to Redis
in a later statement that may fail. `RateHeld`: *each process* lets `Limit` requests of a
window through at most, unless it checked two at once or reset the entry (`raced`) or its
counter was lost (`lost`: the memory dropped it while Redis held another, or none). All
processes together let `Limit` through each; nothing in the code adds them up.
`Warming`: `WarmersExclusive` unless a lock expired under its run (`lapsed`); `NoLockLeft`
but for the `orphans`: runs that died, that lost their name to another run, or whose
commands to Redis threw (`Fail`; they bypass `CacheService`, which swallows errors).

### Rooms, Events, Clans, Presence, Belongings, Settings

`Rooms`: `CountedRight`, the counter equals the participants unless two requests
took a user out at once or one was cut off (`raced`) or the room was `closed`;
`NotOverfull` unless `crowded`. `Events`: `EventNotOverfull` unless `rushed`; a limit of
zero is none (`if (event.max_participants)`), a negative one lets nobody in, and the dto
accepts both.
`Clans`: `LeftIsOut`, who left has no row, however often he joined before;
`ClansCurrent`. `Presence`: `OnlineTrue`, a user is online iff a socket of his is
connected, unless `muddled` (a user who had two sockets at once or closed one in its
handshake, until he connects alone again); `TypeOK` includes that events reach only sockets in the
room. `Belongings`: `LastGivenKept`, a field holds what was given last unless two
updates of the thing overlapped (`mixed`).
`Settings`: a behaviour is about a group, a room or a hashtag, which share no rows.
`SettingsHold`: every field holds what was given last; the room's flags are one
column and are merged with what was read (`Merged`), so they are exempt once two such
updates overlapped. `PointsKept`: the challenge's points are those added however many
requests found no row and made one. `CountsAdd`, `ViewsDiffer`: the member summary
adds up, and no two viewers are told the same number, without overlaps.
`RefusedWroteNothing`: with one exception, a settings request may write the group's
card and *then* be refused for the seat it also gives.

### Feeds, Notices, Balances, Listings, Views

These say what a user is shown. `Feeds`: `FeedRight`, a page computed in one go is the
`limit` posts of its place, in order; `FeedPrivate`, none that its viewer may not read.
It has the four services of the routes and `FeedService` (`Direct`), which no route
calls: that one counts pages from 0, keeps nothing, and has `RankingService` put a
page in another order. The scores are floating-point weights, so `Rank` takes any
order of the page; what remains is that only the first `MaxPerAuthor` posts of an
author stay on the page (`Diverse`).
`Notices`: `NoticesCurrent`; `setStatus` is `updateNotificationStatus`, which no route calls.
`Balances`: `BalancesCurrent` but for operations that tell
the cache nothing (`silent`); `AnswersGiven`, a balance request is answered unless two
made the wallet at once (`met`).
`Listings` follows a client who walks through the pages of a list. The 43 lists of the
API differ in few things, the fields of a record: their order, whether rows hide,
whether the page is cached and the writes tell the cache, whether the count comes
first. `NothingTwice`, `NothingMissed`, `TotalTold`: for each list, the changes under
which a walk still tells every row that was there all along, and tells it once.
`Views` does the same for 30 answers kept whole: `reads` (one statement, two in turn,
two abreast), `told` and `untold` parts, entries made of entries (`nested`), written
through (`UserInfo`), kept again by the route (`routed`, which no write deletes but
that of the block lists), read anew for an administrator (`warmed`: `Warm`, `Fail`).
`EntriesTrue`: what a request read without any write under
way stays true until a write that tells nobody. `LevelsRight`: levels of the gift
wall and of a user partition the totals.

## Properties and runs

`PROJECT.json` lists them with their mutants: for each property, a plausible bug
in a definition (marked `Mutant:` in the modules) on which TLC finds the property
violated under the same configuration.

| Run | Instance | Shows |
| --- | --- | --- |
| `wallet` | 2 users, 2 requests of all six kinds, amounts {1,2}, one deletion, faults | `NoOverdraft`, `DebitHasPayout`, `DiamondsMoveOnRecord` under every schedule |
| `wallet_live` | transfers and withdrawals, no faults, `FairSpec` | `PaidIsRecorded`, `EveryCallAnswered` |
| `wallet_bank` | all kinds, `Exclusive` | `ImplementsBank`, `PayoutsCovered` |
| `payment` | 2 payments, 3 handlers that name orders and transactions freely, one deletion, faults | `CreditedOnce`, `CreditIsPaid`, `RowTellsCredit` |
| `payment_recharge` | 2 payments into one wallet, 2 handlers of the endpoints `payment` leaves out, one deletion, `FairSpec` | `ImplementsRecharge`, `CapturedIsCredited` |
| `social` | 2 accounts, 2 requests in flight, any number after another, crashes, expiry | `FriendsFollowEachOther`, `OneFriendRow`, `FollowsTakeEffect`, `BlockSeparates`, `CachedIsCurrent` |
| `gifts` | 2 users, 3 requests, price 1, two top-ups of 2, 2 item rows | `ChargesRight`, `BagExact`, `GiftsSurviveDelisting` |
| `community` | `Community`: `Groups` (2 users, 2 calls, 3 seats, a legacy group, crashes), `Messaging` (3 users, 4 calls), `Posts` (2 users, 3 calls, 1 tag) | `MembersParticipate`, `SomeoneInCharge`, `OneDirect`, `ForwardsArrive`, `PostListsCurrent`, `TagsCounted` |
| `access` | `Access`: `Accounts` (3 calls, 1 attempt), `Sessions` (3 calls), `Caching` (2 calls, 2 processes), `RateLimit` (3 calls, limit 2, 2 ticks), `Warming` (2 runs, 2 processes, 2 tries, 2 writes) | `SecretsSpentOnce` (`TokensSpentOnce`, `CodesBounded`, `OneOwner`), `CachesTell` (`CacheFresh`, `RevokedIsOut`), `GatesHold` (`RateHeld`, `WarmersExclusive`, `NoLockLeft`) |
| `venues` | `Rooms` (3 users, 3 calls, 2 places), `Events` (2, 3 calls, limits -1, 0, 1, 2 and none), `Clans` (1 user, 3 calls, 2 rows), `Presence` (3 sockets of 2 users), `Belongings`, `Feeds` (4 posts, pages up to 2, ranked pages of 1 post per author), `Notices` (2 notes), `Balances`, `Listings` (1 walker, pages of 2, 3 rows, 2 changes), `Views` (2 calls, 2 writes, gifts worth up to 40), `Settings` (2 users, 2 or 3 calls) | `RoomsRight`, `MembersRight`, `ComputedRight`, `ViewsTrue`, below |
| `claim_*` | `Wallet`, `Payment` | one documented sentence each, refuted |

The runs `community`, `access` and `venues` check several components **side by side**: the variable `mode`,
chosen in the initial state, says which one runs; the components do not
interact there, and a component's properties are asked in its own behaviours only.
The bundles of `venues`: `RoomsRight` = `CountedRight`, `NotOverfull`,
`EventNotOverfull`, `PointsKept`; `MembersRight` = `LeftIsOut`, `OnlineTrue`,
`LastGivenKept`, `SettingsHold`, `RefusedWroteNothing`; `ComputedRight` = `FeedRight`,
`FeedPrivate`, `NothingTwice`, `NothingMissed`, `LevelsRight`; `ViewsTrue` = `ClansCurrent`,
`NoticesCurrent`, `BalancesCurrent`, `AnswersGiven`, `TotalTold`, `EntriesTrue`,
`CountsAdd`, `ViewsDiffer`. `ComputedRight` collects what is computed by walking over data.

Each bundle has one mutant in `PROJECT.json`; these break other members of it:
`Accounts` `OpenLong`, `OwnerNew` (`SecretsSpentOnce`); `Warming` `FreeAlways`
(`GatesHold`); `Rooms` `RoomForPlus`, `Events` `FullPlus`, `Settings` `MakesAlways`
(`RoomsRight`); `Presence` `LeavesOnline`, `Belongings` `KeptNot`, `Settings`
`MergedNot` (`MembersRight`); `Feeds` `MatchesAll`, `Listings` `SkipFromZero`
(`ComputedRight`); `Clans` `InfoNot`, `Balances` `ToldBalances`, `Views` `ClearedNot`,
`ReachesMore` (`ViewsTrue`).

**Bounds.** Two requests are enough for the races of these handlers, because each
one writes at most once after reading: a lost update, a stale status, a P2002 and
an insertion between two deletes need one rival. A third is given where a case needs
it: a cancellation between two captures (`payment`), a purchase between the two
halves of another user's gift (`gifts`), a third join at a limit of two (`Rooms`,
`Events`), points added between two creations of a challenge (`Settings`), a code
tried between a request for it and its use (`Accounts`). `MaxGen` bounds wallet
deletions (one is enough for a handler to hold a deleted row, and for the row to
exist again). `Refs` bounds the number of calls, or of payments. In `social`
slots are reused without a bound, since all its state is finite. `MaxWrites`,
`MaxMoves`, `MaxChanges`, `MaxNotes`, `MaxClans`, `MaxRows` bound what grows: two are
enough for an entry to be older than the last write and than the one before, three
rows make two pages of two. `MaxTime` spans several windows (`Ttl`) of the
limiter. The proofs have no bounds.

**Constants that restrict schedules.** `Exclusive` of `Wallet` (a call starts only if
none in flight shares a wallet with it) is not in the code. Only `wallet_bank` sets it: that
run checks the sequential specification of the wallet services, no more.
`Faults` and `Crashes` switch errors, lost answers and dying processes.

**Fairness.** `FairSpec` gives weak fairness to the steps of each request *that has
started*, and nothing else: Node's event loop runs every settled promise, and
Prisma and the PayPal client answer or throw. No client has to call, no buyer has
to approve, no fault has to happen. Runs with `CHECK_DEADLOCK FALSE` have finitely
many requests, each made once: such a system really stops. The modules without
`FairSpec` promise nothing that must happen: an entry may outlive every request.

## Disagreements between documents and code

With a run (see "findings" in `PROJECT.json`): overlapping transfers lose updates
(`TransfersConserveVex`); webhooks of PayPal find no transaction (`WebhookSettles`).

Seen in the models, without a run of their own.

Money and gifts:

* `wallet/service/deposit.service.ts:225`: a paid withdrawal may be recorded as failed.
  `:137` announces debit and pending record before the payout; the code pays first.
* `payment/controller/payment-webhook.controller.ts:289`: a cancellation overwrites a
  credited row (comment `:246`); `:106` captures a payment cancelled meanwhile and
  never credits it (NEXT_STEPS.md:34); `:268` relies on its transaction for
  atomicity, but the balance is read before it.
* The capture endpoint and the redirect page compare neither the order with the transaction
  nor the amount paid with the amount credited, and `wallet.dto.ts:34` and `:47` accept
  negative balances, `event.dto.ts:73` limits of zero and less.
* `wallet/service/recharge.service.ts:175`: when `createOrder` throws, the checkout
  answers 200 and its row stays pending for ever.
* `wallet/service/convert.service.ts:116` announces records for VEX *and* Diamond; the
  code writes the Diamond one. `wallet/service/subscription.service.ts:90` says a
  second monthly card is refused while one is active; nothing reads `res_vip_status`.
* `payment/PAYPAL_SANDBOX_TESTING.md:114` expects `failed` after a cancellation on
  PayPal's page; `paymentCancel`, the `cancel_url`, updates nothing (`CancelPage`).
* `sendMessage` with a gift item writes a gift that costs nothing and reaches no bag;
  a removed gift leaves its sender's gift wall, a new price every wall, in the cache.
* Transfers, deposits, conversions and payments leave the cached balances as they were.

Groups, messages, rooms:

* `checkAdminPermission` and `sendGroupMessage` do not ask whether the member has left;
  an *owner* may not update or delete the group (`admin` is wanted); `joinGroup`
  ignores `max_members`; adding a former member answers success and gives a seat in
  the conversation but no membership; any participant's `deleteConversation` closes the
  group's conversation for all.
* `updateGroupSettings` may write the card and then answer 404.
* A direct conversation one side deleted is never reopened (404); `forwardMessages` may
  pick a conversation whose other participant deleted his account.
* A user who left a room can never rejoin (`@@unique([room_id, user_id])`); `joinRoom`
  asks no blacklist; kicking frees no seat; `closeRoom` leaves the counter;
  `setPassword` reactivates a closed room; boosts and room gifts charge nothing.
* A user with two sockets is offline once one closes; `join_room` asks no membership.

Posts, feeds, lists, caches:

* `createPost`, `updatePost` and `deletePost` never touch `post_count`, which
  `detachHashtag` decrements. `updatePost` leaves `post:<id>:media` cached; a reply's
  parent may belong to another post; a second click on like meets P2002 or P2025.
* The keys of `latest:feed` and `community:posts` lack the viewer whose likes they hold;
  a page size above 50 skips posts; friends-only posts are shown by id to anyone,
  and not to their author by the friends' feed.
* `common/interceptors/cache.interceptor.ts:77`: the key of a kept response has `page`,
  `limit`, `search` and `sort` only, so `GET connections?type=followers` and
  `?type=following` share one answer, as do the notifications of different types.
  Nothing deletes these responses but a block.
* Search over everything ignores the page; a page and its count read side by side can
  end a walk early; tasks, store items and clans are "newest first" by random ids.
* `invalidateFeedCache` and the attach/detach flushes delete keys nobody writes; warmed
  keys are read by nobody; the rate limiter's memory fallback is unreachable, and where
  `user-rate-limit.service.ts:29` says 'Try Redis first' the process's memory answers first.
* `joinClan` twice makes two rows; `updateClanRole` deletes no cached list.

Accounts:

* `2fa/setup` turns the second factor off without a code; a code of any context serves
  any verification; a weak new password spends the reset code.
* Logout and blocking leave cached JWT validations, whose age each use renews.

## Proofs

For every set of users, requests, amounts and interleavings, with faults:

| Theorem | Property |
| --- | --- |
| `Wallet_proofs`: `TypeCorrect`, `NeverOverdrawn`, `DebitsHavePayouts`, `NoEarlyRecord`, `DiamondsAreRecorded` | `TypeOK`, `NoOverdraft`, `DebitHasPayout`, `NoRecordBeforeCommit`, `DiamondsMoveOnRecord` |
| `Payment_proofs`: `TypeCorrect`, `NeverCreditedTwice`, `CreditsArePaid`, `RowsTellCredits`, `RowsKeepWallets`, `PaymentImplementsRecharge` | `TypeOK`, `CreditedOnce`, `CreditIsPaid`, `RowTellsCredit`, `RowsHaveWallets`, `ImplementsRecharge` |
| `Social_proofs`: `TypeCorrect`, `FriendsAreMutual`, `OneRowPerFriendship`, `FollowsWork`, `BlocksSeparate`, `EntriesAreCurrent` | `TypeOK`, `FriendsFollowEachOther`, `OneFriendRow`, `FollowsTakeEffect`, `BlockSeparates`, `CachedIsCurrent` |
| `Gifts_proofs`: `TypeCorrect`, `ChargedRightly`, `BagsExact`, `DelistingSparesGifts` | `TypeOK`, `ChargesRight`, `BagExact`, `GiftsSurviveDelisting` |
| `Access_proofs`: `AccessTyped`, `SecretsServeOnce`, `CachesTellTheTruth`, `GatesKept` | `TypeOK`, `SecretsSpentOnce`, `CachesTell`, `GatesHold` |
| `Community_proofs`: `CommunityTyped`, `GroupsMeet`, `GroupsAreLed`, `PairsMeetOnce`, `ForwardsAreRead`, `PostsAreShown`, `TagsAreCounted` | `TypeOK`, `MembersParticipate`, `SomeoneInCharge`, `OneDirect`, `ForwardsArrive`, `PostListsCurrent`, `TagsCounted` |
| `Venues_proofs`: `VenuesSafe`, `VenuesHoldTheirOwn`, `MembersKeepTheirs`, `ViewsAreTrue` | `VenuesInv`, the inductive invariant of ten of the components; `RoomsRight`, `MembersRight`, `ViewsTrue` |

The proofs about `Venues` are in two modules: `VenuesParts_proofs` (rooms, events,
clans, sockets, belongings, notifications, balances) and `Venues_proofs`, which extends it
(settings, whole answers, paged lists, and the components side by side).

**Wallet.** No overdraft is not inductive: a commit writes what it read minus its
amount. The invariant `IInv` adds `Solvent` (rows *read* are not negative either, but of
wallets `Indebted`)
and `Covered` (past the check, the balance read covers the amount), so the value
written is not negative however stale it is. `DebitHasPayout` needs
`PaidBeforeCommit` (the only way to a withdrawal's commit is its payout).

**Payment.** A commit tests nothing, so `CreditedOnce` needs that a handler on its way
to a credit has itself captured the order it names, which is not credited, and that no
other handler that names this order is on such a way: PayPal's single capture, carried to
the commit. What transaction it names does not matter. `PaymentImplementsRecharge` has
no hypotheses: in the mapping a `Pay` is a capture, a `Settle` the commit of a handler,
which uses its order for the transaction it names. Its invariant (`Sums`) says that a
balance held by a handler about to commit is at most what is due to the wallet, and,
unless two credits overlap (`mixed`), exactly that; a handler that holds a row of a
deleted wallet commits nothing, which is why deletions do no harm.

**Social.** `IInv` joins `InHandler` (a request awaits a statement of its own handler),
`Disturbed` (two requests on one pair are never taken for undisturbed), `Phases`
(what a request that runs alone knows of its pair at each statement), `Pairs`
(friends follow each other except between two statements of one request),
`Reversal` and `Holdings`. For the cache, `Entries` adds what a user who is not `dirty`
can rely on: no write of his rows happens while one of his lists is being read
(`Listing`), so an entry is stored as it was read, and it differs from the tables
only while a request still owes its deletion.

**Gifts.** `Typed` includes `ReadsRight`: a request past its check has read enough.
`Noticed`: two requests about one user in flight are in `raced`. `Money`: for a user
not `crossed`, what a top-up has read is the balance (`TopUpsTrue`), and the balance,
*and each balance read by a request in flight*, is at least what he was given minus
what he paid (what is read is what is written back); without overlaps both are equal
to it. `Uncounted`: while a removal is between its
count and its deletion, every gift is one made since. `RowsCurrent`: what a request has
read of the bag it is about to write is what the bag holds, unless its user is in `raced`;
a request whose row somebody else could write or delete shares a user with that somebody
(`Alone`), which `Noticed` has noted. `Balanced` is `BagExact` with the types it needs:
each action changes at most one row of one bag and what one request has on its way
(`BalanceStep`). The sums are folds of the community modules. What such a fold computes
is induction over data; the library's induction theorems take an operator, but the
least-element theorem `WFMin` takes a set, and from it follow induction over sets of
numbers and of subsets (`NatSets`, `Subsets`), the sum whichever element is taken first
(`FoldSums`), and the lemma the proof uses: one value changes, the sum changes by as much
(`SumChange`).

**Access.** One invariant per component. `RateLimit`: what a process counts, in its memory
or, when that dropped it, in Redis, is what it let through in the window, unless it is in
`raced` or `lost`. `Warming`: the lock is the one the run that works holds, unless lapsed,
or an orphan's. `Caching`: a version older than the
database's is kept only where a running write is about to delete it. `Sessions`: a
token that was exchanged is over, a code still open was not exchanged, a validation
was stored before its token's revocation began or is gone. `Accounts`: each target has
at most one undisturbed creator or spender, and the attempts of a code are bounded by
the requests that have ended, so that they can be counted; this uses that `Calls` is
finite.

**Community.** One invariant per component. `Groups`: `Phase` says how a user stands in
both records at each statement of the only request about him, `Resting` how he stands
without one, where a member who has no seat yet is awaited by a request that is filling
the conversation; `GroupLed` that the writer of a role is in charge and not its subject.
`Messaging`: who has looked for a conversation of a pair and found none is still right
(`Looked`), unless another request that might open it runs, which puts the pair in
`crossed`. `Posts`: `Filled` and `Filling` say of the entries, and of what a reader is
about to store, that they show the rows unless marked; every step leaves an entry
deleted, unchanged or marked (`PostFresh`). `PostTallied` balances `post_count` with the
requests between an attachment and its count, which makes `TagsCounted` inductive.

**Venues.** `VenuesInv` is one invariant per component, asked in the behaviours about it.
`Rooms`: the counter and the requests about to raise it make up the users inside, the
requests about to lower it and the host on his way (`RoomCounts`), while no two requests
take the same user out (`RoomApart`); one user joins at a time, and his place is there
until he has counted himself (`RoomSpace`). `Events` (`EventPlaces`): a join past its count
has a place, because unless `rushed` no other join or change of the limit runs beside it.
`Settings`: the challenge holds the points granted (`SettingPoints`); an update of the flags
that runs alone holds them as they are (`SettingRead`), which makes `SettingsHold`
inductive; a request not yet answered has written nothing but a card (`SettingPaper`).
A summary not `crossed` has counted what is there (`SettingCounting`), so its parts add up;
a viewer not crossed was told no more than `views`, and the next one is told `views + 1`, so
no two are told the same (`SettingApart`).
`Clans`: who left has no row (`ClanLeft`); what a reader is about to store is what the table
says (`ClanReads`), and an entry is too, or a request still owes its deletion (`ClanTold`).
`Presence` (`SocketMapped`): unless `muddled` the map names the one open socket of each user.
`Belongings`: an update past its `Find` holds the row as it is unless `mixed`.
`Notices` and `Balances`: what is about to be stored is right unless `torn`, and a wallet
somebody will fail to make was made by another (`met`).
`Views` (`ShownInv`): the parts a clean request has read are the current ones, since a
write that begins leaves no reader clean; an entry that is `sure` says what the tables say
or a running write still owes its deletion (`ShownOwes`), and entries made of entries
likewise (`ShownTells`). Nothing else in the code stops a stale answer from being stored,
which is why `EntriesTrue` speaks of what was read without a write under way.
`Listings` (`ListingInv`): a total a clean walker has read is the present one, and so is that
of every page kept since the last change (`fresh`); hence `TotalTold`.

Assumptions: the named `ASSUME`s of `Ledger`, `Wallet`, `Payment`, `Social`, `Gifts`, and
of `Access`, `Community`, `Venues` and their parts, which TLC evaluates in the runs. They say
that the sets of users, requests and rows are finite where they are counted, that limits,
prices and ages are numbers, and that `None` is no user, answer or value.

Only model-checked:

* `ImplementsBank` and `PayoutsCovered`, and for calls that do not overlap only;
* all liveness (`PaidIsRecorded`, `EveryCallAnswered`, `CapturedIsCredited`): fairness is
  out of the prover's reach;
* `ComputedRight`: what recursive functions over sequences compute, the pages of a feed
  (`Diverse` and the walk that cuts a page out of all posts), the pages a walker puts
  together, the climb through the levels;
* `TypeOK` of `Venues`: the typed parts of ten components are in `VenuesInv`, but that a
  feed's page is no longer than it may be goes through `Diverse`.

`NoRecordBeforeCommit` and `RowsHaveWallets` are proved and need no run.

## Not modelled

* The scores of ranked, trending and recommended rows are floating-point weights; what
  is modelled is which rows are read, how many are kept and how they are cached.
* Uploads, mail, Firebase, Cloudinary, IAP receipts: calls of third parties whose
  answers are stored in one statement. Metrics, benchmarks, seed scripts, wiring.
* Reports of groups and chats answer success and store nothing.
* Feedback, support requests, referrals, VIP status, shares, announcements: single
  rows written once, which no other operation reads back.
* `max_members`, a second monthly card, a pending row without an order: the models have
  these behaviours, but nothing in the code or its documents says what should hold.

## What could come next

All the modules planned are written, checked and, but for the list under "Only
model-checked", proved about. What would extend the development:

1. `FeedRight` for every number of posts, by induction over pages, with a prover that
   can instantiate the library's induction theorems.
2. The refinement `ImplementsBank` without `Exclusive`, once the services write
   relative balances (`increment`) inside their transactions: `Bank` is the
   specification such a change should meet.
3. A component for the reports and the referral programme, when these come to
   have state that another operation reads.
