# Jackpot Drop: a verification of the flash-sale store

The store sells a limited stock to many browsers at once. A unit is reserved the
moment it goes into a cart; a reservation that is neither bought nor edited
expires and its unit returns. This directory models that program in TLA+,
checks the models with TLC and proves theorems about them with TLAPS. Paths
below are relative to `src/`; `backend/` and `frontend/` abbreviate
`src/backend/src/` and `src/frontend/src/app/`.

## 1. The system

### Components

| Component | State it keeps | Operations | Modelled by |
|---|---|---|---|
| Live stock and reservation keys: `StockReservationService`, `reserveStock.lua`, Redis | `stock:{itemId}` counters, `reservation:{cartItemId}` keys with a time to live | `reserve`, `release`, `clearReservationKey`, `refreshReservation`, `getRemaining`, `seed`, `init`; Redis's own snapshots and restarts | `StockReservation` |
| Cart and order use cases: `AddToCart`, `UpdateCartItemQuantity`, `RemoveFromCart`, `Checkout` | the locals of every handler under way | one call each over HTTP, several awaited store commands per call | `FlashSale` |
| Reservation expiry: `ReservationExpirySubscriber`, `ExpireReservation` | the handlers under way | one handler per keyspace notification | `FlashSale` |
| Cart and order collections: `CartItemRepository`, `OrderRepository` (Mongo) | `cartitems`, `orders` | upsert, deletes, finds, the aggregate the seed reads | `FlashSale` |
| Boot, counter seed, shutdown: `server.ts`, `seedStock.ts` | is the server up | load the script, seed, subscribe, listen; crash | `FlashSale`, `Shop` |
| Stock broadcast: `SocketServer` | none of its own: what every client was told last | `emitStockUpdate` | `FlashSale`, `Broadcast`, `Storefront` |
| HTTP surface: routes, controllers, auth, error handler | none | dispatch, token to user, error to status | the calls and their failure; the check of a token (`Accounts`) |
| Browser store: `CartService` and the components that call it | session, items, page, cart, last order, line error, timeouts | the user's clicks, a callback per reply, a callback per push | `Storefront`, `ScreenSync` |
| Catalogue listing and cart view: `ListItems`, `GetCart` | none | one page; the cart, grouped and summed | `Catalogue`, `Shop`; what the tab sees of them: `Storefront` |
| Login: `LoginUser`, `UserRepository` | `users`; the locals of every login under way | find, then upsert by name; the token | `Accounts`; what the tab sees of it: `Storefront` |
| Catalogue seed and reset script: `seedCatalogue.ts`, `scripts/seed.ts` | the catalogue; how far the script is | count, insert, wipe, clear the counters, seed them | `Catalogue`, `Shop` |
| Entities, composition, configuration, logging, API documentation, tests | none | validation of one value, wiring, text | not modelled |

### How they interact

A click becomes an HTTP request; the controller calls one use case. A use case
runs in Node's single thread until its next `await`, so two handlers never
interleave inside a stretch of code, but do at *every* store command. There is
no lock, no transaction and no session affinity: what one handler read from
Mongo may be gone when it writes. The only atomic unit larger than one command
is the Lua script. Redis and Mongo are never updated together, so each use case
fixes an order: reserve, then write the row; release, then drop the key, then
delete the row; save the order, then drop the keys, then delete the rows. Redis
calls back: a key that expires publishes one notification, to whoever is
subscribed then, and the subscriber starts `ExpireReservation` beside the
request handlers. Every operation that succeeds ends with a broadcast that
all browsers patch into their lists; one that throws half-way changes counters and says nothing.

### What is hard

* **Interleaving at awaits.** Every use case reads rows and acts on them several
  commands later.
* **Two stores.** A crash or a failing write between Redis and Mongo leaves
  units reserved that no row accounts for.
* **Expiry as an event.** A row returns its units only if its key exists, expires,
  and the notification is delivered and handled.
* **Boot.** The counters are recomputed from rows while Redis still has its own.
* **Redis restarts.** It comes back with an old snapshot, or empty, and without the
  script, under a server whose handlers are in the middle of something.
* **The reset script.** A second process wipes carts, orders, items and counters,
  and may die half-way, while the server's handlers hold rows and units of what it wipes.
* **Failing half-way.** A handler that throws after its first effect broadcasts nothing, and the
  browser is told only that something failed.
* **Ordering in the browser.** Replies of HTTP requests and pushes of the socket
  travel separately; timeouts are never cancelled.

`PROJECT.json` lists every such hazard at its line, with the properties that
would catch it.

### What makes each component correct

* Redis counters: never negative; never promise more than is left of the catalogue.
* Use cases: a unit moves once, for the user who asked; a rejected or rolled
  back request moves none; a cart is sold whole or not at all.
* Expiry: every row is under a key or in the hands of a handler that deletes it.
* Boot: the seed returns what a crash stranded, and no more.
* Login: a name has one account, whatever logins race, fail and are repeated.
* Catalogue: there once; every item on one page; a cart and an order cost what their
  rows cost; a reset opens with every unit for sale.
* Broadcast and browser: after the dust settles, the screen shows the truth, but for what a failure hid from it.

## 2. The modules

| Module | What it is |
|---|---|
| `StockReservation` | Redis: the counters, the keys, one operator per command of the service |
| `FlashSale` | the backend: request handlers, expiry handlers, crash and boot, over `StockReservation` |
| `StockLedger` | the abstract specification: units are free, held by a user, or sold |
| `FlashSaleLedger` | the refinement mapping from `FlashSale` to `StockLedger` |
| `Broadcast` | what `FlashSale`'s broadcasts tell the clients, with the items they leave stale |
| `MCFlashSale`, `MCBroadcast` | constants and symmetry for TLC |
| `Accounts` | logins: find, upsert, token |
| `Catalogue` | the items collection: filled, emptied, listed page by page |
| `Shop` | the whole backend over a changing catalogue: composes `FlashSale`, `Catalogue` and `Accounts`, and adds the boot's seed, the reset script, item lookups and prices |
| `MCShop` | constants and symmetry for TLC |
| `Storefront` | one browser tab over `StockLedger` as its backend |
| `ScreenSync` | what the tab of `Storefront` shows, with what it cannot know |
| `MCStorefront`, `MCScreenSync` | constants for TLC |
| `FlashSale_proof` | type correctness, the counter is never negative, carts stay separate; the lemmas on sets of rows and units that the others use |
| `Oversell_proof` | a rush of adds and increases never oversells, and the seed makes up for what a crash strands |
| `Ledger_proof` | `FlashSale` implements `StockLedger`, for one call per cart at a time |
| `Lifetime_proof` | no row outlives its key |
| `Broadcast_proof` | clients show the live counters, for one handler at a time, but for what handlers that died left stale |
| `Shop_proof` | accounts, the catalogue, pages, carts and bills, around boots, resets and deaths |
| `Reset_proof` | resets under a running server oversell nothing, and the shop opens with its full stock |
| `Storefront_proof` | the tab: types, timers, and a screen in sync with what it can know |

The two halves meet in `StockLedger`: `FlashSaleLedger` shows that the backend
implements it (under a stated discipline), and `Storefront` runs the tab against
an instance of it. So the tab is checked against what the backend promises and
not against all the interleavings of its commands.

### FlashSale and the code

*Steps.* One step is one store command with the code up to the next `await`,
or one broadcast. `req[r]` holds a handler's locals and `pc`, the command it waits
for; `exp` holds the expiry handlers. `AddToCart` starts at its reserve, `Increase`
and `Decrease` at their `findByUser`, and so on; `SaveRow`, `SaveRowReplyLost` and
`CommandFails` are the three outcomes of the write in `AddToCart.ts:66-85`;
`Undo`, `UndoDrop`, `GetRemaining`, `Emit` its rollback. `ReleaseRow`, `DropKey`,
`DeleteRow`, `ShrinkRow` are a turn of the loops of `RemoveFromCart.ts:36-40` and
`UpdateCartItemQuantity.ts:130-151`. `Survey` and `RefreshKey` are lines 69-76.

*Identities.* A request generates at most one cart row id, so the row is named
after the request. Requests are used once: `Request` bounds the calls of a run.
The value of a reservation key is never read by the program; in the model the
key holds the request that last started its time to live, which tells
successive lives of one key apart.

*Merged.* Reads of the catalogue (constant in `FlashSale`; `Shop` has it change and
makes the reads steps) belong to the step before. The first `getRemaining` of a remove or a decrease is a step only
when there are no rows, since otherwise its result is overwritten. A checkout of
an empty cart changes nothing and is left out. Order lines group the rows by item;
the model keeps the rows sold.

*Time.* A key may expire once the request that last started its life has ended
(`ShortTtl = FALSE`: the ten minutes of `env.ts:28` outlast a request), or at any time
(`ShortTtl = TRUE`).

*Failures.* `Faulty` names the commands that may fail before they take effect;
`"reply"` lets a write take effect and still throw; `"notify"` loses a
notification; `"expire"` makes an expiry handler throw. `Crash` kills every handler
at its await; a shutdown does the same. `LoadScript`, `SeedStock` and `Subscribe` are the boot.

*Redis by itself.* `SnapshotRedis` records counters and keys at any moment (only the last
snapshot matters); `RestartRedis` puts them back, without the keys that have ended
meanwhile and without the script. The server is not told: its client reconnects, handlers
go on, and `reserve` throws NOSCRIPT until a boot loads the script (`StockReservationService.ts:31,59`).
Every other command works, on counters and keys that may be old. A counter that does not
exist reads as 0, which is what `GET`, `INCRBY` and the script make of it.

*What clients are told.* `shown` is the count broadcast last. A handler broadcasts as its last step, so
one that throws or dies after it has changed a counter leaves clients with the old count, and so does the
seed of a boot. `Broadcast` adds the history variable `unheard`: an item enters it when such a step
leaves its counter other than shown (`Silenced`), and leaves it with its next broadcast (`Told`). No
action reads it; it only says of which items `ClientsInSync` can promise nothing.

### Shop and the code

`Shop` starts with the server down, over an empty catalogue or one from an earlier life. `BootCounts`,
`Fill` and `BootLoads` are `server.ts:42-48` with `seedItemsIfEmpty` inside; `BootSeeds` seeds
the counters of the items found. `StartReset` to `SeedCreated` are `scripts/seed.ts:24-46`, one
action per await, the three deletes of `Promise.all` in any order; the order of the others is the
table `NextPhase`. `Dies` is a kill, or a failing command, of the script or of a boot that fills.
Every `insertMany` generates new ids: `Batch[n]` are those of the n-th one, and `Len(Batch)` bounds
how many there are.

`LooksUp` is the `findById` with which an add or an update starts, a step apart from the rest of the
call (`found`), so that the item may be gone when the call goes on; removes and checkouts start
with the cart. `PriceLines` is `Checkout.ts:51-63`. All other steps of handlers are `FlashSale`'s
own actions. A call needs a token that a login has handed out (`Accounts`, an instance over
the variables `users` and `login`): the find and the upsert of a login are steps, and the upsert may take
effect although the login fails.

The script and the boot are assumed not to overlap, nor two scripts: one administrator
runs them (section 5 says what happens otherwise). Crashes of the server and of Redis, and
lost replies of saves, are not repeated in `Shop`.

### Storefront and the code

One action per method a click reaches (`Login`, `logout`, `goToPage`, `Grab`,
`increase`, `decrease`, `remove`, `checkout`, `backToStore`, `ReloadPage`), with the
guards of the templates (disabled buttons, which screen is shown). `requests` are
calls the backend has not executed, `net` what travels back; `Execute` performs a
request on the ledger and sends its push and its reply; `Deliver` runs the
callback of `CartService` for what arrives. A callback that asks for the cart or the
items adds a request. `Dismiss` is the timeout of `setLineError`. `Elsewhere` is
everybody else: other tabs, of this user too, and expiries, each with its push.

`Fail` is a request answered 500, after any of its commands. `FailsAfter` says what it may have done by
then: nothing; half of it, without a push (`HalfWay`: units reserved and no row saved, as in
`UpdateCartItemQuantity.ts:107`, or the row saved and the survey of lines 71-76 failing; rows released and not
deleted, or both); an add rolled back, with its push (`RolledBack`); an order saved and the cart not emptied, or
emptied and only some counts broadcast (`SoldHalfWay`). So failures can strand units or have them twice, as
they do in the code; `MaxUnits` bounds to how many (`Within`). `ElsewhereFails` is the
same of everybody else, and the seed of a boot: a change without a push.

`ScreenSync` adds two history variables that no action reads. `unheard` has the items whose count changed without
being sent to the tab: no push, and no failure after which the tab loads its page again (add and edit, if
the item is on it); or whose page failed to load. `unsure` has the users whose cart was changed by a request
that failed or by another tab, or failed to load. Whatever is sent takes its item or user out again. `Tab` and `Others` split
the next-state relation: `impatient` has a tab alone in the shop, `one_click_at_a_time` has both.

`Patient`: does the user wait for answers? `Reliable`: does everything arrive, in
order? Pushes keep their order on the socket in any case; a reply may overtake
one or be overtaken. A socket that disconnects loses pushes, one at a time. `MayFail` names
the kinds of requests that may fail.

## 3. The runs

`CHECK_DEADLOCK FALSE` appears in the runs of `FlashSale` and `Shop` only: a run has finitely
many requests and rests when all are answered. The storefront never rests.

### Runs that pass

| Run | Question | Bounds |
|---|---|---|
| `any_ops` | Whatever interleaves, fails and crashes, is the counter non-negative and does every handler keep to its user's rows? | 2 users, 1 item of 2 units, 3 requests of any kind, 1 expiry handler at a time, 1 crash, failing saves, lost replies, failing expiry handlers, lost notifications |
| `hot_item` | Do racing adds and increases, with failing writes, a crash, and a Redis that comes back with any of its old states (and without some of its keys), ever promise more than the catalogue has, and does the seed make up for crash and restart? | 1 user, 3 units, 3 requests of 1 or 2 units, 1 crash, 1 restart of Redis |
| `abandoned` | Is every row, at all times, on its way out? | 2 users, 2 units, 3 requests, 2 expiry handlers at a time |
| `per_cart` | When the calls and expiries of *one* cart do not overlap, do all the carts together implement the ledger, and does every unsold unit return? | 2 users, 2 items of 2 units, 3 requests of 1 or 2 units, failing saves and orders |
| `one_at_a_time` | Does every handler that reaches its end broadcast the counter it leaves, whatever failed before, and are only those counts stale that a handler which died or a boot left? | 2 users, 2 items of 2 units, 3 requests of 1 or 2 units, one handler after the other, every kind of failing command, lost replies and notifications, 1 expiry handler at a time, 1 crash |
| `shop` | Do accounts, units, catalogue, pages and prices stay right while logins race and the reset script runs, or dies, under the handlers? | 2 logins of one name, 3 items per `insertMany` and 2 of these, 3 requests of any kind of 1 unit for one item of each, pages of at most 2, 1 reset, 1 death, the calls of one cart one at a time |
| `one_click_at_a_time` | Does the tab of a user who waits for answers show his cart and the live counts after every click, but for what it cannot know? | 1 user, 2 items of 1 unit on 2 pages, 2 requests and 1 push under way; requests of every kind may fail, at any point, here and in other tabs, and make 1 unit more of one item |
| `impatient` | What survives a user who does not wait, answers out of order, lost pushes, failing logins and increases? | `OnlyTabSpec`: nobody else moves units; 1 user, 2 items, 2 requests under way, 2 timeouts per line |

Why the bounds are enough: the races of this code are between two handlers over
one row, or one counter. Three requests make a row and let two others act on it.
Quantities 1 and 2 distinguish a whole row from a part of it.
A second user or item matters only to properties that separate or sum them. One
crash is enough to reach the seed with every combination of half-done handlers;
after it the same steps start from a state of the same kind. One restart of Redis may go back to
any earlier state, since a snapshot may be taken after every step; a second one would start
from such a state. In `shop` one unit per call suffices because an add and an increase make a row of two,
and two rows of one item; three items make two pages of unequal length; the one reset
meets handlers at each of their awaits, and its death leaves each of its states behind. In `one_at_a_time`
three requests and the expiries of what they leave fail one after the other at every command, so a handler starts
from every state that two failures before it leave. In the storefront runs the tab has one user (another
user's tab is `Elsewhere`), and a second item is one on another page; one unit that should not be there is
enough to make a count wrong in either direction. Each property has a
mutant in `PROJECT.json`, a plausible slip in the code, that breaks it within the
same bounds; the mutated operators stand before the originals and are marked as
mistakes.

What each property of `shop` says: `OneAccountPerName`, of racing logins; `ResetNeverOversells`, that
no unit of any item, of the old catalogue or the new, is in two places, at any step of the script;
`OpensWithFullStock`, that when the script is done no unit of the new catalogue is missing;
`CatalogueNotDoubled`, that boots and resets never insert the demo items twice;
`PagesCover`, that every item is on exactly one of the pages announced; `ChargedWhatWasSold`, that an
order costs what the rows it sold cost, and that the cart view agrees.

`hot_item` leaves out operations that release, since overlapping releases of one row
do break the sum (`two_decreases` below). `abandoned` leaves out decreases for the same
kind of reason (section 5: the row a partial decrease recreates).
In `hot_item`, `NoOversell` counts what a reserve could take: while Redis does not know the script,
nothing. That is the point: the counters of an old snapshot exceed what is left, and it is
the NOSCRIPT error that keeps them from being sold until a boot has seeded them. A service that loaded
its script on demand (`ScriptLoadedOnDemand`, a mutant) would oversell. `per_cart` is the strongest statement the code
supports: take away its discipline and one of the next runs applies.

### Runs that disagree with the documents

Each checks one statement of a document or comment and TLC finds it violated; the
counterexample is short and every step of it is a step of the code.

| Run | Statement | What the code does |
|---|---|---|
| `restart_resells` | a restart cannot double-count (`ARCHITECTURE.md:84-85`) | one handler at a time (no race is involved), an add, a checkout and a restart: the seed subtracts cart rows from `totalStock`, not orders: after a restart what was sold is for sale again |
| `two_checkouts` | stock can never oversell (`README.md:3-4`) | two overlapping checkouts of one cart both sell its rows |
| `expiry_checkout` | a later expiry cannot credit sold stock (`Checkout.ts:25-26`) | the key expires before `clearReservationKey`, and the handler finds the row before `deleteByUser` |
| `two_decreases` | never release more than is reserved (`UpdateCartItemQuantity.ts:126`) | two overlapping decreases each release what their own snapshot holds |

### Fairness

Only liveness runs use it. Backend: the event loop and the stores answer every
command (`WF` of each request's steps), Redis expires every key whose life has
ended and the subscriber runs the handler (`WF` per key and per handler), a
crashed server is restarted (`WF(Boot)`). Nothing obliges a client to call. The
fairness of an expiry handler is per key and life, so that one handler's progress
does not excuse another's delay. Browser: it runs every timeout it has been given
(`WF(Dismiss(i))`, `setTimeout`); replies need not arrive.

## 4. The proofs

Proved for every set of users, items, names and batches, any finite set of requests, any stock and
any quantities. The named assumptions say only what the constants are: `TotalStockAssumption`,
`MaxRedisRestartsAssumption` and `CatalogueAssumption` (naturals are naturals, the default limit is no more
than the largest), `NoneAssumption`, `RowAssumption` and `EnvironmentAssumption` (`None` is nothing
else, finitely many requests), `ShopAssumption` (the batches are of items, and not empty),
`FreshIdsAssumption` (Mongo's ids are unique), `StorefrontAssumption` (every page has an item).
What a theorem assumes beyond these is in its statement and in this table.

| Theorem | Property | Hypothesis |
|---|---|---|
| `FlashSale_proof!TypeCorrect` | `TypeOK` | none |
| `FlashSale_proof!NeverNegative` | `StockNonNegative` | none |
| `FlashSale_proof!CartsStaySeparate` | `CartsAreSeparate` | none |
| `Oversell_proof!RushNeverOversells` | `NoOversell` | `BuyingOnly`: adds and increases, no save whose reply is lost, no expiry handler |
| `Oversell_proof!SeedAlwaysReconciles` | `SeedReconciles` | `BuyingOnly` |
| `Ledger_proof!OneCallPerCartImplementsLedger` | `ImplementsLedger` | `OneCallPerCart`: one handler per cart at a time, no crash, no restart of Redis; failures of `add`, `reserve`, `release`, `order`, `undoDrop`, `get`, `survey`, `refresh`, `notify` |
| `Lifetime_proof!NoRowOutlivesItsKey` | `NoImmortalRow` | `UneditedCarts`: adds, removes and checkouts, no key expires under its own request, no crash, no restart of Redis, no lost reply or notification, no failing delete or expiry handler |
| `Broadcast_proof!ClientsStayInSync` | `ClientsInSync` | `OneHandlerAtATime`: no two handlers at once, no restart of Redis; every failure, lost reply, expiry and crash |
| `Shop_proof!OneAccount` | `OneAccountPerName` | `None` is no name; trimming yields a name or `None` |
| `Shop_proof!CatalogueStaysSingle` | `CatalogueNotDoubled` | none |
| `Shop_proof!PagesAlwaysCover` | `PagesCover` | none |
| `Shop_proof!CartsStaySeparateInShop` | `CartsAreSeparate` | none |
| `Shop_proof!OrdersChargeWhatTheySold` | `ChargedWhatWasSold` | none |
| `Reset_proof!ResetsNeverOversell` | `ResetNeverOversells` | `CartsOneAtATime`: one handler per cart at a time, expiries included; no failing `drop`, `delete`, `shrink`, `clear`, `empty`, no lost `reply`, no failing expiry handler (`expire`) |
| `Reset_proof!ShopOpensWithFullStock` | `OpensWithFullStock` | `CartsOneAtATime` and `Lossless`: no failing `undo` or save of an `increase` |
| `Storefront_proof!TypesAlwaysRight` | `TypeOK` | none |
| `Storefront_proof!LineErrorsAlwaysTimed` | `LineErrorHasTimer` | none |
| `Storefront_proof!ScreenStaysInSync` | `ScreenInSync` | `Patient`, `Reliable`; every failure, here and in other tabs |

"None" includes every setting of failures, crashes, restarts of Redis, concurrency and expiry. The run that
checks a property satisfies the hypothesis of its theorem. Outside the hypotheses lie the counterexamples of section 3
and the weaknesses of section 5: overlapping edits of one row, lost replies and notifications, handlers
side by side, a user who does not wait.

**Backend.**

* *Types and signs.* `TypeOK` is not inductive: that `SaveRow` writes a positive quantity depends on what the
  locals held when the handler got there. `Inv` adds `LocalsOK` (what each `pc` implies about the locals: whoever
  saves has a positive quantity, whoever shrinks releases less than the row had) and `HandlersOK` (an expiry
  handler past its find has a row). One lemma per action; `InvNext` puts them together. `StockMoves` lists the
  only five ways a step changes a counter (not at all, a reserve, a release, the seed, back to the snapshot);
  each preserves the sign: the reserve because of the script's check, a release because what it adds is
  non-negative, a restart because the snapshot was taken of non-negative counters.
* *Carts.* A request that has arrived never changes its user or item (`Kept`, an action property), and every row
  in Mongo, in a snapshot, in an order or with an expiry handler carries the user and item of the request its id
  names (`Separated`, by where it is). So an upsert never reaches into another cart, even when it recreates a row.
* *Sums.* `QtyOf` is the cardinality of a set of units, so that facts about sums are facts about disjoint
  unions: `FlashSale_proof` proves what a row more, a row less, or a row of another quantity does to it.
  `Accounted` says of each item that its counter, its rows and the units in handlers' hands are within the catalogue, each
  unit counted once; while Redis does not know the script no reserve can use a counter that is too high, which
  is why the theorem survives a restart of Redis. `SeedReconciles` is part of the same invariant.
* *Refinement.* `LInv` says that one handler serves a cart (`Alone`), so that the snapshot of rows a
  handler works from is what the store holds (`Snapshots`), that a key belongs to a request that has come, and
  that an expiry handler under way is alone with its cart (`ExpiryKnows`). Then every action is matched with a
  ledger step or a stutter: the reserve takes units into the cart (`Take`), a release puts them back (`GiveBack`), the saving of an
  order sells the cart whole (`Sell`), and all others leave what users hold unchanged, because what a handler has
  in hand (`Mine`) makes up for what the store still shows or no longer shows.
* *Lifetimes.* `LifeInv` says of every handler that may still write a row that its key is there: a row is
  written only by the request of its id, a key that has expired never comes back, and whoever has dropped a key
  deletes the row next.
* *Broadcasts.* `SyncInv` says what the one handler under way owes: of all items but its own the counts shown are
  the live ones or `unheard`, and of its own it has in `rem` what the counter will be when it broadcasts, or has yet to
  read it, or holds the units by which it is off. Where it throws, its item becomes `unheard` if
  the count is wrong then; where it ends, it has broadcast the right one.

**Shop.**

* *Accounts.* `ShopImplementsAccounts`: every step of the shop is a step of `Accounts` or leaves it alone.
  `AccountsInv` adds that a login between its two commands has a name; `UpsertKeepsNames` is the step that
  matters, and is where the unique index is used.
* *Catalogue.* `CatalogueInv`: the collection followed by what is still to be inserted is one batch
  (`OneBatch`); it is complete unless somebody died (`Complete`); whoever counts or inserts does so after the wipe
  (`Emptied`).
* *Pages.* No induction: an item at place k is on page (k - 1) \div limit + 1 and no other; the announced
  number of pages is the one that reaches Len(items) and no more.
* *Bills.* `ShopInv` repeats the backend's invariants around lookups, prices, boots and resets.
  `ChargedInv` says that a checkout which has priced its lines is about to sell exactly those rows.
  That a total over the lines is the total over the rows is `BillIsWorth`: a least counterexample, by the well-order of the naturals, stands
  in for the induction that the provers lack.

**Resets** (`Reset_proof`). The script deletes rows, counters and orders while handlers hold copies of
those rows and units of those counters, so neither sum above survives it, and "units in carts" alone is not
inductive: a handler that has read a row credits, sells or rewrites it after the script has deleted it.

* *Claims.* A unit counts where somebody will still dispose of it: `Claims` are the rows that stand in the
  store (nobody is about to delete or shrink them), the rows that handlers carry from their find to their
  release or sale, and the rows of expiry handlers about to release. As a set of rows it counts once a row that
  both the store and a handler have, and still counts one that only the handler has, because the script has
  wiped it. `Promised(i)` is the counter plus what is claimed, plus what handlers hold between a command on
  the counter and the write of the row, plus what is sold.
* *The invariant* `Reckoned` is `Balanced` with `Books`. `Balanced`: `Promised(i)` is at most the total, is 0
  for an item that is still to be opened (in a later batch, still to be inserted, or created by a reset that has
  not seeded it), and is exactly the total for an item that is settled (in the catalogue of an
  open server, or seeded by the script). `Books` says what handlers know: a copy of a row is the row of
  the store or that of a wiped item (`Match`), a cart has one handler, before the server opens there are no
  carts, and what the script has listed are the items there are.
* *The steps.* A handler's step in one cart leaves the claims of all others (`Foreign`), so only its own part of
  the sum has to be reckoned. A row that a reset deletes either passes to the handler that
  holds a copy of it, or nobody claims its units any more: the sum falls, which is why the bound is an
  inequality for items that are not settled. Deleting an order may give its rows back to the claims (a checkout that
  has sold a row has not deleted it yet), which are then no more than what was sold. Seeding a counter is safe because
  its item is unopened: nothing of it was promised, since a batch has fresh ids.
* *The last step.* The properties count rows in carts, less what handlers are about to cut off them, not claims:
  `InCartsAtMost` bounds the one by the other and `InCartsExactly` equates them for settled items.
* *Why the hypotheses.* Two handlers in one cart both credit the row that each has read (`two_decreases`), and a delete or a
  save that fails after its credit leaves a row whose units are for sale. A failing `undo` or `increase` only strands
  units, so that the bound does not need `Lossless` and the equality does. `shop` satisfies both hypotheses; TLC
  checked the new parts of `Reckoned` as invariants on its bounds before they were proved.

**Storefront.**

* *Types and timers.* A timer is set when an edit is answered by a rejection, so `MaxTimers` bounds
  nothing by itself: `TimersBounded` counts, per line, the timers and the edits still under way, as a request or
  as a reply. Taking a message out of a sequence is a bijection between index sets, which gives its count.
* *Screen.* `ScreenInSync` speaks of quiet moments only. `SyncInv` says what is under way at the others:
  of each item that is not `unheard`, the last count that travels is the live one, or a reload is still to be asked
  for or answered (`Reloading`), or, if neither, the one shown is (`Live`); and the
  cart shown is right, or `unsure`, or the reply that will correct it is coming, or the reply that will ask for it
  (`CartSync`).

So every safety property of every passing run is the statement of a theorem. Only model-checked is liveness
(`AbandonedCartsRelease`, `StockReturns`, `LineErrorsAreBrief`), which is out of the prover's reach. The violations of
section 3 are counterexamples and need no proof.

## 5. What is not modelled, and known weaknesses

Not modelled: status codes; the text of error messages; the validation of an item's fields; two
administrators at once; crashes of the server in `Shop`; a find and a count of one listing
that see different catalogues; a command of ioredis executed twice (below).
In `Storefront`: the loss of an HTTP reply on its way back, a reload while requests are under way, the expiry of the tab's
own cart, pushes of one request that arrive apart, and a listing whose counters are
read one by one while others change.

Weaknesses met while modelling that no run asserts the contrary of, either because the
documents accept them or because no document speaks of them:

* A lost notification leaves a row, and its units, for ever (`ARCHITECTURE.md` section 3 accepts
  this), and the seed keeps subtracting that row.
* Two overlapping increases of one row write base plus their own delta each
  (`UpdateCartItemQuantity.ts:106`): one delta stays reserved without a row. `NoOversell`
  shows that this never becomes stock that is not there; it is lost until the next boot.
* An increase renews the key of a row whose expiry handler is already under way; the row is
  deleted all the same (`ExpireReservation.ts:37`).
* A partial decrease that overlaps the expiry of its row recreates the row with its upsert
  (`UpdateCartItemQuantity.ts:140`), without a key, and nothing will ever delete it. `abandoned` without
  decreases is the strongest form of `AbandonedCartsRelease` that the code supports.
* After a restart of Redis nobody can add or increase until the server is restarted, too
  (`StockReservationService.ts:59` never loads the script again). Rows whose keys are not in the snapshot
  stay for ever; their units are subtracted by every later seed (`ARCHITECTURE.md` section 3 accepts lost expiries).
* ioredis sends commands again that a lost connection left unanswered: an `INCRBY` or an `EVALSHA` may
  be executed twice. No document speaks of it, and the models have no such step.
* An add under way during a reset saves its row after the script has deleted the others: an orphan, of an item
  that is no longer there. `GetCart` does not show it, and every checkout of its user fails with "no longer
  exists" (`Checkout.ts:55`) until the row expires; if the script deleted its key, for ever.
* A checkout under way during a reset leaves its order behind after the script has deleted the others.
* An `insertMany` that is cut off is never completed: later boots count the items there are and insert none
  (`seedCatalogue.ts:294`). `CatalogueNotDoubled` says that what is there is a proper beginning.
* A boot and the script, or two scripts, that both count zero items insert the catalogue twice.
* Two overlapping adds may broadcast in the other order (`AddToCart.ts:88`): clients keep
  the older count. `ClientsInSync` is checked for operations that do not overlap.
* A listing's reply may be overtaken by a push and overwrite newer counts
  (`cart.service.ts:101`): with `Reliable = FALSE`, TLC violates `ScreenInSync`.
* A handler that throws after it has changed a counter does not broadcast: an increase whose save fails
  (`UpdateCartItemQuantity.ts:107`) or an edit whose survey or refresh does (lines 71-76), a remove, checkout or expiry that
  fails half-way. Nor does the seed of a boot. `ARCHITECTURE.md:135` has "Every mutation that
  changes availability (add / remove / checkout / expiry) calls the `StockBroadcaster`". Clients show the old count
  until the item's next broadcast, or until they load its page. `ClientsInSync` exempts these items (`unheard`) and no others.
* A remove, an edit or a checkout that fails half-way may have changed the cart, and the tab does not load it again
  (`cart.service.ts:147,162-166,190`): it shows lines that are gone, or were sold, until the next success. After a
  failing remove or checkout it does not load the items either. Of what another tab does to its user's cart a tab hears
  nothing. `ScreenInSync` exempts these (`unsure`, `unheard`) and no others.
* A cart that fails to load is not asked for again (`cart.service.ts:121-126`): the tab shows the older one,
  without an error, until the next operation succeeds. A page that fails to load is not either.
* The "+" of a cart line whose item is not on the page shown is disabled
  (`cart-drawer.component.ts:124`), although the item is in stock.
* A checkout or cart reply that arrives after a logout is shown to whoever is logged in
  by then (`cart.service.ts:187`).

## 6. Plan

1. Done: `StockReservation` with the life of Redis, `FlashSale`, the ledger and its refinement,
   `Storefront`, `Accounts`, `Catalogue`, `Shop`; a theorem for every safety property of every run.
2. Models: the listing's counters read one by one in `Storefront`; crashes in `Shop`, and with them the seed
   of a boot under `Reckoned`.
3. Proofs: weaker hypotheses where a counterexample leaves room, first a Redis restart in `Lifetime_proof`.
