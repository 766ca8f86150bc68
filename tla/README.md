# A verification project for the BeeZee connector

The repository (`src/`) is a Hummingbot connector for the BeeZee chain: it
places and cancels limit orders as signed Cosmos transactions, learns what
became of them by polling the chain's REST interface, and credits the
account's trades to its orders. There is no private stream and the chain does
not tell a client which order id its transaction created, so the connector
reconstructs both from what the listings show. That reconstruction, and the
sharing of one account sequence by concurrent transactions, is where the
program is hard; the TLA+ modules here model it, TLC checks it on small
instances, and TLAPS proves their safety, down to the decimals and bytes of a single
order, for every value of the constants.

All paths below are relative to
`src/hummingbot/hummingbot/connector/exchange/beezee/`. Short names:
*exchange* is `beezee_exchange.py`, *data source* is
`beezee_api_data_source.py`, *book source* is
`beezee_api_order_book_data_source.py`, *utils* is `beezee_utils.py`, *tx* is
`beezee_tx.py` and *signer* is `beezee_signer.py`.


## 1. Inventory

Everything runs on one asyncio event loop: code between two `await`s is atomic,
and any other task may run at an `await`. Nothing is written to disk by the
connector itself; Hummingbot saves the tracked orders.

### Account sequence and broadcast (data source, exchange)

*State.* `_account_info_lock`, `_cached_account_number`,
`_next_account_sequence`; one instance, because the exchange caches the data
source it builds.
*Operations.* `get_account_info` (a request to the node),
`reserve_account_info_sequence` (hands out the cached sequence and advances it,
or fetches it first), `reset_account_sequence`,
`broadcast_create_order`, `broadcast_cancel_order`, and in the exchange the
two-pass retry loops around them that react to a sequence mismatch.
*Interactions.* Called by every concurrent `_place_order` and `_place_cancel`.
The node checks a transaction against its committed state plus its mempool.
*Hard.* The lock covers the reservation but not the POST, so transactions can
arrive out of order; resets by one request invalidate what another holds; a lost
answer leaves the caller not knowing whether the transaction was admitted.
*Correct when* a sequence is handed out once between two resets, a request has
at most one transaction admitted in spite of the retry, what it reports agrees
with what was admitted, and every request ends with the lock free.

### Order placement, cancellation and status (exchange)

*State.* `_creation_tx_hashes`, `_cancel_tx_hashes`, `_create_order_specs`,
`_pre_create_order_ids`, and the tracker's view of each order (state, exchange
id, executed amount).
*Operations.* `_place_order`, `_place_cancel`, `_request_order_status` with
`candidate_order_ids` and `get_market_order` of the data source and
`_log_unresolved_order_id`.
*Interactions.* Hummingbot's tracker calls them and applies what they return;
the status poller and every cancel task run `_request_order_status`, possibly for
the same order at once. They read listings, order details and transactions.
*Hard.* The native id is guessed from "looks like it, was not there before, not
claimed"; every fact is read at a different `await` from where it is used; a
cancel is admitted long before it is executed, and may fail; a restart empties
the dictionaries but not the tracker.
*Correct when* two live orders never share an id, CANCELED is reported only on
a confirmed cancel transaction of that order and FAILED only on a failed one, a
cancel names its own order, nothing reported as canceled is still on the book,
and a confirmed cancel ends the order.

### Fill allocation (exchange)

*State.* `_processed_trade_ids_by_order`, and the fills the tracker keeps.
*Operations.* `_update_orders_fills`, `_allocate_trade_updates`,
`_all_trade_updates_for_order`.
*Interactions.* Run by the status poller; the tracker lists the orders and
deduplicates updates by trade id.
*Hard.* Trades name accounts, not orders, so trades at one side and price are
dealt to the orders there by age; two equal trades of a second have one
fingerprint; the history is a window; the list of orders is read before the
history is awaited; a restart forgets what was processed.
*Correct when* no trade is credited beyond its amount, an order alone at its
price is credited with its own trades and no others, none is dropped, and none
is older than the orders at its price.

### Order book polling (book source)

*State.* `_trading_pairs`, `_last_books`, `_seen_trade_ids`, and the
message queues.
*Operations.* `listen_for_subscriptions` (websocket, fallback, sleep),
`_listen_new_blocks`, `_poll_and_publish`, `_diff_levels`,
`subscribe_to_trading_pair`, `unsubscribe_from_trading_pair`,
`_order_book_snapshot`, `get_last_traded_prices`.
*Interactions.* Calls the data source's `get_order_book` (bids, then asks) and
`get_market_history`; feeds Hummingbot's order book tracker.
*Hard.* A poll is a chain of `await`s over the pairs, any of which may fail half
way; pairs come and go while a poll runs; the node answers newest first in a
bounded window.
*Correct when* snapshot plus diffs are the last polled book, trades come out
once and in order, and a trade is published as long as the node shows it.

### Markets, symbol map and balances (data source, utils, exchange)

*State.* `_metadata_by_denom`, `_symbol_map`, `_markets_by_id`; the published
balances.
*Operations.* `get_all_markets`, `get_symbol_map`,
`get_market_by_trading_pair`, `get_denom_metadata` with its two fallbacks,
`unique_market_symbols`, `market_from_data`, `_update_balances`.
*Interactions.* Every other part looks up its market here. The trading rules
poller refreshes; at the start several tasks find nothing cached and load at once;
the balance poller asks for metadata on its own.
*Hard.* Loads overlap with one `await` per denomination, and the last to end
wins; a failing metadata request leaves an empty entry, or replaces a good one;
names depend on the order of the listing; balances and dust are two requests.
*Correct when* map and markets are of one listing and one state of the metadata,
a listed market becomes and stays known, a failing moment does not leave held
tokens with the wrong scale for good, and the balances come to be what is held.

### Orders as numbers and bytes (utils, tx, signer)

*State.* None of its own; the order between `_place_order`, the chain and the fill
poll.
*Operations.* The scalers, quanta and increments of a market,
`display_amount_to_chain`, `chain_amount_to_display`, `display_price_to_chain`,
`chain_price_to_display`, `minimum_order_size_for_price`; the message and
transaction encoders; `fee_amount_from_gas`; `bech32_encode`.
*Interactions.* `_place_order` checks the size and sends the transaction;
`_request_order_status` and `_allocate_trade_updates` compare what the chain shows
with what was asked, prices as text.
*Hard.* Exponents that differ in both directions, rounding at the smallest size,
the digits a Decimal prints after a division, lengths on both sides of 127.
*Correct when* the chain reads the order that was asked for, accepts what the size
check lets pass, would refuse what it does not, and its trades are recognised as
the order's and add up to it.

### Other sequential parts

| Part | State and operations | Correct when |
|---|---|---|
| Fees and trading rules (exchange) | `_get_fee`, `_update_trading_fees`, `_format_trading_rules` | maker and taker fees are not swapped |
| Hashes, secp256k1, base64 | library calls | |
| Keys, mnemonics, configuration | pure, on strings | derivation follows BIP39/BIP32 |
| User stream, authentication, rate limits, factories | placeholders and constants | |

The hazards, each at its line and with the properties that cover it, are in
`PROJECT.json`. Section 8 names the ones no property covers yet.


## 2. Modules

| Module | Role |
|---|---|
| `AccountSequence` | the reservation lock, the sequence cache, the retry loop and the node's check |
| `BroadcastOnce` | what a broadcast promises its caller; `AccountSequence` implements it |
| `OrderLifecycle` | place, cancel and status of orders against the chain and the tracker |
| `FillAllocation` | polling the history and dealing its trades to orders |
| `PriceFills` | what the polls promise about executed amounts; `FillAllocation` implements it |
| `OrderBookPoll` | the loop of the book source and its poll |
| `Markets` | concurrent loads of the market cache, metadata and its fallbacks |
| `Conversions` | decimals, and amounts and prices between display and chain |
| `Transactions` | the protobuf encoding of a signed transaction, and a reader of it |
| `Bech32` | the address of a key; a checksum is the set of its bits that are one |
| `OrderRequest` | one order through conversion, encoding, the node, its trades and the credit |
| `MC<module>` | constants of the TLC runs |
| `AccountSequenceProofs`, `OrderBookProofs`, `MarketsProofs` | theorems and proofs of one module each |
| `OrderLifecycleProofs` | of `OrderLifecycle`: types and confirmed cancels; who holds which id, reasons of failures, targets of cancels |
| `FillProofs` | of `FillAllocation`: types and single orders; trades divided between orders |
| `EncodingProofs` | of `Conversions`, `Transactions` and `Bech32`: what was written is what is read |
| `OrderRequestProofs` | of `OrderRequest`, on top of `EncodingProofs` |
| `FoldLemmas` | least elements, finite sets, folds, sums, recursion and iteration, for the proofs |

The modules meet at three places. `OrderLifecycle` takes a broadcast as the
single steps "admitted" and "answered or lost", which is what `BroadcastOnce`
allows and `AccountSequence` is shown to implement. And `OrderLifecycle` takes a
trade update as any growth of the executed amount that the account's trades at that price
allow, up to the amount of the order: that is `PriceFills`, order by order, which
`FillAllocation` is shown to implement. (`FillAllocation` can credit an order beyond its
amount in one poll of several trades; it is complete either way.) `OrderRequest` composes
`Conversions`, `Transactions` and `Bech32`; `OrderLifecycle` and `FillAllocation` take
from it that an order looks on the chain as it was asked, and that a trade's price is
recognised.

### AccountSequence

A *request* is one call of `_place_order` or `_place_cancel` from its retry
loop on. `pc` follows it:

| `pc` | In the code |
|---|---|
| `acquire` | before `async with self._account_info_lock` |
| `fetching`, `fetched` | inside the lock, awaiting `get_account_info` (asked; answered) |
| `signed` | sequence reserved, transaction signed, the POST on its way |
| `accepted` | the node admitted it, the answer is on its way |
| `resetting` | mismatch seen on the first pass, before `reset_account_sequence` |
| `done`, `failed`, `unknown` | returned; raised; raised because an answer was lost |

`ReserveCached` is one step since there is no `await` between taking and
releasing the lock when a sequence is cached. `Mismatch` fails the request on
its second pass. `issued` and `admitted` are history variables.
The node's part: `CheckTx` admits a transaction whose sequence is committed plus
mempool; `AccountQuery` answers with the committed sequence only; `Commit` takes
a prefix of the mempool; `OutsideTx` is another wallet of the same account.

### OrderLifecycle

| Action | In the code |
|---|---|
| `Place`, `Snapshot` | `_place_order` up to the ids listed before the create |
| `CreateAdmitted`, `CreateAnswer`, `PlaceFails` | the broadcast, its answer (hash and spec stored, exchange id = hash), its failure |
| `StartPoll`, `ReadRefs`, `Resume` | `_request_order_status` up to the paged listing of open orders; the listing and the code after its `await` are separate steps |
| `Recover` | for an order whose spec was forgotten the `get_tx` of its create, then the listing of candidates |
| `ReadDetail`, `Conclude` | the loop over the candidates, one `get_market_order` a step, and what follows it |
| `ChooseTx`, `ReadTx` | the choice of the transaction, `get_tx` and the decision of the state |
| `Cancel`, `CancelAdmitted`, `CancelAnswer` | `_place_cancel`; without a native id it first runs a status request of its own |
| `TradeUpdate` | the fill poller |
| `Restart` | the dictionaries and the tasks are gone, the tracked orders are not |

`req` holds the local variables of each running status request, one for the
poller and one per cancel task. Several instances of `_request_order_status` thus
interleave with each other and with `_place_order`.

Taken from Hummingbot and the chain, outside this repository, and marked external
in the map:

* The tracker ignores updates to orders in a terminal state. An update either
  sets the exchange id only when there is none or replaces it; `ReplaceId` says
  which choices a run admits, and the safety runs that matter admit both.
* `_place_cancel` returning True makes the order PENDING_CANCEL, as the
  connector declares cancels not synchronous.
* What `_request_order_status` returns is applied without a further `await`.
* An admitted transaction is executed once, in mempool order, and may fail.
  It is not evicted from the mempool.
* Order ids grow. A listed order shows the amount that is left.
* A paged listing is read in one step. A detail or transaction answer is read in
  the step that resumes with it.

### FillAllocation

`StartPoll` keeps the list of fillable orders, `ReadHistory` is the answer of
the node, `Allocate` is everything after it: sorting, `_allocate_trade_updates`
for each bucket and the tracker applying the updates. A history is a set of positions
in `trades`. The loop over the trades is a fold that takes the latest after all the
others (`Before`: by second, then by hash). The inner `while` is a fold over the orders
of the bucket, oldest first: each pass ends the trade, leaves the loop by its `break`,
or advances `order_index` (`from`), so one visit of each order in turn is the loop.
Prices are buckets, amounts are lots; fees are left out.

Assumed of the outside: the trades of one second are those of one block and show
together once that second is over; trades of one second are ordered by their
hashes, in an order that does not change (`hash`); client order ids grow with
time; the tracker keeps fills over a restart and drops updates with a trade id
it has; one trading pair; the account does not trade with itself.

### OrderBookPoll

`link` is where `listen_for_subscriptions` stands, `todo` the pairs a poll has
left and `step` the request it awaits. `ReadBids` and `ReadAsks` are the two
requests of `get_order_book`, with whatever the market does in between;
`ReadAsks` publishes. `PollFails` is an exception of any of the three requests:
it ends the poll for the remaining pairs and, while listening, the listening.
`stream` and `tape` are history variables for what the queues carry: the book
that the snapshot and the diffs build, and the positions of published trades.

### Markets

`load[c]` is the running `get_all_markets` of task `c`, with the listing it read
and the denomination it asks for; `Continue` is the loop from one `await` to
the next, and ends in `Cache`, which replaces map and markets together. `Get`
is a lookup that finds nothing cached; a lookup that does only reads and is no
action. `Refresh` is `_format_trading_rules`. `value` is the running
`_update_balances`: `UpdateBalances` reads the bank, `ReadDust` the dust, and
`ValueHolding` is the answer for a holding without metadata. Of the published balances
the model keeps the amounts read and the metadata each was valued with; `Published` is
the sum by symbol, in which an amount taken as raw units counts `RawScale` times.
`PayDust` moves dust that has grown to a unit into the bank. A denomination's metadata is `"absent"` (no entry),
`"raw"` (`{}`) or `"known"`; the native denomination's synthesized fallback counts
as known. Assumed: symbols have no dash, the hashes of denominations differ, the
pages of a listing are read in one step.

### Conversions, Transactions, Bech32 and OrderRequest

A `Decimal` is a coefficient and an exponent, as in Python, since its text shows both;
`Text` and `Read` are `format(x, "f")` and `Decimal(text)` over character codes. Bytes
are numbers, messages sequences of them. A signature is a copy of the key and the
document; hashes of keys are given. The reader of the node (`Fields`, `Field`,
`VarintAt`) is written from the wire format and not from the encoder, and `Decoded`
from the definition of bech32, so that encoder and reader can disagree. The reader is cut into operators with
parameters where a LET would do, because TLC's coverage unfolds every use of a LET.
Decimals, varints, fields, `_convertbits` and the checksum are recursive functions; a
30-bit checksum is the set of those of its bits that are one, so that `^` is symmetric
difference, and the 12-bit accumulator of `_convertbits` is a number modulo 4096.

| Action of `OrderRequest` | In the code |
|---|---|
| `Place` | `_place_order`: the size check, `display_price_to_chain`, `broadcast_create_order` |
| `CancelOrder` | `_place_cancel` with a known id, `broadcast_cancel_order` |
| `DeliverCreate`, `DeliverCancel`, `Trade` | the node: checks signature, fee, sender and size, keeps the order, trades it |
| `Credit` | `_allocate_trade_updates` for the only order of its bucket |

Assumed: Hummingbot rounds prices and amounts to the increments of the trading rules;
the node refuses an order when half of its amount is worth less than a unit of the
quote token, which is what `minimum_order_size_for_price` is written for; it shows
prices as they were sent; exponents do not change; the account number is not zero
(the node signs a zero as a missing field). `RequestAssumption` says the rest: prices
and amounts are positive multiples of their increments, names, ids, keys and hashes are
byte strings of any length, the gas price is a nonnegative decimal.


## 3. Runs

Sizes were chosen so that the interesting case needs no more: two requests
suffice to collide, a third lets a reset hit a bystander; two orders suffice
to confuse ids or to divide a trade.

| Run | Instance | Question |
|---|---|---|
| `sequence_broadcasts` | 3 requests, one foreign transaction, faults, fairness | types; the lock excludes queries; no sequence handed out twice; refinement of `BroadcastOnce`; every broadcast settles and leaves the lock |
| `sequence_concurrent` | 2 requests, no fault, no other wallet | are concurrent broadcasts admitted? **No** (finding 1) |
| `lifecycle_single` | one order and another client's order at the same price, amount 2, one cancel, one restart, faults, both id rules | types; CANCELED is confirmed; nothing canceled stays on the book; cancels name the own order; FAILED has a reason |
| `lifecycle_pair` | two orders at one price, one cancel, both id rules, no fault | claims are disjoint |
| `lifecycle_liveness` | one order, two cancels, another client at another price, fairness | a confirmed cancel settles |
| `lifecycle_twins` | two equal orders, one cancel each | does a cancel name its order? **Not always** (finding 2) |
| `lifecycle_pending` | one order, one cancel, no fault | does PENDING_CANCEL last? **Not always** (finding 3) |
| `lifecycle_created` | one order, one cancel, no fault | is the order announced once? **Not always** (finding 4) |
| `fills_polls` | two orders of two lots at one price, trades of one or two lots, window 2, 2 trades, 3 seconds, one restart, faults | credits stay within trades; a lone order gets its own trades, all of them; no credit is older than the orders at its price; refinement of `PriceFills` |
| `book_poll` | two pairs, a bid and an ask level, the bid of one pair moving, 2 trades, window 2, faults, fairness | the stream builds the book; the tape is in order; trades are published |
| `markets_load` | two markets with the same symbols, the one that comes first in the listing listed late; one task beside the refresher and the balance poller; faults, fairness | map and markets agree; listed markets become and stay known; metadata of held tokens is found; balances settle |
| `order_values` | one order and its cancel: 8 prices and 7 amounts, 4 pairs of exponents, 3 client ids, 2 keys, 2 trades | the order arrives as asked; the size check refuses with the chain; trades are recognised |

Notes on the bounds.

* `lifecycle_single` needs the foreign order at the same price: it is what an
  id could be confused with. It was there before the create, so it is
  among the ids read before. What a foreign order placed *during* the create
  does is the ambiguity of finding 2.
* `ClaimsDisjoint` is checked with two orders of equal price, the only case in
  which a candidate matches both.
* `CancelOnlyOwn` holds with one order and fails with two equal ones.
  `CanceledIsOffBook` follows the same line and is stated for one.
* `ConfirmedCancelSettles` is checked with two cancels, so that the second one's
  hash replaces the first's while a poll awaits the first. It asks for a known
  native id; an order that never got one is not bound to settle.
* Two trades with `HistoryLimit` 2 means that the window never hides a trade in
  `fills_polls`; what the window loses is a listed hazard without a property.
* `EveryTradeCredited` excludes the first allocation after a restart, for the
  reason its comment gives; `CreditsWithinTrade` speaks of runs without restart.
* `CreditsWithinTrade` asks that *every* order of the bucket that was dealt a trade is
  still listed (`Undivided`). That the orders credited with the trade in question are
  listed is enough for two orders and not for three, of amounts 1, 1 and 2 with trades of
  one lot: when the first leaves the list, its trade is dealt to the second, which then is
  full and passed over together with its mark, and the third, already credited with the
  second trade, gets the first one too. The property as it stands and the invariants of its
  proof were checked with such three orders as well; the run keeps two, which reach each
  case of the loop.
* `book_poll` moves one level of one pair, a bid, so that it changes between the
  two requests; two fingerprints and two trades give equal and different trades.
* `markets_load` has the later market come first in the order of the listing, so
  that it takes the other one's name; a token is held in the bank and as dust, so
  that one published total reads its metadata twice; one of it is dust that may be
  paid out between the two requests.
* `order_values` scales `DEFAULT_PRICE_SIG_DIGITS` from 10 to 2, so that values fit TLC's
  32 bits; exponents of 0 to 4 are then apart by less and by more than the digits of a
  price, in both directions, as 6 and 18 are with ten digits. The lengths of ids and
  names are those that take the message, the body and the sign document over
  127 and 128 bytes; the account number is 128, the first of two bytes.
* `FailedHasReason` speaks of an order that is placed and, after a restart, of one that
  still goes by its hash: its comment and a hazard say what becomes of the others.
* `CHECK_DEADLOCK FALSE` is set where every order, request or trade may be
  past and nothing is left to do. `book_poll` and `markets_load` check deadlock: their
  loops always go on.

Each property has a mutant in `PROJECT.json`: a changed definition (the
operators commented "Mutant" in the modules) with which TLC finds the property
violated under the same configuration.


## 4. Fairness

* *AccountSequence*: weak fairness of each request's steps. A task that can run is
  run by the event loop, and the HTTP client ends a call with an answer or
  an exception. Nothing is assumed of the chain: blocks may stop. There is no
  fairness of the lock, so a request may lose it repeatedly; the property holds
  because every request makes at most two passes.
* *OrderLifecycle*: weak fairness of the poller (it never stops, and each of its
  requests ends), of each started task, and of blocks. The run has no faults:
  a transaction whose `get_tx` fails for ever is never seen.
* *OrderBookPoll*: weak fairness of connecting (either way), of the sleep, and of
  starting a poll (blocks arrive while the websocket is up, and the fallback
  polls at once); strong fairness of a pair's requests: a request made again
  and again is answered some time, since a node that never answers cannot
  be heard.

* *Markets*: weak fairness of each load's and the balance poll's steps and of the
  refresher's start (pollers do not stop, requests end); strong fairness of the
  refresher's listing, of the dust request and of a found metadata answer for the
  balance poll: what is asked for again and again is answered some time.


## 5. What is proved

Every theorem holds for any values of the constants that meet the module's
assumptions: any number of orders, requests, pairs, levels, any bounds, with
and without faults.

**AccountSequenceProofs.** `TypeCorrect`, `QueryHoldsLock`, `ReservationsFresh`,
`ImplementsPromise`. The invariant `ReservationInv` joins three facts: a request
is in its query exactly while it holds the lock; with nothing cached nothing has
been issued since the last reset; every issued sequence is below the cached one.
None is inductive alone: that a fetched sequence is new needs that nothing was
issued, which needs that no one else could reserve or reset, which needs the
lock. The refinement adds `AdmissionInvariant`, which ties the number of
admissions to where the request stands.

**OrderLifecycleProofs.** `TypeCorrect` for the whole state machine, by lemmas on
what each returning branch of `_request_order_status` leaves in the tracker and in
`req`. `CanceledConfirmed`: the invariant `CancelInv` says that a hash kept by a
status request or in `_cancel_tx_hashes` is that of a transaction of this order, a
cancel hash that of a cancel, so that the only branch that returns CANCELED has
read the code of one that was executed; and executed transactions stay so.

`ClaimsExclusive`: disjoint claims are not inductive;
`IdentityInv` adds that the candidates and matches the poller keeps while it asks for
details, one `await` each, are claimed by no one. Only the poller writes native ids, and
it writes one of those. `FailedForAReason`: `ReasonInv` says that who goes by a hash goes
by that of a transaction, and that a request awaiting a transaction knows a create or a
cancel to judge it by, so that the code it reads is of a transaction of this order.

`CancelsNameTheirOrder` and `CanceledOffBook` have a hypothesis, `NoTwins`: tracked
orders differ in side, price or amount, no other client of the account places one that
looks like a tracked one later, and one that it has from before was created
more than the matching tolerance before the connector started. The instance
of `lifecycle_single` meets it, with another client's order of the same looks; that of
`lifecycle_twins` does not, and its counterexample (finding 2) shows that the hypothesis
is needed. The invariants are `TwinInv` (twins are old, and among the ids from before the
create as long as they rest and the create is remembered), `CandidateInv` (a candidate of
a remembered create is no resting twin; one found after a restart is told apart by
its time) and `TargetInv` (what an order holds, a request matched or a cancel names is the
order's own). `OffBookInv` then says that a confirmed create has one order on the book and
a confirmed cancel took its target off it.

**OrderBookProofs.** `TypesHold`; `StreamFollowsBook`; `TapeFollowsHistory`. `DiffRoundTrip`
shows that patching a book with the diff to another gives that other, for any books; with
it, every publication keeps `stream = last`. `TapeInv` gives each pair a last
trade that was read: the tape has trades up to it, in order, of different
fingerprints, all remembered as seen, and so are those the window still showed with it.
A history read later thus adds only trades beyond it, however far the window moved.

**FillProofs.** `TypesHold` for the whole state machine, the two loops included;
`OneTradeNeverOverfills`; `NoEarlyFills`; `SoleOrderWithinTraded`: `BackedInv` maps each
fill of an order to a trade at its bucket, one fill a trade, so that the fills sum to no more
than the trades; `AllTradesCredited`: `OwnInv` and `TrackedInv` say that what an
order traded and what it has left is within its amount and that its marks are among its
fills, so that an allocation never runs out of room before the trades of its history do.

`NoTradeOvercredited` is the property
`_processed_trade_ids_by_order` exists for. A trade that was dealt comes up again in later
polls, beside orders that are younger or fuller than they were, and is not dealt twice only
because the loop meets an order with its mark before any other with room. The
invariant `DealtInv` says so of each trade that was dealt, and that every trade still
shown that comes before it was dealt to an order no further back (`Settled`). It is kept for
a poll's stale list of orders and the tracker's list together (`Pool`), since either may be
dealt next. It needs that histories are of seconds that are over and have no gaps (`HistoryInv`), that
who is placed later is no older and not yet dealt anything (`AgeInv`), and that marks and fills
agree (`MarkInv`). The proof of an allocation follows the code: one pass of the inner loop
(`Walk`, `Halt`, `Spend`), all passes of a trade, all trades.

`ImplementsPromise`: a step of `FillAllocation` is a trade of `PriceFills`, a poll that
credits, or nothing, over restarts too: a trade may be dealt to an order again, but
the tracker has its fill (`BackedInv`), so that the fills of an order sum to no more than
the account's trades at its price. What a trade is credited with in all, after a restart, is
not bounded so (`CreditsWithinTrade` excludes it).

**MarketsProofs.** `TypeCorrect` and `CacheAgrees`. A load builds its cache only once
every denomination of its listing has an entry, and builds map and markets from that one
listing and one state of the metadata: `CacheBuildsConsistent` shows that whatever is
built so is consistent, in particular that `unique_market_symbols` gives different
markets different pairs, since a second market of equal symbols gets the plain pair
followed by its denominations, which is longer than any plain pair. That the chain lists
a pair of denominations once is the assumption that makes this unique
(`IsInjective(Listing)`). For the types, the loops over the holdings stop at a least one
without metadata, and all before it have an entry.

**OrderRequestProofs.** `OrderRequestTypes`, `OrderArrivesAsAsked`,
`SizeCheckRefusesWithTheChain` and `EveryTradeRecognised`, for any exponents, prices,
amounts, number of price digits, ids, names, keys, address prefix, gas and gas price.
None of the properties is inductive: they speak of an order on the book, of a refusal or of
a credit, and what brings those about is a transaction sent before. The invariant `IInv`
fixes it: what is on its way is the transaction of the order that is tracked, an order
that was sent passed the size check (`OrderSent`); the order on the book has the text of the
price and the amount that were sent, every trade its price, and what the trades sum up to is
what is gone of it (`OnBook`). Then one lemma for each thing that could go wrong:

* `PriceThereAndBack`, `AmountThereAndBack`: a price in increments of its market goes to
  the chain and comes back with its exponent, so its text is the one the order's price
  has (`Matches` compares texts); an amount in quanta is a whole number and rounds to itself.
* `SizeChecked`, `ChainTakesSize`: with u the units of the base token that are worth one of
  the quote token, rounded up, both the connector's check and the node's refuse exactly the
  amounts below 2u. The node halves rounding down; that no odd amount falls between is
  the point of the proof.
* `FeePays`: the fee, rounded up, covers the gas at the gas price.
* `TransactionReads`, `CreateReads`, `CancelReads`: signer, sequence, fee, document and
  message are read out of the transaction as they were put in.
* `CreditCounts`: a poll's credit is the sum of all trades of the history.

**EncodingProofs.** What those lemmas rest on. A recursive function of TLA+ is a choice,
and says nothing until it is shown that there is something to choose: each of the
functions gets a lemma that it has a solution (`DigitsSolved`, `ValueSolved`, `Bits7Solved`,
`VarintAtSolved`, `FromSolved`, `StringsSolved`, `PolymodSolved`, `ConvertSolved`), and then
its values. `ReadText`: digits, point and fraction of a Decimal are read as that Decimal.
`VarintRead`: the groups of seven bits of any number are read as that number, wherever in a
message they are. `FieldsRead`, `StringsFields`: the notion `Encodes` (these bytes read as
these fields, whatever precedes and follows) is kept by concatenation, which is
how all messages are built. `ChecksumVerifies`: one step of the checksum is linear over sets
of bits (`StepDiffers`), so that six groups in place of six zeros add just those groups
to what comes out. `ConvertBitsCarries`: after i bytes, groups and accumulator together hold
the first 8i bits of the payload, in order (`Taken`), for 0 to 4 bits left over. `AddressDecodes`
puts the two together.

**FoldLemmas.** The folds of the library are recursions over subsets of a finite set,
and the other recursive functions are recursions over numbers or over what is left of a
text, whose values the prover does not know. The library's induction theorems take an
operator, which the provers cannot instantiate; the lemmas prove with functions and
sets in place of operators that a recursion along a measure has a solution
(`RecursionByMeasure`), that an iteration of n steps does (`IterationSolved`), and what their
values are; the induction is on a least element that would lack it. Sums over finite sets
follow.

Only model-checked: the six liveness properties, `EveryBroadcastSettles`,
`ConfirmedCancelSettles`, `TradesPublished`, `MarketsStayKnown`, `MetadataHeals` and
`BalancesSettle`. They rest on fairness and so on ENABLED, which is beyond the prover.


## 6. Findings

Four statements of the changelog and the release notes that the code does not
keep. Each is a run that TLC ends with a counterexample; the quoted lines are in
`PROJECT.json`.

1. *Concurrent transactions* (`ConcurrentBroadcastsAdmitted`). Two
   broadcasts reserve in one order and arrive in the other. The one that arrives
   early is refused and resets; the query then reads the committed sequence while
   the other transaction is in the mempool, and the second mismatch is raised.
2. *Ambiguous ids* (`CancelOnlyOwn`). Of two equal orders placed together, the
   one that is on the chain first is the only candidate for both, and the other
   order takes its id.
3. *Pending cancels* (`PendingCancelKept`). The branch that resolves the native id
   returns OPEN or PARTIALLY_FILLED without looking at a pending cancel.
4. *Order-created events* (`CreatedOnce`). The last branch reports PENDING_CREATE
   for an order that is OPEN while its create has no answer yet, so that the next
   poll announces it again.


## 7. Plan

Done, in the order of importance: the account sequence and its promise, the order
lifecycle, fills, the book poll, the market cache and the balances, the conversions and
the transactions, with the proofs of section 5.

What a model could still add needs a description of Hummingbot that is not in this
repository: a consumer of snapshots and diffs, with the update ids that
`_order_book_snapshot` and the poll stamp, and the tracker's reading of an order whose
scale changed after it was placed.

Every safety property of the passing runs, and both refinements, are theorems. What could
still be proved is how much of a trade `CreditsWithinTrade` and `EveryTradeCredited` let go
after a restart, as an upper bound.


## 8. Not modelled, and why

* Hazards without a property are listed with a note in `PROJECT.json`. The main
  ones: exponents that change under an order or a book, update ids of snapshots
  against those of polls, a symbol with a dash, another client that places the same
  order, and what becomes of an order whose cancel failed.
* SHA-256, RIPEMD-160, secp256k1 and base64 are library calls; `Transactions` takes a
  signature as a copy of the document and `OrderRequest` the hash of a key as given.
* BIP39 and BIP32 derivation and the configuration: cryptography and pure code on
  strings; a path index of 2^31 or more without an apostrophe is taken as hardened
  (`_derive_child_private_key`).
* `_all_trade_updates_for_order` is the allocation for one order; nothing in the
  repository calls it, and `_update_orders_fills` replaces the poll of the base class that
  would.
* `_get_fee` and `_update_trading_fees` read one parameter; `status_dict`, properties and
  factories only pass on what others hold; the user stream is an idle loop.
* The eviction of a transaction from the mempool: the chain's affair, and the
  connector has no code for it.
* Wording, logging, and timeouts as such (a timeout is an exception of the request).
