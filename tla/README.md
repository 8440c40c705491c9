# ROBBED, verified

TLA+ models of the ROBBED launchpad, model-checked with TLC and, where it matters most,
proved with TLAPS. The reference is the repository's source. Contracts are cited as
`BondingCurve.sol` for `src/contracts/src/BondingCurve.sol`, services by their path under
`src/apps`. Line numbers of every modelled definition are in `PROJECT.json`, under `map`.

## 1. The system

ROBBED launches tokens on bonding curves. Anyone creates a token; its whole supply is minted
to a curve contract that sells most of it against ETH along `x * y = k`. When the curve has
raised exactly `GRADUATION_ETH` it stops trading, and anyone may call `graduate()`, which
hands the raise and the rest of the supply to a migrator that opens a Uniswap V3 position.
An indexer turns contract events into tables and realtime messages, an API and a WebSocket
hub serve them, and a keeper calls the permissionless functions nobody else has called.

### Inventory

| component | state it keeps | operations | what makes it correct |
|---|---|---|---|
| `BondingCurve` | phase, virtual and real reserves, two fee escrows, its ETH and tokens, parameters snapshotted at birth | `buy`, `sell`, `sweepFees`, `sweepCreatorFees`, `graduate`, `receive` | always solvent; sells never blocked; locks at exactly the threshold; fees exact; one graduation |
| `CurveFactory` | owner's settings, global ETH sum, curve registry | `createToken`, `recordEthDelta`, ten setters | settings stay admissible; the sum is what the curves hold |
| `Router` | none | `createToken` with an initial buy, `buy`, `sell`, `sellWithPermit` | forwards exactly, honours the pause flags |
| `CreatorVault` | balances per creator, ETH and ERC20 | `deposit`, `claim`, and the ERC20 pair | owes exactly what it holds |
| `V3Migrator` | none between calls | `migrate`, `initializePool` | all or nothing; pool price in tolerance; nothing left behind |
| `LPFeeVault` | creator of each position | `collect`, `registerCreator` | each leg split exactly |
| graduation keeper | attempts in flight, cooldowns | log watcher, sweep timer, attempts of estimate, send, receipt | every full curve graduated; truthful results; no hot loop |
| fee sweepers of the keeper | last sweep per curve, last collection per position | timers, one call each | fees moved in bounded time, not needlessly |
| confirmation tracker of the indexer | watermark in memory and in one row | timer, poll, save, broadcast | tiers true and never going back |
| event handlers of the indexer | tokens, trades, balances, candles; two registries in memory | one per event; the rebuild script | a fold over the log, whatever is repeated or taken back |
| metadata verifier of the indexer | a verdict and display fields per token; the rows of a running pass | timer, fetch, write, order to verify again | a verdict is of the document served, fields are not lost, every row gets its turn |
| realtime publisher, metrics coalescer | sequence per channel, pending samples | enqueue, flush, publish | freshness; gaps visible |
| WebSocket hub | membership of each socket, upstream SUBSCRIBEs | sub, unsub, relay | every subscriber of a live channel is served |
| WebSocket client of the web application | its socket, handlers, last number per channel, watermark | connect, close, subscribe, reconnect, heal | no gap passes unnoticed, one socket, membership restored |
| API: moderation, rate limit, routes | moderation rows, windows | launch scan, admin verdicts, reads | a row's visibility is what its flags or a named administrator demand |
| rest of the web application, shared package, tools, deployment | none of interest | | |

### Interactions

* Router -> factory -> curve: calls within one transaction, so a revert anywhere undoes all of it.
  Curve -> factory: `recordEthDelta` on every trade, the only state curves share.
  Curve -> vault: `sweepCreatorFees`. Curve -> treasury: `sweepFees`. Curve -> migrator: `graduate`.
* Migrator -> pool: swaps and a mint at a price that anybody may have moved. Migrator -> LP fee vault: the position and its creator.
  LP fee vault -> treasury and creator vault: collected fees.
* Chain -> indexer: events, in order, some of them again, some taken back. Indexer -> keeper: rows of full curves, behind the chain.
  Chain -> keeper: logs, possibly late, twice or never. Keeper -> chain: transactions whose outcome
  may be learned late or never.
* Node -> tracker: three block tags, each from a node that may lag. Tracker -> API: a row.
  Tracker -> clients: broadcasts. Both sides derive the tier of a block from a watermark.
* Indexer -> API: launch messages that the moderation worker may miss. API -> indexer: `control:reverify`
  messages, the only way an administrator reaches the verifier's rows.
* Indexer -> Redis -> hub -> browser: numbered messages that are lost when nobody is subscribed.
  Browser -> hub: sub and unsub frames. Browser -> REST: a refetch after every reconnect and every gap in the numbers.

### What is hard

On chain, integer rounding along arbitrary histories: every fee and every price is floored
somewhere, and one wei in the wrong direction blocks the last seller or the last buyer for good.
Then settings that change while curves born under other settings live on; and one balance that
holds reserve, two escrows and donations. Off chain, everything that happens between two
awaits: other attempts, other ticks, other graduators, restarts, answers that are late, lost or
from behind the head; rows that were read before a fetch and written after it; memory that a
reorganisation does not take back. `PROJECT.json` lists these hazards with their lines and the properties
that would catch them going wrong.

## 2. Modules

| module | models | role |
|---|---|---|
| `CurveMath` | `libs/CurveMath.sol` | pure quotes and rounding |
| `CurveFactory` | `CurveFactory.sol` | settings with their checks, global ETH accounting |
| `CreatorVault` | `CreatorVault.sol`, ETH leg | deposit and claim |
| `BondingCurve` | `BondingCurve.sol` | a curve as a record, one action per external function, the inductive `CurveInvariant` |
| `Launchpad` | `Router.sol` and the composition | any number of curves, one vault, one owner |
| `FundingRound` | (abstract) | what a launch promises, implemented by `Launchpad` |
| `GraduationKeeper` | `keeper/src/keeper.ts` with its chain, indexer and RPC | one action per awaited call |
| `ConfirmationTracker` | `indexer/src/confirmation.ts`, `confirmationStore.ts`, `stateForBlock` of the shared package | ticks split at the awaits |
| `Realtime` | `firePublish` of `indexer/src/publish.ts`, `api/src/ws.ts`, `web/src/shared/lib/ws-client.ts` | publisher, hub and one browser composed; one action per callback, command or frame |
| `V3Migrator` | `V3Migrator.sol` | pool creation and the steps of one migrate transaction |
| `LPFeeVault` | `LPFeeVault.sol`, ERC20 leg of `CreatorVault.sol` | collect, registration, credit and claim |
| `Graduation` | the two composed with a pool anyone may move | a full curve becomes a position and its fees |
| `EventLog` | what the contracts emit for one launch | the indexer's input |
| `Ledgers` | the handlers in `indexer/src/handlers` with `balances.ts`, `candles.ts`, `ids.ts` and the registries | one handler at a time over the log, with redelivery, reorganisation, restart |
| `TokenMetrics` | `indexer/src/tokenMetrics.ts` | the coalescer, with overlapping flushes |
| `Indexer` | the indexer's process | handlers feeding the coalescer |
| `Rebuild` | `indexer/scripts/rebuild.ts` | the tables made again from the raw rows |
| `MetadataVerifier` | `indexer/src/metadata.ts`, `metadataStore.ts` | overlapping passes split at the awaits |
| `Moderation` | `api/src/moderation`, the routes of `api/src/admin/routes.ts` that write verdicts | two writers of one row |
| `Listing` | the two composed with the launches that feed them | what the site shows of a token besides trades |
| `ArithmeticProofs` | | lemmas on the rounding of `CurveMath` and on finite sums |
| `LaunchpadProofs`, `MigratorProofs`, `KeeperProofs`, `TrackerProofs`, `RealtimeProofs`, `IndexerProofs`, `ListingProofs` | | theorems |
| `MCLaunchpad`, `MCGraduation`, `MCKeeper`, `MCTracker`, `MCRealtime`, `MCIndexer`, `MCListing` | | instances for TLC |

### On chain

Every action of `Launchpad` is one successful transaction; a reverting call changes nothing and
is no step. The EVM runs transactions one after the other, so there is no finer interleaving.
The state of a curve is a record with the contract's own variable names plus the ETH and tokens its
address holds. `held` stands for all token balances outside the curve: the curve cannot tell
who owns a token, only how many are brought back to it. `wallet`, `treasuryEth` and `migratorEth` are the
ETH on the other side of every transfer, so that conservation can be stated over all of it.

Abstractions: deadlines and slippage floors only add reasons to revert and are left out.
Early-window timing is one boolean that turns false once. Addresses that reject ETH are the
sets `RejectingTreasury` and `RejectingCreator`. The denominator of fee rates is a constant of
the model (10 000 in the code) so that small amounts already round. `migrate` either takes everything
or reverts, which is what `Graduation` shows of it. The deployment wiring is done before `Init`. Owner
setters try the values of `BpsInput`, `FlatFeeInput`, `CapInput`, accepted and rejected ones alike.

### Graduation

`Graduation` begins where `Graduate` of the launchpad ends: the curve is full. A migrate transaction is several steps, `MigrateBegins`,
one `ArbStep` per swap, `ArbEnds`, `Mint`, during which no other account acts (`tx.at` is not `none`); the steps are there
so that its budget, its floors and its loop bound can be stated where the code has them. `Reverts` restores what the transaction found.
`hold[asset][account]` is every balance concerned, so that nothing can be lost unnoticed, and either asset may be token0.

The pool is Uniswap's and external. A price is the amount of WETH that pairs with the whole tranche, and a tick is one unit of it; a swap moves the price by
one for each `depth` units of input and pays out any amount up to what the input is worth. A mint computes the liquidity the balances have room for, rounds it down
and takes the amounts of that, rounded up: the position is any size up to one `LiquidityUnit` below the full one (`PositionSize`), so that even the asset that binds need not be
used up. With the deployed values that unit is some 10^4 units of the token, and 10^7 of those make a wei, hence `MigratorAssumption`. Before and between migrate calls anyone may create the pool at any price, move it or change its depth.
A mint of no liquidity reverts. In the vault, a position that nobody
registered (`stray`) stands for one sent to it from outside.

### Keeper

`run[c]` is where the attempt on curve `c` stands, with the number of the try: `precheck`, `estimate`,
`send`, `receipt`, `classify` (the phase read after a failure) and `backoff`, one per awaited call of `run` and
`tryGraduateOnce`. `Idle` means that `c` is not in `inFlight`. `triggered` holds
curves brought up by a log or a sweep that wait for the gate of `attempt`; `cooling[c]` is
`inCooldown`. `txs[c]` is the sequence of transactions sent, executed in nonce order. A call
through the RPC endpoint may fail, be answered from behind the head, or time out after having had
its effect; each costs one of `MaxRpcFaults`. A sweep is one step that brings all its rows up: in the code
they are attempted one after the other, which is one of the orders the model allows.

### Tracker

A tick is `Off`, fetching or saving. It keeps the in-memory state of its start and hands its own
back at its end, as `runTrackerTick(state, deps).then(...)` does. `MaxTicks` is how many ticks
can be under way at once. With 1, every tick ends within the polling interval, which the code's
comments take for granted; with 2 they overlap. The poll returns any values at or below the true tags, so nodes
may lag and a head may seem to regress. A write may fail, the process may restart between any
two steps and between the commit of a write and its broadcast (`SavedUntold`), and the unposted head of the chain may be reorganised.

### Realtime

An event enters `indexed` and takes the next number of its channel in one step, the INCR of `firePublish`;
its PUBLISH waits in `publishing`. Either command may fail. A PUBLISH and its relay into the
sockets that are members of the channel is one step, provided the hub's own SUBSCRIBE has
succeeded: `upstream[ch]` is `none`, `pending`, `subscribed` or `failed`, where all but the first
mean that the channel is in the code's `subscribed` set. `sock` holds every socket the client ever created
with its frames under way, `up` and `down`, and the hub's `ws.data.subs`. A socket is `connecting`, `open`, `closing`
(its connection is gone, `onclose` not yet delivered) or `gone`. `cur` is `this.socket`. The
client's actions are its public methods and its callbacks, each of which runs to its end.

`shown[ch]` is what the queries of a mounted page display of a channel. `invalidateAllLive` starts a
refetch of the pages mounted then; it reads (`RestReads`) and its answer replaces what was shown
(`RestAnswers`) at any later time. Four history variables record what properties and bounds need:
`received`, `healed`, `twoOpen` (two sockets have been open at once) and `spent`.

Assumed: the publisher's commands on its one connection keep their order (the indexer shares one publisher), so do Redis,
the hub and a socket; REST serves every indexed event; the tracker broadcasts rising watermarks
(`BroadcastIsPersisted` and `TiersNeverGoBackwards` of the tracker say so when ticks do not overlap). Left out: the seed of the watermark
from the server-rendered page, which can be ahead of a broadcast still under way;
the backfill latch; malformed frames. An INCR that fails leaves an
event without a number, which no client can notice; `GapsAreHealed` is about numbers, not events.

### Indexer

`Txs(w)` is the set of transactions the contracts accept in state `w`, each with the logs it emits in the contracts' order; blocks of
them make `chain`. `Deliver` runs one handler on one log; with `again` the log comes once more. When a block is complete its tables are `saved`, and a
`Reorg` or `Restart` goes back to some saved block, as Ponder does with its own tables; the registries are the indexer's own memory, kept by a
reorganisation and lost by a restart. Amounts are small: a token costs a fixed amount, every curve trade pays a fee, and the price is one more than what was sold.
The handlers' tables are the fields of the record `tables`. Left out: creator-fee and LP-fee roll-ups, copied addresses and times, the
24 hours of the volume (every history lies within them).

The coalescer's `pending` is the block of the pending sample of the one token. `unserved` is history: the samples that no
flush has ended with. `FlushEnds` stands for publishing, for a row that is not there and for a failed read, which all end a batch.

### Listing

A pass of the verifier holds the rows it selected (`todo`) and what it has fetched for the first of them (`got`); fetch and write are steps of their
own. The time since a row's last attempt is a class: `fresh`, under the minute of the query's filter; `resting`; or `due`, past `reverifyDelayMs`. The
back-off table only says how long a row rests. A document is `committed`, `other`, `junk` or `missing`, and the storage may
change it. Tokens are numbered in block order, which is the order of the query. `Canonical` are the tokens whose committed document passes the shared
schema: that of any other token has no fields to show, and matches by its hash all the same.

A reorganised launch loses its row of `tokens` while the verifier's row stays. A token's address comes from a plain CREATE (`CurveFactory.sol` line 273), so it
may be that of the same launch again or of another, with another hash and another uri (`Relaunched`). Documents are therefore named by what they are to the launch that has the
address now: when it changes, what was committed is some `other` document, the row is no longer `current` (its `onchain_hash` is the old one), and a pass that has read the old
row (`stale`) will fetch what the old uri serves, which may be anything, and write the old hash. The new launch at an address is taken to be in `Canonical`, and listed, like the old one.

The worker's message and its database call are one step: nothing it reads in between can change. As the launch messages of the indexer
carry no image (`handlers/tokenCreated.ts` lines 84-92), the worker never has a score; `evaluateVisibility` has them nevertheless, and the branch
for a vendor that does not answer, which no caller of the code asks for.
The routes write some columns and name the reviewer. The audit log, written by a second statement, is left out.

## 3. What the runs check

| run | instance | shows |
|---|---|---|
| `one_curve` | one curve, 10 wei, threshold 6, denominator 4 with both legs at one quarter | the inductive invariant `Inv`, sells never blocked, fees exact, ETH conserved, `k` never falls, the lock holds |
| `owner` | one curve, every setter at any time | ceilings, funding of graduation, and `CurvesAreSound`: solvency, the lock at the threshold, token backing, under retuned settings |
| `two_curves` | two symmetric curves, two creators, one of them rejecting ETH, a treasury that may reject ETH, a cap that binds | `LedgersExact`: the global sum and the vault; refinement of `FundingRound` |
| `graduation` | a tranche of 36 against 8 wei, a unit of liquidity worth four tokens, eight prices, three depths, donations of both assets, two arb iterations, two positions | mint floors cannot be missed by donating or by rounding while budget is left, the loop never runs out, nothing stranded, atomic, never frozen, the creator's share |
| `keeper` | one curve, 2 tries, 2 RPC faults, one price excursion, one crash | truthful results, quiet cooldown, full curves graduate |
| `tracker` | 3 blocks, one tick at a time, one failed write, restart and reorg | tiers never go back and are never ahead of the chain, broadcasts are persisted |
| `tracker_regress` | 2 blocks, two ticks | expected violation, see findings |
| `realtime` | two channels, up to 5 sockets, 3 events, two breaks (drop, hub restart, remount), one failed command, a page that mounts and leaves, five of these together, a break counting twice | no gap passes unnoticed, watermarks only rise, membership converges |
| `indexer` | two traders, 4 transactions, one reorganisation or restart, up to two flushes under way | tables follow the chain, candles are the trades of their buckets, no sample forgotten |
| `indexer_rebuild` | the same | expected violation, see findings |
| `listing` | two tokens, the committed document of one outside the schema, two passes of two rows, one change of the storage, one fault (a failed write, a lost message, a restart, a launch taken back, another at its address), one order, two of these three together | fields never lost, a match stands over the fields its document has, if it has any, verdicts settle, unreviewed rows follow their flags |
| `verifier_window` | five tokens, passes of one row, so a window of four | expected violation, see findings |

**Bounds.** On chain the only bound is the amount of ETH outside (`InitialEth`): enough to fill a
curve, pay every fee and still donate or buy again. All amounts up to it are enumerated. The small
curves fill in one to six buys with every combination of clamped and plain ones, and the two fee legs
round apart from the first wei. The keeper's faults suffice for a lost receipt followed by
a failed phase read, or a crash in between; its two tries exercise the last-try
branch and the one before. The tracker needs two blocks to tell all three tiers apart and three to have a
reorganised head above them. The prices of the graduation lie on both sides of the target, inside and outside both the tolerance and the mint's slippage; its tolerance exceeds the
slippage on purpose, so that a mint can be refused. The deployed values (100 ticks, 100 bps, `src/tools/m0/out/constants.json`)
keep a tolerated price within the slippage but for about the last half tick, where the mint reverts and `graduate` can be tried again;
`MintMeetsFloors` is stated for the prices within, and for an arb-back that has a unit of liquidity or a wei of its budget left (`BudgetLeft`); the run also has those that have not,
whose mint may revert (see findings). Two iterations are enough for `ArbNeverRunsOut` to bite, and the theorem has any number above one.
Four transactions take a launch with a supply of two through its mint, trades, graduation and a swap in the pool. The window of the verifier is four times the
limit of a pass, so five tokens are needed to fill it; `VerdictSettles` is checked with no more tokens than a pass takes, because of that window. `MaxSpent = 2` in `listing` lets
any two of the change, the fault and the order meet, with two passes under way: a document replaced after a launch has lost its address, an order given while the row is stale.
A gap needs a number before it and one after, and its heal is put to the test by a refetch already under way: a reorg, a burnt number and one more, which
`MaxEvents = 3` and `MaxFaults = 1` reach within `MaxSpent = 5`. That bound is on all occurrences of a behaviour together: two breaks and one event, or one break
and three of the others, are within it. With `MaxBreaks = 2` the client can hold two sockets and lose both. `MaxSockets = 5` never
stops a reconnect: each break leaves at most two sockets to be opened, the successor and the one of a late `onclose`.
`MAX_SUBSCRIPTIONS_PER_SOCKET` has the code's value, which two channels never reach.
What a bound cannot show for larger instances is what
the theorems are for.

**Deadlock** is checked in every run but those of `Realtime`, `Indexer` and `Listing`: there the bounds use up all events, transactions, faults and
orders, and a system at rest may stop.

**Fairness** is assumed in `GraduationKeeper`, `Graduation`, `Realtime` and `Listing`. In the keeper, weak fairness of `Sweep` and `CooldownEnds`: timers
fire. Of `Begin` and the attempt's steps: the event loop runs, and every awaited call ends, because viem's
requests and `waitForTransactionReceipt` have timeouts. Of `Mine`: a sent transaction is executed sooner or later. Of `IndexerCatchesUp`: the
indexer follows the chain. Nothing is assumed of logs, other graduators or the pool price.
`KeeperGraduates` therefore has the premise that the price is eventually left in tolerance;
without it graduation may revert for ever, which is what the keeper's alert is for. In `Realtime`, weak fairness of frames, socket callbacks and reconnect timers: the
two event loops run. Of `Publish` and of an upstream SUBSCRIBE that succeeds or fails: a Redis command settles. Of `RestReads` and `RestAnswers`:
a refetch ends. Nothing is assumed of drops, restarts, events, pages or remounts; `MembershipConverges` has the premise that the
provider is in the end mounted for good. In `Graduation`, weak fairness of `Migrate`: somebody keeps calling `graduate`, as the keeper does, and a transaction
that has begun ends. `NeverFrozen` has the premise that, whenever no migrate runs, the pool is in the end at a price that is right or that
the curve's own assets can put right. In `Listing`, weak fairness of `Begins` (the timer), of each pass's fetch and write (both have timeouts) and of time; nothing of
the storage, the orders or the worker.

**Each property is exercised by a mutant**: a definition next to the original, marked `Mutation:`,
that changes it like a plausible mistake and makes TLC find the property violated.

### Findings

1. *Tiers can go backwards.* `confirmation.ts` lines 36-38 call this structurally impossible; it is, as long as
   ticks do not overlap, which `setInterval` does not ensure (`tracker_regress`). They still never run
   ahead of the chain: `TiersAlwaysTrue` is proved for any number of overlapping ticks.
2. *The holder count is one too low.* A token's mint is handled before the `TokenCreated` that inserts its row, so `transfer.ts` line 89 finds no row to count
   the curve in, and `tokenCreated.ts` line 75 starts from zero. The rebuild script, whose output is to be byte-equal to the handlers'
   (`rebuild.ts` lines 11-12), does count it (`indexer_rebuild`).
3. *Due rows can starve.* The verifier's query takes its window of `4 * limit` rows by age of the token before it asks which of them are due
   (`metadataStore.ts` line 47). Once that many older tokens have rows that rest, a newer token's due row, even one an administrator has ordered to be
   verified again, is not found (`verifier_window`).

More consequences of the code are steps of the models, and no run is spent on them:

* `Router.createToken` never reads `pauseBuys`, so an initial buy passes where `ICurveFactory.sol` line 73 says it is blocked.
* A lost receipt makes the keeper send a second `graduate()` while the first is pending, which `keeper.ts` lines 6-7 rule out; harmless on
  chain, where the second reverts. Its tries are used up by lost receipts as well as by reverts, so its
  `donation_brick_suspected` alert (`keeper.ts` line 190) can be raised for a curve it has itself graduated.
* After a reconnect the client's refetch is not ordered after the hub's subscribe, and the numbers are forgotten: a trade in between is shown by neither
  (`ws-client.ts` line 140; lines 20-25 say it cannot be dropped). In the middle of a stream the claim holds, and is proved: `GapsNeverPass`.
* The late `onclose` of a closed socket replaces its successor (`ws-client.ts` line 147), so connect, close, connect, as React's strict mode does, leaves two sockets open
  where line 12 promises one. An older watermark can then follow a newer one, each from its own socket, which is why `WatermarkNeverGoesBack` is claimed
  only until that happens. `MembershipConverges` holds even so.
* The hub remembers a SUBSCRIBE before it has succeeded (`ws.ts` lines 172-181): one that fails leaves the channel silent until the hub restarts.
* The arb-back may spend the migrator's tokens down to the very number the mint then demands (`V3Migrator.sol` lines 374 and 441), and the position manager takes a little less
  than the balance. If the pool is so deep that one swap uses up the budget and still stops within tolerance but off the target, the mint reverts, although lines 425-427 argue from
  balances that are at least the floors; the WETH leg has the same edge in the last wei. Nothing is lost, `graduate` can be called again, and it succeeds when the pool has moved a little:
  `MintMeetsFloors` and `NeverFrozen` except exactly this case.
* The registries of the indexer are not taken back at a reorganisation: when a graduation is included again, its arb-back swap, which precedes `Graduated`, is indexed as
  a trade that a restarted indexer would not have.
* `ids.ts` line 4 says every handler is guarded against a repeated event; `handlers/creatorFees.ts` and `creatorFeeSplit.ts` are not.
* A launch message that the moderation worker handles late overwrites an administrator's verdict, and one published while it is away is never judged.
* The score of a scanned image never reaches the moderation row, because the launch message names no image; `docs/developers/api.md` line 435 says it is linked.
* A verify that was under way when an administrator ordered another writes over the order.
* A badge can stand over fields it is not about. A committed document outside the schema, of which the creator chooses the hash, gets `match`, for its hash needs no schema
  (`packages/shared/src/metadata.ts` lines 143-151); it yields no fields, and `writeVerification` then keeps those of an earlier document (`metadataStore.ts` lines 91-93), which the site shows
  under the badge. Token 2 of `listing` gets there. `MatchShowsItsFields` and its theorem therefore speak only of documents that have fields.
* After a reorganisation another launch can have a token's address; verdict and fields of the old one stay until the row's next attempt, a week away for a match, where
  `docs/developers/indexer.md` line 557 says that the rows survive harmlessly. `MatchShowsItsFields` is about rows of the hash now on chain; `VerdictSettles`, which says that the
  row ends up being one, shows that the next attempts put it right.

## 4. What is proved

All proofs are for every value of the constants that satisfies the named assumptions
(`CurveAssumption`, `FactoryAssumption` and the like: what the constructors check, and that traders and creators are finitely
many, as sums over them need). The strengthened invariants below quantify over histories or unbounded values, so TLC
checks only what follows from them.

**The launchpad** (`ArithmeticProofs` -> `LaunchpadProofs`).
The invariants the runs check are not inductive alone: that a sell is covered depends on the history of
all trades. `CurveInvariant` supplies what is missing. While a curve trades, virtual reserves are the real
ones shifted by constants, their product is at least the initial one, and circulating tokens are at
most what was sold. `BuyKeepsK` and `SellKeepsK` show that floor and ceiling both
favour the curve; `SellLeavesInitialEth` turns `k >= k0` into a payout of at most the reserve, so
`AnySaleCovered` follows for any part of the supply. `BuySplitIsExact` is the arithmetic of the
clamp, including the minimum that absorbs the one wei two floors can add. Each `After...Invariant` shows
that one operation keeps `CurveInvariant`; it is then lifted to any number of curves and
the owner's settings, giving `InvariantHolds`, then `TypeCorrect`, `CurveSafety`, `SalesNeverBlocked`,
`BuysSplitExactly`, `GraduationAlwaysFundable`, `FeesBounded`.

The ledgers are sums over all curves and creators. That `<` on the naturals is well-founded gives a least counterexample and with it
induction on a set of naturals; from that, the fold behind `SumFunctionOnSet` exists and does not depend on the order of its elements, and changing one
addend changes the sum by the difference. `BooksHold` is the inductive form: the global sum of the factory, the balance of the vault, and all ETH inside and outside, each
as such a sum. `LedgersAreExact` and `EthIsConserved` follow. `ProductNeverFalls` and `LockIsTwoWay` are about steps, and
`LaunchesAreRounds` shows that every step of the contracts is a step of `FundingRound` or changes nothing it sees.

**The keeper** (`KeeperProofs`). `KeeperInv` adds to the types: an attempt waiting for a receipt has sent a
transaction; a transaction that succeeded leaves the curve graduated for good; a cooling
curve has no attempt; a sleeping attempt has a try left. From it `ResultsAreTrue`, `CoolingIsQuiet`, `KeeperTypeCorrect`.

**Graduation** (`MigratorProofs`). The inductive invariant ties the budget to the floors: what the migrator holds of the token is at least `tokenMin` throughout, because
each swap spends at most the difference; what it holds of WETH is `wethForMint` less what was spent, which is at most the slippage of it; and every asset
adds up. `wethForMint` is at least the target whatever was donated, so `FloorsAlwaysMet` is a fact about rounding: each balance is above its floor by at least what rounding the liquidity down can take, which is what
`BudgetLeft` says, and at a price within the slippage the leg that pairs with the other is rounded up far enough to meet its floor (`TrancheRoundedDown`, `RaiseRoundedDown`, `WethPairsRest`).
A swap ends at the target or with an exhausted budget, and an exhausted budget reverts at the next step, so `IterationsSuffice` needs only
more than one iteration. `NothingIsStranded`, `MigrationIsAtomic` and `GraduationTyped` follow, and `CreatorsGetTheirShare` bounds
what floors cost over any number of collects, by one wei each.

**The tracker** (`TrackerProofs`). Watermarks are ordered component by component on `safe` and `finalized`; a
lower watermark derives lower tiers, and `nextWatermark` is the join. Everything the tracker
holds is below the chain, whatever overlaps: `TiersAlwaysTrue`. With one tick at a time the row is below the state of
every tick, so a write only raises it: `TiersMonotone`, `BroadcastsPersisted`. `TrackerTypes` needs neither order: only that `nextWatermark`
and a clean start return watermarks.

**Realtime** (`RealtimeProofs`). `GapsAreHealed` is not inductive: it says nothing of messages still under way. `GapInv` adds that every
message, queued or in a socket, carries a number its channel has reached, and that `lastSeq` is among the numbers received,
or there are none. A message then either continues the numbers (`OneMoreNumber`) or heals up to a counter that is
at least its own number. No order between sockets is needed, so the theorem holds with two of them open as well: `GapsNeverPass`.

`WatermarkRises` does need that order. A confirmation passes two queues, the publisher's and a socket's. `OrderInv` says that both hold rising events, that whatever
a socket holds is no newer than whatever the publisher does, and that no message stands for an event nobody indexed. Until two sockets have been
open at once there is one open at most, and the others hold nothing (`Wires`), so the watermark is at most everything still under way. All steps but a relay, a message and
an opening leave each socket delivering what it did or nothing (`Calm`), which settles them together. `RealtimeTypes` adds
the timers, the refetch, and that `subs` frames exist for any finite set of handlers.

**The indexer** (`IndexerProofs`). The logs of a transaction are a trace: contracts before it, logs, contracts after it, and `TxDone` says that the
logs tell exactly what changed. `Tally` says the same of tables and a sequence of rows: counters, balances and cost bases are sums over it, candles the sums and extremes of
their buckets. Between two steps the tables stand for the log up to `next`, or up to one log before with that one to come again: `HandledOnce` and `HandledAgain` show that a handler
moves them from one log to the next and that a repeated log moves nothing. A reorganisation cuts the chain at a saved block, whose tables stand for
it by the same invariant. The registries appear nowhere but in whether a swap is indexed, so that the argument holds whatever pools they remember.
Hence `LedgersFollow`, `CandlesSummarise`, `IndexerTypes`; the coalescer has an invariant of its own, every sample is pending, in a flush or served: `SamplesKept`. The
whole is `IndexerInvariant`. Assumed: finitely many traders, none of them a contract or the zero address.

**Listing** (`ListingProofs`). Two lemmas reduce every step of the composition to the four ways a row of one table and the three ways a row of the other can change, after which the invariants are one
fact about an attempt's outcome (`OutcomeShowsItsFields`) and one about the worker's verdict: `MatchesShowTheirFields`, `DisplayKept`, `UnreviewedFollow`. What a pass
has in hand, and whether the launch it read still has the address, does not matter to them, so they hold with any number of passes over rows of any age. `ListingTypes` includes that a pass works on no
token twice: the rows of any set of tokens differ in rank, so by counting every rank is taken once (`RanksAreTaken`), and the query's order and limit are what their names say.

**Only model-checked**: liveness (`KeeperGraduates`, `MembershipConverges`, `NeverFrozen`, `VerdictSettles`), since fairness and ENABLED are out of the
provers' reach. Every invariant and every property of steps that a passing run checks is proved as well.

## 5. Not modelled

The model follows every path along which money, tables and messages of a launch change. What is left:

* *Keeper fee sweepers*: a loop each that reads amounts and sends a call anyone may send at any time, which the launchpad (`SweepFees`) and the vault (`Collect`) model for
  any caller. Their own state is a time per curve, lost at a restart, after which a sweep comes early.
* *Creator-fee roll-ups of the indexer*: sums of event amounts.
* *API rate limiting*: its decision and its update are one synchronous step.
* *Image scanning, audit log*: a vendor's answer that is cached; an append after the fact.
* *One-time wiring of the contracts*: done before `Init`.
* Read-only routes, projections, search and rendering (no state), the rest of the web application (presentation), the
  indexer's batch jobs (a function of the rows read), scripts and deployment.
