# ClockLend verification

TLA+ specifications of ClockLend, a pawn-lending program on Solana
(`program/src`) with a React Native app (`mobile`) and a job that keeps its
price feeds fresh (`scripts/crank_oracles.mjs`), with TLC models and TLAPS proofs.

Each handler of the program is a transaction: it runs alone, and either all of
its writes happen or none. A handler is therefore one action; its guard is the
conjunction of its early returns, including those of the token transfers it
makes. What interleaves is handlers of different users, and, around the
program, the app's requests and the keeper's jobs, which are not atomic.

## 1. Inventory

| Part | State | Operations | Talks to |
|---|---|---|---|
| Lending pool and pool loans (`processor.rs`) | `LendingPool`, `LoanOrder`, `UserProfile`, vault, collateral and stake escrows | InitializePool, Deposit/WithdrawLiquidity, Stake/UnstakeSkr, BorrowFromPool, RepayLoan, TriggerGracePeriod, ClaimDefault | feeds (price of a borrow), yield vault (half of the SOL origination fee, share syncs), treasury |
| Peer-to-peer deck (`processor.rs`) | `P2POffer` and its escrow | CreateP2POffer, CancelP2POffer, FundP2POffer, RepayP2POffer, TriggerGracePeriod, ClaimDefault | feeds |
| SKR yield vault (`processor.rs`) | `SkrYieldVault`, `UserYieldPosition`, the vault's token account | InitializeSkrYieldVault, DepositSkrYield, ClaimSkrYield, WithdrawUnusedYield; syncs inside StakeSkr, UnstakeSkr, ClaimDefault | pool (stakes, slashes, fees) |
| Administration, price feeds (`processor.rs`) | `AdminConfig`, `PriceFeed` (global and per pool), `has_custom_oracle` | InitializeAdmin (and rotation), SetPriceFeed | keeper writes, pool and deck read |
| Treasury | token and lamport balance | WithdrawTreasury | pool pays in |
| Oracle keeper (`keeper.yml`, `crank_oracles.mjs`, `keeper.mjs`) | none of its own; jobs under way | scheduled or manual job: observe both prices, publish | market APIs, feeds |
| App, deck screen (`App.tsx`, `MerchantDesksView.tsx`) | `offersRef`, loads in flight, transactions being signed | load and merge, tap list/fund/repay/cancel, sign, confirm, report | program, wallet |
| App, session, loads and orders (`App.tsx`, `onChainService.ts`) | session, network, `ordersRef`, a stored list for each wallet and network | connect, switch, disconnect, hydrate, `loadProtocolData`, finalizeOrders, the borrow, repay and grace handlers | wallet, RPC, secure store |
| App, figures on the screens (`App.tsx`, `onChainService.ts`) | pools, yield, profile, assets; `fetchCache` | cachedFetch (shared, forced, kept ten seconds), the loads, what each handler reads again or works out | RPC |
| App, live prices and borrow form (`onChainService.ts`, `P2PExpressView.tsx`) | `livePrices`, source, last fetch, socket; the form | polls of feeds, Jupiter, CoinGecko; pushes; listeners; sizing of collateral | feeds, market APIs |
| App, transaction builders (`onChainService.ts`) | none: lists of accounts | the `build...Tx` functions; the program's search among optional accounts | RPC, program |
| App, wallet adapter (`seekerWallet.ts`) | wallet session | sign, send, confirm | wallet, RPC |
| App, PIN lock (`securityService.ts`, `SecurityLockScreen.tsx`, `CreditProfileView.tsx`) | salt, hash, attempts, lockout in the secure store; the lock and its screen | launch, resume, set, verify and upgrade, record a failure, biometrics | secure store |

Device integrity queries, the rest of the screens, the TARDIS links, deployment
scripts and the site keep no state worth a model; see *Not modelled*.

What is hard, and what makes each part correct:

- **Pool.** Borrowers and the lender race around `grace_period_expires`; optional
  accounts change what a handler does (profile, pool, yield accounts); one stake
  backs several bonded loans that may default one after another; loan accounts
  are never closed. Correct means: the vault covers what the record says it
  holds; a live loan's collateral is in its escrow; bonds are within the stake
  and the stake within its escrow; counters agree with the loans; somebody can
  always move an overdue loan on; collateral leaves once, to the right party;
  assets drop only by a default.
- **Deck.** Peers race to fund, the creator cancels and lists the same id again
  on other terms, anybody may send dust to an escrow. Correct means: money and
  collateral of an offer move once; terms freeze when it is funded; the escrow
  pays only who it is due to; nobody is locked out of both repaying and claiming.
- **Yield vault.** Shares are a cached copy of the stake, refreshed only when the
  caller passes the vault's accounts; two roundings; a backlog parked while
  nobody has shares. Correct means: the vault covers its promises, divides by
  exactly the shares given out, and nobody lowers another's entitlement.
- **Feeds.** The borrower chooses the accounts; feeds go stale; keys rotate.
  Correct means: a pool's own feed rules once it exists, stale prices value
  nothing, fresh ones always do, and only a rotation lets in a new publisher.
- **Keeper.** Late starts, slow or failing jobs, overlapping jobs. Correct means:
  both feeds go on being published, no later than the schedule's worst gap, and
  prices are of recent observations.
- **Deck screen.** Loads answer out of order, transactions fail after they were
  sent, users tap twice. Correct means: the screen is never ahead of the chain, and
  a newer answer, or the phone's own transaction, brings it up to date. That a tap
  does what the screen showed does not hold of the code (section 4).
- **Orders.** A load captures its wallet and network and is never cancelled; a scan
  that finds nothing is taken for one that failed; the app may be killed between the
  wallet's answer and the store's; a write that fails goes unnoticed, an endpoint
  may lag. Correct means: a stored list keeps to its wallet and network, forgets no
  loan taken on the phone and brings back none repaid on it.
- **Figures.** Requests are shared, kept or forced; some handlers read again what
  they changed, others work it out. Correct means: a transaction shows once.
- **Prices and form.** Polls overlap each other and the socket. Correct means: the
  form shows what the app goes by, and sizes collateral the program accepts.
- **Builders.** Accounts are found by position, address or content, and may come
  to be after the builder looked. Correct means: the program finds what was
  listed for a role there, and nothing else.
- **PIN lock.** A PIN is two writes, the count of wrong ones is read and written
  back, entries overlap, the process dies. Correct means: the stored PIN can be
  entered, wrong PINs count, lockouts are served, the lock opens for its owner.

`PROJECT.json` lists every hazard at its line with the properties that would
catch it.

## 2. Plan

| # | Modules | State |
|---|---|---|
| 1 | `LoanPool`, `PawnPromise`, `LoanPoolPawn`, `LoanPoolProofs` with `UnitSums` | done |
| 2 | `PawnDeck`, `PawnDeckPawn`, `PawnDeckApp`, `PawnDeckProofs` | done |
| 3 | `SkrYield`, `SkrRounding`, `SkrYieldProofs` | done |
| 4 | `PriceFeeds`, then `PriceKeeper`, `PriceKeeperProofs` | done, but for `keeper.mjs` |
| 5 | `PinLock`, `PinLockProofs` | done |
| 6 | The rest of the app: `LivePrices`, `ExpressBorrow`, `OrderBook`, `TxWire`, `ScreenFigures`, `PhoneProofs`, `TxWireProofs` | done |
| 7 | A composition of pool, yield vault, feeds and treasury; valuation, interest and fee splits at the widths of the source | not built, see section 6 |

The abstract specification worth stating is the pawn itself: collateral is
pledged, and goes back to its owner or, not before the end of grace, to the
lender, once. `PawnPromise` says so, and both the pool and the deck implement it.

## 3. The modules

Names are those of the source: an account type is a record with its fields, an
instruction an action. A definition called "Slip" is a plausible mistake in the
definition below it; nothing uses it, it is there to show which property would
notice. Where a property asks whether somebody could act, the guard of the
instruction has a name (`MayTriggerGrace`, `MayClaim`, `MayRepay`); the rest of
the action are assignments, so that it can be taken exactly when its guard holds.

**PawnPromise** is the life of one pledge: idle, open, returned or seized, with
its clock. It forbids a second release, a seizure before the due time and the
whole grace period have passed, and a pledge taken up again.

**LoanPool** is one pool with its lender, any number of users and loan ids.
`loan` holds the `LoanOrder` of each (borrower, id), `profile` the
`UserProfile`s, `liq` and `coll` what wallets and program accounts hold, `escrow`
and `skr_escrow` what the PDAs hold. `terms` and the counters are the fields of
`LendingPool`. Optional accounts are parameters of the action (`withProfile`,
`withPool`, `route` of the yield half of a fee). The price is an input here.
`LoanPoolPawn` maps each loan to a `PawnPromise`.

**PawnDeck** is the offers of all creators; a cancelled offer's account is
closed and its id free. `PawnDeckPawn` maps each offer to a `PawnPromise`, from
funding on. **PawnDeckApp** puts one user's phone in front of the deck: scans in
flight (`answers`), the list on the screen (`shown`), transactions between tap
and report (`signed`), including those the program refuses and the phone takes
for confirmed. All other users act on the deck directly. A history (`old` of an
answer, the `outcome` of a transaction, `word` of an offer) tells an item the screen
has reason to show from one it cannot know to be overtaken.

**SkrYield** is the yield vault and its positions, with the stake changes that
sync them or do not (`synced`). **SkrRounding** adds the history of what rounding
may cost: a change of shares, once rewards have come in, may credit up to a unit
too much, and `dust` counts those changes. `EntitlementUnits` is what all
positions together could be credited with, `PaymentUnits` what they were ever paid.

**PriceFeeds** is the configuration, the feeds in both scopes and the choice of
prices in BorrowFromPool and CreateP2POffer. Which feed accounts a borrower
passes is a parameter of `Value`. `quote` keeps the prices used by the latest
instruction, if it valued anything. **PriceKeeper** runs the scheduled job over
it; a price is represented by the time it was observed at, so that what values
collateral tells its own age.

**PinLock** has the secure store (`store`), App.tsx's decision to lock (`app`),
the lock screen while it is mounted (`screen`), the entries under way (`job`) and
a history of faults (`ledger`). Every call of the secure store is one step of
`Step(j)` and may fail (`Fails`) as its caller handles it; an entry goes on after
its screen has gone (`here`); the system's prompt for a finger ends as it likes, any time
later (`Prompted`); `Kill` may come anywhere. A digest is a record of
the PIN and the salt it was made with, so that it matches when both do; `Torn`
is a hash without its salt.

**LivePrices** is the one `livePrices` record: each poll (`poll`) goes from the
program's feeds to Jupiter to CoinGecko, one await a step, while `Deliver` brings
the socket's pushes; every write tells the listeners (`Notify`). Its listener is
the form of **ExpressBorrow**, which sizes collateral (SKR in whole coins, up;
SOL in thousandths, to the nearest) and hands over a `request`.

**OrderBook** has the chain's loans, the screen's list and a stored list for each
*home*, a wallet on a network. Hydrations and loads (`job`) read the store, show
it, scan the chain, walk through what is missing, save and show; handlers
(`handler`) borrow, repay or trigger grace, confirm, update the list, store it.
Each keeps the home it began with, whatever `SetHome` or `Disconnect` does. A scan
may be answered by an endpoint that is behind, and a read or write of the store may
fail, which the code takes for an empty list or ignores.

**TxWire** has a transaction as the list of roles its builder listed accounts
for (`keys`), and what the program's handler takes for each role (`taken`),
searching as the code does: by position, by address, by owner and size, first or
last. `world` is which optional accounts exist on which cluster; accounts come to
be, and the user changes cluster, between a look and a transaction.

**ScreenFigures** follows one figure (pools, yield, profile or assets) through
cachedFetch and the tasks that read it or work it out. What App.tsx does after
each load and handler is a `Plan`: what it adjusts, and the groups of figures it
then reads, forced or not, shown or not. A figure is the number of the wallet's
transactions it includes. A property of one figure is exact this way: the others
only take time.

Abstractions, all named in the modules too:

- Rent and transaction fees are left out. SOL that somebody sends to the address
  of an escrow before it exists is left out; later gifts are `Donate` actions.
- A native-SOL release goes to an account the owner names; it is credited to the
  owner.
- Amounts are naturals. The program's arithmetic is checked (`checked_*` fails
  the instruction) or saturating (`Monus`); amounts large enough for a check to
  fail are outside the models.
- Basis points, percentages and the 5%, 15%, 20% and 0.5% rules are those of the
  source; bonds, the length of a year and the price scale are constants, so that
  instances stay small.
- `SkrYield` lets any stake be withdrawn or slashed; which of it is locked is
  `LoanPool`'s business. It has one reward mint.
- A transaction of `PawnDeckApp` is signed for one cluster; `OrderBook` has the
  moves between networks and wallets, for loans.
- An order is the name of a loan; its terms on the screen are left out. Prices of
  the form are small numbers, and SOL comes in quarters rather than thousandths.

## 4. What TLC checks

Every cfg sets `CHECK_DEADLOCK FALSE`: the clock stops at `Horizon`, and a state in
which every loan is settled and every balance spent is a proper end, as is a phone whose
bounded mishaps and transactions are used up.

| Run | Instance | Properties and what they show |
|---|---|---|
| MCLoanPool | lender a, borrower b, two loan ids, stake for both bond tiers, grace 1, horizon 3 | `PoolInv` (the inductive invariant of the proofs), `BondsMatchLoans`, `CountersMatchLoans`, `LenderCanAlwaysAct`, `SettledForever`: bonds and counters survive any order of stake, borrow, repay, grace, claim; the lender is never locked out |
| MCLoanPoolFees | one loan id, both mints, both users borrow, three routes of the yield half, a donor | `BorrowedMatchesLoans`, `CollateralReleasedOnlyAtSettlement`, `LossesAreExplained`: the pool's money |
| MCLoanPoolLive | `LiveSpec`, two loan ids, grace 2, durations 1 and 2, late triggers, horizon 5 | `KeepsPawnPromise`, `EveryLoanSettles` |
| MCPawnDeck | creator a, interchangeable peers b and c, two offer ids | `DeckInv` (inductive), `WalletsMatchOffers`, `PartiesCanAct`, `TermsFrozen` through cancel, re-list and races |
| MCPawnDeckLive | `LiveSpec`, one offer id, dust of 1 into its escrow, two USDC mints, grace 2, durations 1 and 2, horizon 5 | `EscrowPaysTheRightParty`, `KeepsPawnPromise`, `EveryPawnSettles` |
| MCSkrYield | two interchangeable stakers, scale 2, rewards of 1 and 2, gifts to the vault and to escrows, every change of stake synced or not, three counted changes of shares | `YieldInv` (inductive), `SharesMatchPositions`, `OthersCannotDiminish`; `RewardsArePaidOnce`: what was ever paid, is owed and is parked is no more than was ever distributed, and `pending_rewards` is what was distributed and not paid, both but for at most one unit per counted change |
| MCPriceFeeds | an oracle-free pool of wrapped SOL, feeds of SOL and SKR in both scopes, two prices, a feed is stale after a tick | `FeedInv` (inductive), `CustomFeedIsAuthoritative`, `StalePricesRefused`, `CrossBorrowsAreServed`, `PublishersOnlyByRotation` |
| MCPawnDeckApp | phone of b, creators a and b, one offer id, two answers in flight, one transaction at a time | `ScreenKeepsUp`: over answers shown in any order, marks, refused transactions, retries and items that share an id |
| MCClients | keeper: a USDC pool; period 2, delay 1, duration 1, one failure in a row, bound 2. Form: one network, two polls, two prices. Figures: two tasks, two transactions, one fault. Orders: two homes, two loans, two jobs, two handlers, one mishap. Builders: two clusters | `FeedsAreKept`, `PriceIsRecent` through jobs that overtake each other; `FormShowsTheLivePrices`, `QuotesAreSound`; `DealingsShowOnce`; `OrdersStayHome`, `StoreMatchesDealings`; `TransactionsAreUnderstood` |
| MCPinLock | two PINs, one of which an old version may have stored, four salts, two entries at once, lockouts after one and two wrong PINs, one mishap | `PinLockInv` (inductive), `OwnerNeverShutOut`, `WrongPinsAreCounted`, `LockoutsAreServed`, `EveryLockOpens` |

Bounds. A horizon covers borrowing, the due time, a late trigger and the end of
grace, so that each deadline is met, missed by one tick and missed by more. Two
loans or offers are enough for what one does to another through a shared stake,
vault, wallet or id; three users for a race of two against a third. Amounts are the
smallest at which rounding, fees, both bond tiers and the 20% slash take different
values. `MaxRewards`, `MaxDust`, `MaxAnswers`, `MaxRuns`, `StakedCounterMax`,
`MaxTried`, `MaxMishaps`, `MaxSent`, `MaxFaults`, `Horizon` and the names for what
is under way at once (`Slots`, `Jobs`, `Handlers`, `Polls`, `Tasks`) are the only
caps in guards. One mishap is a failed call or write, an answer that lags, a lost or
misread confirmation, a kill or a second task in mid-course, at any point; two
answers let the older be shown after the newer; the period equals the staleness
bound, as it does in the source; two PINs let one be set while the other's entry
goes on, and thresholds of one and two let the longer lockout follow the shorter;
two homes are enough for one to write into the other's list.

`MCClients` holds parts that share no variable: interleaving them would multiply
their states and show nothing, so `running` picks one for a whole behaviour. Two
constraints leave out states nothing depends on. `Unmixed`: once a move has come in
the midst of a load, `OrderBook`'s properties claim nothing for the rest of the
behaviour, which is not followed. `RequestsApart`: a request of the form keeps its
price, and no other action reads it but the one that ends it, so that the runs of
polls and those of requests are looked at apart.

Fairness. `Spec` has none: nobody has to send an instruction. The `LiveSpec`s
assume weak fairness of the clock and of one diligent party, who sends
TriggerGracePeriod and ClaimDefault when they can be sent (the lender or the
funder, who lose by waiting); nothing is assumed of the borrower or the creator.
The program gives each of them these calls unconditionally, so continued
enabledness is enough. A horizon guard keeps due times and grace periods inside
the bounded clock. `PriceKeeper` needs no fairness: its clock does not pass the
latest moment at which a job must start or end, which is the assumption about
the scheduler that its constants name. `PinSpec` assumes weak fairness of what
runs by itself (the launch and resume decisions, each awaited call, the lock
screen's reads and its one-second timer), that the app is opened and brought back
in the end, and strong fairness of the owner's typing, since wrong entries and
lockouts take the keypad away again and again. Nobody has to stop typing wrong
PINs: `MaxTried` only bounds how many are tried before a right one.

### Where the program and its documents disagree

Two runs check one claim of the source each and find it violated;
`PROJECT.json` quotes the lines.

| Run | Claim | What happens |
|---|---|---|
| MCLoanPoolStranded | a fee half that cannot go to the yield vault goes to the treasury | it stays in the vault, outside `total_liquidity` |
| MCSkrYieldGhost | stale stake cannot earn | unsynced stake that leaves and returns does |

Others were met while modelling. The models have the code's behaviour; no run is
spent on them:

- `README.md:259` has grace triggered automatically and over a day after the due
  time; it starts when a party triggers it (`processor.rs:2735`).
- `README.md:230-233` has a default cost 20% of the stake; it costs the bond if
  that is more, less if other bonds need the stake, and nothing without the profile.
- `processor.rs:912` keeps the pool's `staked_skr_amount` in sync; the pool account
  is optional and a slash leaves the figure alone, so it outlives the stake.
- `processor.rs:3920-3922` has `pending_rewards` bound the entitlements; by a unit
  per change of shares it does not, which `RewardsArePaidOnce` grants it.
- `seekerWallet.ts:295-304` drops the error of a confirmed but refused
  transaction, so the app reports and marks it as a success (`Report`).
- `App.tsx:657` finds an offer by an id unique per creator only: the tap can fund
  another creator's offer (`TapFund`).
- `MerchantDesksView.tsx:104` fills the form for a new offer in with "1,000 SKR", which
  the builder refuses (`onChainService.ts:1558-1559` takes no comma); an offer's id is
  made up anew for each try (`TapList`), so that a listing that was sent and is tapped
  again pledges twice.
- `MerchantDesksView.tsx:628` shows offers in grace and in default as
  "Completed — Collateral Unlocked & Returned".
- `onChainService.ts:840-850` takes a feed for fresh during 3600 s, the program
  during 600 s, though the comment says they match.
- `keeper.yml:2-3` gives a ten-minute cadence "~2x headroom" under 600 s; it has
  none. Feeds get as old as (failures + 1) x period + delay + duration
  (`FeedsAreKept`), which at a period of the bound itself is above it with the first
  late, slow or failed job: borrows and offers are refused until the next one lands.
- `processor.rs:1527-1587` lets a pool of native SOL take SOL without a pool price;
  the match on the feeds still refuses the borrow when there is none (`Value`).
- `onChainService.ts:1448-1452` reads the loan to repay the exact amount, but App.tsx
  passes no `network`: on devnet the loan is looked for on mainnet, the amount is
  worked out in rounded dollars, and a loan with an odd interest is refused
  (`Repays`).
- `onChainService.ts:80-82` says refreshes after a mutation are forced; the one after a
  deposit is not (`App.tsx:997-998`), and `App.tsx:195-196` says figures come from the
  chain where the repay, fund and list handlers work them out; funding adds 100 to
  the reputation shown though the program changes no profile (`App.tsx:703`).
- A reader that fails answers with nothing, which is kept and shown like an
  answer (`onChainService.ts:333`).
- finalizeOrders (`onChainService.ts:433-442`) takes a scan without loans for a failed
  one: a stored loan that is written back late stays listed for ever.
- `initSecurity` takes a failed read of the configured flag for a stored PIN, so
  that a fresh install asks for a PIN nobody has set (`Misread`), and entries of the
  current PIN in the profile are not counted as attempts (`EnterCurrent`).
- A SOL withdrawal from the treasury lists the system program where the program
  looks for the treasury's tokens (`SolFromTreasury`); a claim of SKR collateral lists
  no account for the treasury's share. No screen calls the builders of
  ClaimDefault, WithdrawTreasury, WithdrawLiquidity and three of the yield vault's.

## 5. What is proved

TLAPS checks these for every set of users, ids, amounts, terms, prices, grace
period and horizon the named assumptions allow (`ActorAssumption`,
`ParameterAssumption`, `InputAssumption`, the deck's `Deck...Assumption`s,
`YieldParameterAssumption`, `FeedActorAssumption`, `FeedParameterAssumption`,
`KeeperAssumption`, `PinLockAssumption`, `AppAssumption`, `PriceAssumption`,
`FormAssumption`, `OrderAssumption`, `FigureAssumption`, `WireAssumption`; they say only that
inputs are naturals, that periods, prices, scales and thresholds are not zero, that names
differ and that the phone's user, mints and networks are among those there are). TLC
evaluates each of them in the runs of its module.

| Module | Theorems |
|---|---|
| LoanPoolProofs | `TypeCorrect`, `PoolInvariant`, `VaultSolvent`, `CollateralInEscrow`, `StakeInEscrow`, `SettledStaysSettled`, `PoolRefinesPawn`, `CollateralLeavesRight`, `CountersAgree`, `BondsAgree`, `PrincipalAgrees`, `LossesExplained`, `LenderHasAWay` |
| PawnDeckProofs | `DeckInvariant`, `FundedTermsFrozen`, `EscrowPaysRight`, `DeckRefinesPawn`, `MoneyFollowsOffers`, `WalletsFollowOffers`, `PartiesHaveAWay`, `ScreenKeepsItsWord` |
| SkrYieldProofs | `YieldInvariant`, `NobodyIsDiluted`, `SharesAddUp`, `RewardsArePromisedOnce`, `RewardsAddUp` |
| PriceKeeperProofs | `FeedInvariant`, `PoolsAreValuedAtTheirFeeds`, `NoStalePrice`, `ReadyCrossBorrowsAreServed`, `OnlyRotationsAddPublishers`, `PricesAreRecent`, `FeedsGoOn` |
| PinLockProofs | `LockInvariant`, `OwnerCanEnter`, `LockoutsHold`, `WrongPinsCount` |
| PhoneProofs | `FormStaysLive`, `QuotesHold`, `StoredOrdersStayHome`, `StoreRemembersDealings`, `DealingsAreShown` |
| TxWireProofs | `WireIsUnderstood` |

`UnitSums` holds the lemmas the sums rest on. `WalletsFollowOffers` has the
hypothesis the property itself has, `Donations = {}`: a gift to an escrow goes out
with the collateral, so that with gifts a wallet may hold more than the offers say;
`MoneyFollowsOffers`, about the liquidity mints, needs no such thing. No other
theorem has one.

The arguments:

- **PoolInv.** That the vault covers `total_liquidity` needs what a live loan
  still owes it, and that bonds stay within the stake needs that the stake is in
  its escrow, that a loan's bond is within what is locked, and that a slash is
  taken from the defaulting loan's share only. `GraceFollowsDue` (grace expires at
  least a grace period after the due time) carries the refinement: a seizure is
  late enough because the trigger was. `PoolInv` is the conjunction.
- **DeckInv.** An open or taken offer has its collateral in escrow and a taken
  one a funder other than its creator; from these the two action properties
  follow handler by handler. In the refinement a cancelled and re-listed id is
  still idle: a pledge opens when it is funded.
- **YieldInv.** The vault covers `pending_rewards`; no position's debt exceeds
  what its shares earned; the stake of record is in escrow. `NobodyIsDiluted`
  rests on the accumulator only growing, and on rounding down being monotone.
- **FeedInv.** `has_custom_oracle` holds exactly when the pool has a feed, which
  turns the two gates of BorrowFromPool into "the pool's own feed rules";
  without it the gate could be up with the feed missing, or down with it there.
- **CountInv.** A sum over loans is written as the number of its units, the pairs
  of a loan and a number below its weight (`Units`), which needs no recursion: a loan
  that changes weight changes the sum by the difference (`UnitsChange`), a loan
  nobody has used weighs nothing. With `PoolInv`, loans in use are finitely many
  (`LoansCounted`), counters, locked bonds and lent principal equal their sums
  (`ProfilesCounted`, `BondsCounted`, `LentCounted`), and no loan is older than the pool
  (`PoolComesFirst`), without which InitializePool would forget what is lent.
- **A way for everybody.** `LenderHasAWay` rests on `CountInv`: what a claim takes from
  the stake is there because locked bonds are the sum over live loans and stay
  within the stake. `PartiesHaveAWay` follows from `DeckInv`: whoever is to act on a
  funded offer finds its collateral, and the times for repaying and for claiming
  do not overlap.
- **MoneyInv, CollateralInv.** A wallet's balance is what it began with, plus what
  its offers brought in, less what they took out. Each side is a sum over offers
  (`UnitSums`); a handler changes one offer and two or three accounts, and the
  two change by the same amount. A fee would break it, and so would a second payment.
  For collateral, an escrow holds what its offer recorded and nothing more (`NoDust`).
- **ScreenInv.** An answer is *honest*: its items were the chain's, so that each is
  no further along than its offer is now, and it is as the chain has it unless the
  chain has changed it since the scan. A transaction's outcome is what it says: one
  that was executed left its offer as the mark will have it until somebody else
  changes it, one overtaken did so before. Both outlive every step of the deck,
  because the deck only moves debts on, and keeps whom they are owed to
  (`DebtsMoveOn`, `RealStays`). What the screen shows is then worth what it is
  said to be: a load puts honest items over others with the same id, a mark is that
  of an outcome, and what neither mentions was true before.
- **SharesInv.** The same for the shares given out. A sync moves one position and
  the total by the same difference; only positions with shares count, so that
  there may be infinitely many users.
- **Rounding.** Multiplied by the scale, the books are exact: what is accrued and
  was paid, what all shares have earned and the backlog come to at most debts, the
  rewards ever distributed and dust (`Covered`). A claim moves units from accrued to paid.
  Gross yield and debt are both rounded down, by less than a unit each: a credit at
  unchanged shares loses nothing, one with a change of shares less than a unit,
  which `dust` pays. A claim takes no more from `pending_rewards` than it pays
  (`NothingForgotten`), and less only when that would fall below zero (`NothingKept`).
  Dividing by the scale at the end (`UnitSums`, scaling) gives whole units. Without
  `dust` it is false, and TLC shows so.
- **CrossBorrowsAreServed.** From `FeedInv`: the accounts to pass are the pool's own
  feeds where it has them and the global ones elsewhere, and each gate of
  BorrowFromPool and the valuation opens for them.
- **KeeperInv, JobsAccounted.** A job lands in time, and publishes something
  observed within its duration. For the age of the feeds, starts since the newest are
  a period apart, those that ended without landing are failures, and no more
  than `MaxMisses` of those come in a row: at most one more start is left, and
  that job has to land before the gap is up.
- **EnterableInv.** While no two entries overlapped, only one is under way
  (`Alone`), and between its two writes the new salt is the one it carries
  (`SaltIsStored`): the hash it writes next goes with the stored salt, and if that
  write fails the history says so.
- **LockoutInv.** An entry is accepted only by a screen that has read the lockout
  and counted it down. What has to be excluded is an older screen's entry that
  sets a lockout later: only a check of a PIN counts (`OnlyChecksCount`), checks
  under way are seen by the screen (`ChecksAreSeen`) or are gone with the process
  (`DeadIsIdle`), and a mounted screen shows the stored lockout (`LockoutIsShown`).

- **CountInv of the PIN.** Each entry under way but one has been counted as an overlap
  (`OverlapsAreCounted`). Each wrong PIN, those being checked included, is in the stored
  count, in the count every entry is about to store, or explained by the history,
  but for one while an entry is checked or counted (`CountsExplain`).
- **FormInv, QuoteInv.** Prices of an open form are those the app has, in each step
  that writes one; polls under way only have to be well typed, so that any number may
  overlap. That the units of a request carry its loan at the price shown
  follows from bounds on the rounded quotients.
- **OrderInv.** Each claim on the stored list needs the same of everything that is
  on its way there: jobs, handlers and the list on the screen are of their home
  (`HomeInv`); a loan that is kept is on every list that may come to be stored
  (`KeptInv`), one that was repaid on none (`RepaidInv`); a borrow handler's loan is its
  own (`BorrowInv`), or two would forget each other's. All of it is for behaviours in
  which no move of wallet or network came in the midst of a load.
- **FigureInv.** A task holds the figure exactly while its group asks for it
  (`Ordered`). Cached figures are read for whoever asks, so that all holders hold
  what the cache has or waits for; other figures have one holder (`OneRead`). Who works a
  figure out does so alone (`AdjustsAlone`). Then `LookedAfter`: either a fresh read is
  still to come, or each transaction that is looked after is in what is shown,
  held or about to be worked out, once.
- **WireIInv.** Every list a builder makes fits what its handler looks for (`Fits`): it
  starts with the accounts taken by position, and what is found by exclusion has its
  place: a repayment's treasury comes last, a claim without one lists nothing of an
  unknown kind. Of a list that fits, each lookup answers the account listed for the role,
  or none (`Understood`), whichever accounts have come to be: a lookup by content ignores
  those that do not exist, and no other account has the role's name. That the yield
  accounts are taken together rests on positions having vaults (`PositionsHaveVaults`).

Left to TLC: liveness under fairness (`EveryLoanSettles`, `EveryPawnSettles`,
`EveryLockOpens`), which this prover does not reason about. The safety invariants and
action properties of all runs that pass are theorems.

## 6. Not modelled

- One composition of pool, yield vault, feeds and treasury. Each takes from the
  others only what its actions have as parameters: any price, any route of a
  fee, any change of stake, synced or not. What it would add is the hour a staker
  must be left alone for before a claim, which a lender's slash can restart.
- What the treasury holds, and the rotation of the yield vault's authority inside
  InitializeAdmin.
- Arithmetic at the widths of the source (see the abstractions).
- `mobile/scripts/keeper.mjs`: it sets the two feeds separately and swallows the
  failure of one. `keeper.yml` runs `crank_oracles.mjs`, which is modelled.
- In the app: the switch for biometrics, deep links, the SKR name of a wallet,
  authorisation tokens and the wallet adapter's allow-list; the splash and
  lockdown screens and the rest of what screens only render.
- Packing of amounts: bytes without state. Device integrity: queries of the
  operating system. TARDIS links, deployment and benchmark scripts, site and
  documents: nothing to check that the modules do not say.
