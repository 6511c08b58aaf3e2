----------------------------- MODULE PriceFeeds -----------------------------
(***************************************************************************)
(* The administration of the ClockLend program and its price feeds         *)
(* (program/src/processor.rs, InitializeAdmin and SetPriceFeed), and how   *)
(* BorrowFromPool and CreateP2POffer choose the prices they value          *)
(* collateral with.                                                        *)
(*                                                                         *)
(* A feed is an account of one mint, either global or scoped to a pool.    *)
(* Whether the decimals it declares are those of its mint is all that is   *)
(* kept of them.  Pools exist from the start; what a loan does with its    *)
(* valuation is LoanPool's business and PawnDeck's.                        *)
(***************************************************************************)
EXTENDS Integers

CONSTANTS
    Keys,           \* signers
    Root,           \* the program's upgrade authority
    Pools,
    PoolAuthority,  \* [Pools -> Keys]
    OracleFree,     \* pools with is_oracle_free
    NativePools,    \* pools that lend wrapped SOL; the others lend USDC
    MaxPriceAge,    \* ADMIN_FEED_MAX_PRICE_AGE_SECS, 600 in the source
    StoredWindow,   \* max_staleness_seconds, 3600 in the source
    Baseline,       \* [FeedMints -> Nat], the prices of unprovisioned feeds
    \* Inputs: what a caller may ask for.
    PublishedMints, Prices,
    Horizon         \* bound on the clock (model checking only)

Collaterals == {"SOL", "SKR"}
FeedMints == {"SOL", "SKR", "USDC"}
Scopes == {"global"} \cup Pools
LiquidityMint(p) == IF p \in NativePools THEN "SOL" ELSE "USDC"

ASSUME FeedActorAssumption ==
    /\ Root \in Keys /\ PoolAuthority \in [Pools -> Keys]
    /\ Pools \cap {"global", "omitted", "deck", "none"} = {}
    /\ OracleFree \subseteq Pools /\ NativePools \subseteq Pools
ASSUME FeedParameterAssumption ==
    /\ MaxPriceAge \in Nat /\ StoredWindow \in Nat
    /\ Baseline \in [FeedMints -> Nat \ {0}]
    /\ PublishedMints \subseteq FeedMints /\ Prices \subseteq Nat \ {0}
    /\ Horizon \in Nat

VARIABLES
    now,                \* Clock::get()?.unix_timestamp
    admin,              \* the AdminConfig account
    feed,               \* [Scopes -> [FeedMints -> PriceFeed]]
    has_custom_oracle,  \* of each pool
    quote               \* what the latest instruction was valued at, if it was

vars == <<now, admin, feed, has_custom_oracle, quote>>

Least(x, y) == IF x <= y THEN x ELSE y

NoFeed == [exists |-> FALSE, price |-> 0, scaled |-> FALSE,
           last_updated_at |-> 0, authority |-> Root]
NoQuote == [pool |-> "none", collateral |-> "SOL", price |-> 0,
            liquidity_price |-> 0]

\* The clock never shows 0.
Init ==
    /\ now = 1
    /\ admin = [is_initialized |-> FALSE, admin |-> Root, oracle_authority |-> Root]
    /\ feed = [s \in Scopes |-> [m \in FeedMints |-> NoFeed]]
    /\ has_custom_oracle = [p \in Pools |-> FALSE]
    /\ quote = NoQuote

-----------------------------------------------------------------------------
(* Administration.                                                         *)

\* The upgrade authority sets up the configuration once and rotates it from
\* then on; a rotation that names nobody leaves both keys as they are.
InitializeAdmin ==
    /\ ~admin.is_initialized
    /\ admin' = [is_initialized |-> TRUE, admin |-> Root, oracle_authority |-> Root]
    /\ quote' = NoQuote /\ UNCHANGED <<now, feed, has_custom_oracle>>

RotateAdmin(newAdmin, newOracle) ==
    /\ admin.is_initialized
    /\ admin' = [admin EXCEPT !.admin = newAdmin, !.oracle_authority = newOracle]
    /\ quote' = NoQuote /\ UNCHANGED <<now, feed, has_custom_oracle>>

Current == IF admin.is_initialized THEN {admin.admin, admin.oracle_authority}
           ELSE {}

\* Who may write the feed of mint m in scope s: whoever wrote it last and, if
\* it is global, the keys of the configuration; a pool's first feed of a mint
\* is its authority's.
Publishers(s, m) ==
    (IF feed[s][m].exists THEN {feed[s][m].authority}
     ELSE IF s \in Pools THEN {PoolAuthority[s]} ELSE {})
        \cup (IF s = "global" THEN Current ELSE {})

\* The account as a publication leaves it.
Feed(k, price, scaled) ==
    [exists |-> TRUE, price |-> price, scaled |-> scaled,
     last_updated_at |-> now, authority |-> k]

\* Slip: a feed that exists is not protected.
SetPriceFeedByAnyone(k, s, m, price, scaled) ==
    /\ feed[s][m].exists \/ k \in Publishers(s, m)
    /\ feed' = [feed EXCEPT ![s][m] = Feed(k, price, scaled)]
    /\ has_custom_oracle' =
           [p \in Pools |-> has_custom_oracle[p] \/ (s = p /\ ~feed[s][m].exists)]
    /\ quote' = NoQuote /\ UNCHANGED <<now, admin>>
\* Slip: only the feed of SOL opts a pool in.
SetPriceFeedSolOptsIn(k, s, m, price, scaled) ==
    /\ k \in Publishers(s, m)
    /\ feed' = [feed EXCEPT ![s][m] = Feed(k, price, scaled)]
    /\ has_custom_oracle' = [p \in Pools |-> has_custom_oracle[p] \/ (s = p /\ m = "SOL")]
    /\ quote' = NoQuote /\ UNCHANGED <<now, admin>>

\* A pool's first feed of any mint opts the pool in to its own feeds, for good.
SetPriceFeed(k, s, m, price, scaled) ==
    /\ k \in Publishers(s, m)
    /\ feed' = [feed EXCEPT ![s][m] = Feed(k, price, scaled)]
    /\ has_custom_oracle' =
           [p \in Pools |-> has_custom_oracle[p] \/ (s = p /\ ~feed[s][m].exists)]
    /\ quote' = NoQuote /\ UNCHANGED <<now, admin>>

-----------------------------------------------------------------------------
(* Valuation.  The borrower chooses which feed accounts to pass: none, the *)
(* global one or the pool's own; of both, the pool's own is taken.  The    *)
(* account of a feed that does not exist may be passed as well.            *)

Provisioned(s, m) == s # "omitted" /\ feed[s][m].exists

\* Slip: the window stored in the feed is the only bound.
FreshForAnHour(s, m) == now - feed[s][m].last_updated_at <= StoredWindow
Fresh(s, m) ==
    now - feed[s][m].last_updated_at <= Least(StoredWindow, MaxPriceAge)

Readable(s, m) == Fresh(s, m) /\ feed[s][m].scaled

Rate(s, m) == IF Provisioned(s, m) THEN feed[s][m].price ELSE Baseline[m]

CollateralPriced(p, c, s) ==
    /\ has_custom_oracle[p] => s = p
    /\ IF Provisioned(s, c) THEN Readable(s, c) ELSE p \in OracleFree

\* Slip: of whatever feed is passed, the global one is read.
LiquidityPricedGlobally(p, c, s) ==
    LET m == LiquidityMint(p) IN
    IF m = c
    THEN s = "omitted" /\ p \in OracleFree
    ELSE /\ has_custom_oracle[p] => s = p
         /\ IF Provisioned("global", m) THEN Readable("global", m)
            ELSE p \in OracleFree \/ p \notin NativePools
\* The account of SOL's feed, passed for SOL collateral, is always taken for
\* the collateral's.
LiquidityPriced(p, c, s) ==
    LET m == LiquidityMint(p) IN
    IF m = c
    THEN s = "omitted" /\ p \in OracleFree
    ELSE /\ has_custom_oracle[p] => s = p
         /\ IF Provisioned(s, m) THEN Readable(s, m)
            ELSE p \in OracleFree \/ p \notin NativePools

\* A borrow on pool p against collateral c is valued.
Value(p, c, s, t) ==
    /\ CollateralPriced(p, c, s) /\ LiquidityPriced(p, c, t)
    /\ quote' = [pool |-> p, collateral |-> c, price |-> Rate(s, c),
                 liquidity_price |-> Rate(t, LiquidityMint(p))]
    /\ UNCHANGED <<now, admin, feed, has_custom_oracle>>

\* A peer-to-peer offer is valued: only the global feed will do.
ValueOffer(c) ==
    /\ Provisioned("global", c) /\ Readable("global", c)
    /\ quote' = [pool |-> "deck", collateral |-> c, price |-> Rate("global", c),
                 liquidity_price |-> Baseline["USDC"]]
    /\ UNCHANGED <<now, admin, feed, has_custom_oracle>>

Tick ==
    /\ now < Horizon
    /\ now' = now + 1
    /\ quote' = NoQuote /\ UNCHANGED <<admin, feed, has_custom_oracle>>

Passed(p) == {"omitted", "global", p}

Rotate == \E a, o \in Keys : RotateAdmin(a, o)
Publish == \E k \in Keys, s \in Scopes, m \in PublishedMints,
              x \in Prices, scaled \in BOOLEAN : SetPriceFeed(k, s, m, x, scaled)
Valuation ==
    \/ \E p \in Pools, c \in Collaterals :
           \E s, t \in Passed(p) : Value(p, c, s, t)
    \/ \E c \in Collaterals : ValueOffer(c)

Next == InitializeAdmin \/ Rotate \/ Publish \/ Valuation \/ Tick

Spec == Init /\ [][Next]_vars

-----------------------------------------------------------------------------
(* Properties.                                                             *)

PriceFeed == [exists : BOOLEAN, price : Nat, scaled : BOOLEAN,
              last_updated_at : Nat, authority : Keys]
Quote == [pool : Pools \cup {"deck", "none"}, collateral : Collaterals,
          price : Nat, liquidity_price : Nat]
AdminConfig == [is_initialized : BOOLEAN, admin : Keys, oracle_authority : Keys]

TypeOK ==
    /\ now \in Nat \ {0}
    /\ admin \in AdminConfig
    /\ feed \in [Scopes -> [FeedMints -> PriceFeed]]
    /\ has_custom_oracle \in [Pools -> BOOLEAN]
    /\ quote \in Quote

\* A pool is marked as having feeds of its own exactly when it has one, and
\* those are in the hands of its authority alone, whatever happens to the
\* configuration.
PoolFeedsAreOwn ==
    \A p \in Pools :
        /\ has_custom_oracle[p] <=> \E m \in FeedMints : feed[p][m].exists
        /\ \A m \in FeedMints :
              feed[p][m].exists => feed[p][m].authority = PoolAuthority[p]

\* A feed that exists was published, at some time up to now.
FeedsPublished ==
    \A s \in Scopes, m \in FeedMints :
        feed[s][m].exists => /\ feed[s][m].price > 0
                             /\ feed[s][m].last_updated_at \in 1..now

\* The inductive invariant of the feeds.
FeedInv == TypeOK /\ PoolFeedsAreOwn /\ FeedsPublished

\* processor.rs on H-3: the pool-scoped feed is authoritative when it exists.
\* Whatever accounts a borrower passes or omits, a pool's own feed of the
\* collateral or the loaned mint prices it, and a pool that opted in is never
\* priced by a global feed.
OwnRate(p, m, rate) ==
    IF feed[p][m].exists THEN rate = feed[p][m].price
    ELSE has_custom_oracle[p] => rate = Baseline[m]
CustomFeedIsAuthoritative ==
    LET p == quote.pool IN
    p \in Pools =>
        /\ OwnRate(p, quote.collateral, quote.price)
        /\ LiquidityMint(p) # quote.collateral =>
               OwnRate(p, LiquidityMint(p), quote.liquidity_price)

\* Some feed of the mint was given the price no longer than MaxPriceAge ago.
Recent(m, price) ==
    \E s \in Scopes :
        LET f == feed[s][m] IN
        f.exists /\ f.price = price /\ now - f.last_updated_at <= MaxPriceAge

\* Neither side of a valuation goes by a price published longer than
\* MaxPriceAge ago.  What is not a recent price is the baseline: for collateral
\* only on a pool that asked for no oracle, for what is lent there and as USDC.
StalePricesRefused ==
    quote # NoQuote =>
        /\ \/ Recent(quote.collateral, quote.price)
           \/ quote.price = Baseline[quote.collateral] /\ quote.pool \in OracleFree
        /\ LET m == LiquidityMint(quote.pool) IN
           \/ Recent(m, quote.liquidity_price)
           \/ /\ quote.liquidity_price = Baseline[m]
              /\ quote.pool \in OracleFree \/ m = "USDC"

\* Only a rotation can hand a feed to somebody new: a key that could not
\* publish it cannot become able to, whatever others publish.
PublishersOnlyByRotation ==
    [][admin' # admin \/
       \A s \in Scopes, m \in FeedMints : Publishers(s, m)' \subseteq Publishers(s, m)]_vars

\* A borrow is served when the feeds that price it are fresh and of the right
\* scale: those of the pool if it opted in, the global ones otherwise.  USDC
\* needs no feed.
Ready(s, m) == Provisioned(s, m) /\ Readable(s, m)
FeedsReady(p, c) ==
    LET s == IF has_custom_oracle[p] THEN p ELSE "global"
        m == LiquidityMint(p)
    IN  /\ Ready(s, c)
        /\ m = c \/ Ready(s, m) \/ (m = "USDC" /\ ~Provisioned(s, m))
Served(p, c) ==
    FeedsReady(p, c) =>
        \E s, t \in Passed(p) : CollateralPriced(p, c, s) /\ LiquidityPriced(p, c, t)
CrossBorrowsAreServed ==
    \A p \in Pools, c \in Collaterals : LiquidityMint(p) # c => Served(p, c)
=============================================================================
