------------------------- MODULE PriceKeeperProofs -------------------------
(***************************************************************************)
(* Proofs about PriceFeeds: the invariant of the feeds, which prices a     *)
(* valuation can use, and who can come to publish a feed.  Then about      *)
(* PriceKeeper: how old the price behind a valuation can be, and how old   *)
(* the feeds can get under the job's schedule.                             *)
(***************************************************************************)
EXTENDS PriceKeeper, FiniteSetTheorems, TLAPS

LEMMA ScopesAreNamed ==
    /\ "global" \in Scopes /\ "global" \notin Pools /\ Pools \subseteq Scopes
    /\ \A p \in Pools : p # "omitted" /\ p # "deck" /\ p # "none"
BY FeedActorAssumption DEF Scopes

\* What a publication writes is a feed of the key that signed it.
LEMMA FeedType ==
    ASSUME TypeOK, NEW k \in Keys, NEW price \in Prices, NEW scaled \in BOOLEAN
    PROVE  /\ Feed(k, price, scaled) \in PriceFeed
           /\ Feed(k, price, scaled).exists
           /\ Feed(k, price, scaled).authority = k
           /\ Feed(k, price, scaled).price > 0
           /\ Feed(k, price, scaled).last_updated_at = now
<1>1. price \in Nat /\ price > 0 /\ now \in Nat
  BY FeedParameterAssumption DEF TypeOK
<1>2. Feed(k, price, scaled) \in PriceFeed
  BY <1>1 DEF Feed, PriceFeed
<1>3. Feed(k, price, scaled).exists
  BY Zenon DEF Feed
<1> QED BY <1>1, <1>2, <1>3 DEF Feed

\* A publication changes one feed and nothing else.
LEMMA PublishedFeeds ==
    ASSUME TypeOK, NEW k \in Keys, NEW s \in Scopes, NEW m \in FeedMints,
           NEW price \in Prices, NEW scaled \in BOOLEAN,
           SetPriceFeed(k, s, m, price, scaled)
    PROVE  /\ feed' \in [Scopes -> [FeedMints -> PriceFeed]]
           /\ feed'[s][m] = Feed(k, price, scaled)
           /\ \A r \in Scopes, n \in FeedMints :
                 r # s \/ n # m => feed'[r][n] = feed[r][n]
<1>1. feed' = [feed EXCEPT ![s][m] = Feed(k, price, scaled)]
  BY DEF SetPriceFeed
<1>2. Feed(k, price, scaled) \in PriceFeed
  BY FeedType
<1>3. feed \in [Scopes -> [FeedMints -> PriceFeed]]
  BY DEF TypeOK
<1> HIDE DEF Feed, PriceFeed, Scopes, FeedMints
<1> QED BY <1>1, <1>2, <1>3

-----------------------------------------------------------------------------
(* The invariant.                                                          *)

LEMMA FeedInit == Init => FeedInv
<1> SUFFICES ASSUME Init PROVE FeedInv
  OBVIOUS
<1>1. NoFeed \in PriceFeed /\ ~NoFeed.exists
  <2>1. ~NoFeed.exists
    BY Zenon DEF NoFeed
  <2> QED BY <2>1, FeedActorAssumption DEF NoFeed, PriceFeed
<1>2. \A s \in Scopes, m \in FeedMints : feed[s][m] = NoFeed
  BY DEF Init
<1>3. TypeOK
  <2>1. feed \in [Scopes -> [FeedMints -> PriceFeed]]
    BY <1>1, Zenon DEF Init
  <2>2. admin \in AdminConfig
    BY FeedActorAssumption DEF Init, AdminConfig
  <2>3. quote \in Quote
    BY DEF Init, NoQuote, Quote, Collaterals
  <2> QED BY <2>1, <2>2, <2>3 DEF Init, TypeOK
<1>4. PoolFeedsAreOwn
  BY <1>1, <1>2, ScopesAreNamed, Zenon DEF Init, PoolFeedsAreOwn
<1>5. FeedsPublished
  BY <1>1, <1>2, Zenon DEF FeedsPublished
<1> QED BY <1>3, <1>4, <1>5 DEF FeedInv

\* A publication keeps the invariant: the pool's mark follows its first feed.
LEMMA PublishKeepsInv ==
    ASSUME FeedInv, NEW k \in Keys, NEW s \in Scopes, NEW m \in FeedMints,
           NEW price \in Prices, NEW scaled \in BOOLEAN,
           SetPriceFeed(k, s, m, price, scaled)
    PROVE  FeedInv'
<1> USE DEF FeedInv
<1> DEFINE new == Feed(k, price, scaled)
<1>1. /\ feed' \in [Scopes -> [FeedMints -> PriceFeed]]
      /\ feed'[s][m] = new
      /\ \A r \in Scopes, n \in FeedMints :
            r # s \/ n # m => feed'[r][n] = feed[r][n]
  BY PublishedFeeds
<1>2. new.exists /\ new.authority = k /\ new.price > 0 /\ new.last_updated_at = now
  BY FeedType
<1>3. now' = now /\ admin' = admin /\ quote' = NoQuote /\ k \in Publishers(s, m)
  BY DEF SetPriceFeed
<1>4. has_custom_oracle' =
          [p \in Pools |-> has_custom_oracle[p] \/ (s = p /\ ~feed[s][m].exists)]
  BY DEF SetPriceFeed
<1> HIDE DEF new
<1>5. TypeOK'
  <2>1. quote' \in Quote
    BY <1>3 DEF NoQuote, Quote, Collaterals
  <2>2. has_custom_oracle' \in [Pools -> BOOLEAN]
    BY <1>4, Zenon
  <2> QED BY <1>1, <1>3, <2>1, <2>2 DEF TypeOK
<1>6. PoolFeedsAreOwn'
  <2> SUFFICES ASSUME NEW p \in Pools
               PROVE  /\ has_custom_oracle'[p] <=> \E n \in FeedMints : feed'[p][n].exists
                      /\ \A n \in FeedMints : feed'[p][n].exists =>
                            feed'[p][n].authority = PoolAuthority[p]
    BY Zenon DEF PoolFeedsAreOwn
  <2>1. p \in Scopes /\ p # "global"
    BY ScopesAreNamed
  <2>2. /\ has_custom_oracle[p] <=> \E n \in FeedMints : feed[p][n].exists
        /\ \A n \in FeedMints :
              feed[p][n].exists => feed[p][n].authority = PoolAuthority[p]
    BY Zenon DEF PoolFeedsAreOwn
  <2>3. CASE s # p
    <3>1. \A n \in FeedMints : feed'[p][n] = feed[p][n]
      BY <1>1, <2>1, <2>3
    <3>2. has_custom_oracle'[p] <=> has_custom_oracle[p]
      BY <1>4, <2>3, Zenon
    <3> QED BY <2>2, <3>1, <3>2, Zenon
  <2>4. CASE s = p
    <3>1. k = PoolAuthority[p]
      <4>1. CASE feed[p][m].exists
        BY <1>3, <2>1, <2>2, <2>4, <4>1, Zenon DEF Publishers
      <4>2. CASE ~feed[p][m].exists
        BY <1>3, <2>1, <2>4, <4>2, Zenon DEF Publishers
      <4> QED BY <4>1, <4>2
    <3>2. has_custom_oracle'[p]
      BY <1>4, <2>2, <2>4, Zenon
    <3>3. feed'[p][m].exists
      BY <1>1, <1>2, <2>4, Zenon
    <3>4. ASSUME NEW n \in FeedMints, feed'[p][n].exists
          PROVE  feed'[p][n].authority = PoolAuthority[p]
      <4>1. CASE n = m
        BY <1>1, <1>2, <2>4, <3>1, <4>1, Zenon
      <4>2. CASE n # m
        <5>1. feed'[p][n] = feed[p][n]
          BY <1>1, <2>1, <4>2
        <5>2. feed[p][n].exists
          BY <3>4, <5>1, Zenon
        <5>3. feed[p][n].authority = PoolAuthority[p]
          BY <2>2, <5>2, Zenon
        <5> QED BY <5>1, <5>3
      <4> QED BY <4>1, <4>2
    <3> QED BY <3>2, <3>3, <3>4, Zenon
  <2> QED BY <2>3, <2>4
<1>7. FeedsPublished'
  <2> SUFFICES ASSUME NEW r \in Scopes, NEW n \in FeedMints, feed'[r][n].exists
               PROVE  feed'[r][n].price > 0 /\ feed'[r][n].last_updated_at \in 1..now
    BY <1>3, Zenon DEF FeedsPublished
  <2>1. CASE r = s /\ n = m
    <3>1. now \in 1..now
      BY DEF TypeOK
    <3> QED BY <1>1, <1>2, <2>1, <3>1
  <2>2. CASE ~(r = s /\ n = m)
    <3>1. feed'[r][n] = feed[r][n]
      BY <1>1, <2>2
    <3>2. feed[r][n].exists
      BY <3>1, Zenon
    <3> QED BY <3>1, <3>2, Zenon DEF FeedsPublished
  <2> QED BY <2>1, <2>2
<1> QED BY <1>5, <1>6, <1>7

\* What a valuation records is a quote.
LEMMA RateType ==
    ASSUME TypeOK, NEW s \in Scopes \cup {"omitted"}, NEW m \in FeedMints
    PROVE  Rate(s, m) \in Nat
<1>1. Baseline[m] \in Nat
  BY FeedParameterAssumption
<1>2. CASE Provisioned(s, m)
  <2>1. s \in Scopes
    BY <1>2 DEF Provisioned
  <2>2. feed[s][m].price \in Nat
    BY <2>1 DEF TypeOK, PriceFeed
  <2> QED BY <1>2, <2>2 DEF Rate
<1>3. CASE ~Provisioned(s, m)
  BY <1>1, <1>3 DEF Rate
<1> QED BY <1>2, <1>3

LEMMA FeedNext == FeedInv /\ [Next]_vars => FeedInv'
<1> SUFFICES ASSUME FeedInv, [Next]_vars PROVE FeedInv'
  OBVIOUS
<1> USE DEF FeedInv
\* Every step but a publication leaves the feeds and the marks alone.
<1> DEFINE FeedsKept == /\ UNCHANGED <<feed, has_custom_oracle>>
                        /\ now' \in Nat /\ now' >= now
                        /\ admin' \in AdminConfig /\ quote' \in Quote
<1>0. ASSUME FeedsKept PROVE FeedInv'
  <2>1. TypeOK'
    BY <1>0 DEF TypeOK
  <2>2. PoolFeedsAreOwn'
    BY <1>0, Zenon DEF PoolFeedsAreOwn
  <2>3. FeedsPublished'
    <3> SUFFICES ASSUME NEW r \in Scopes, NEW n \in FeedMints, feed[r][n].exists
                 PROVE  feed[r][n].price > 0 /\ feed[r][n].last_updated_at \in 1..now'
      BY <1>0, Zenon DEF FeedsPublished
    <3>1. feed[r][n].price > 0 /\ feed[r][n].last_updated_at \in 1..now
      BY Zenon DEF FeedsPublished
    <3> QED BY <1>0, <3>1 DEF TypeOK
  <2> QED BY <2>1, <2>2, <2>3
<1>n. NoQuote \in Quote
  BY DEF NoQuote, Quote, Collaterals
<1>1. CASE InitializeAdmin
  <2>1. FeedsKept
    BY <1>1, <1>n, FeedActorAssumption DEF InitializeAdmin, TypeOK, AdminConfig
  <2> QED BY <1>0, <2>1
<1>2. CASE Rotate
  <2>1. PICK a, o \in Keys : RotateAdmin(a, o)
    BY <1>2 DEF Rotate
  <2>2. admin' \in AdminConfig
    BY <2>1 DEF RotateAdmin, TypeOK, AdminConfig
  <2>3. FeedsKept
    BY <1>n, <2>1, <2>2 DEF RotateAdmin, TypeOK
  <2> QED BY <1>0, <2>3
<1>3. CASE Publish
  <2>1. PICK k \in Keys, s \in Scopes, m \in PublishedMints,
             x \in Prices, scaled \in BOOLEAN : SetPriceFeed(k, s, m, x, scaled)
    BY <1>3 DEF Publish
  <2>2. m \in FeedMints
    BY FeedParameterAssumption
  <2> QED BY <2>1, <2>2, PublishKeepsInv
<1>4. CASE Valuation
  <2>1. ASSUME NEW p \in Pools, NEW c \in Collaterals,
               NEW s \in Passed(p), NEW t \in Passed(p), Value(p, c, s, t)
        PROVE  FeedInv'
    <3>1. s \in Scopes \cup {"omitted"} /\ t \in Scopes \cup {"omitted"}
      BY DEF Passed, Scopes
    <3>2. c \in FeedMints /\ LiquidityMint(p) \in FeedMints
      BY DEF Collaterals, FeedMints, LiquidityMint
    <3>3. Rate(s, c) \in Nat /\ Rate(t, LiquidityMint(p)) \in Nat
      BY <3>1, <3>2, RateType
    <3>4. quote' \in Quote
      BY <2>1, <3>3 DEF Value, Quote
    <3> QED BY <1>0, <2>1, <3>4 DEF Value, TypeOK
  <2>2. ASSUME NEW c \in Collaterals, ValueOffer(c)
        PROVE  FeedInv'
    <3>1. c \in FeedMints /\ Baseline["USDC"] \in Nat
      BY FeedParameterAssumption DEF Collaterals, FeedMints
    <3>2. Rate("global", c) \in Nat
      BY <3>1, RateType, ScopesAreNamed
    <3>3. quote' \in Quote
      BY <2>2, <3>1, <3>2 DEF ValueOffer, Quote
    <3> QED BY <1>0, <2>2, <3>3 DEF ValueOffer, TypeOK
  <2> QED BY <1>4, <2>1, <2>2 DEF Valuation
<1>5. CASE Tick
  <2>1. FeedsKept
    BY <1>5, <1>n DEF Tick, TypeOK
  <2> QED BY <1>0, <2>1
<1>6. CASE UNCHANGED vars
  <2>1. FeedsKept
    BY <1>6 DEF vars, TypeOK
  <2> QED BY <1>0, <2>1
<1> QED BY <1>1, <1>2, <1>3, <1>4, <1>5, <1>6 DEF Next

\* A pool is marked as having feeds of its own exactly when it has one, those
\* are its authority's, and every feed was published with a price.
THEOREM FeedInvariant == Spec => []FeedInv
<1>1. Init => FeedInv
  BY FeedInit
<1>2. FeedInv /\ [Next]_vars => FeedInv'
  BY FeedNext
<1> QED BY <1>1, <1>2, PTL DEF Spec

-----------------------------------------------------------------------------
(* The prices of valuations.                                               *)

\* A provisioned feed of a readable age was published within MaxPriceAge.
LEMMA ReadableIsRecent ==
    ASSUME FeedInv, NEW s \in Scopes, NEW c \in FeedMints, Readable(s, c)
    PROVE  now - feed[s][c].last_updated_at <= MaxPriceAge
<1>1. feed[s][c].last_updated_at \in Nat /\ now \in Nat
  BY DEF FeedInv, TypeOK, PriceFeed
<1> QED BY <1>1, FeedParameterAssumption DEF Readable, Fresh, Least

LEMMA RatesAreRecent ==
    ASSUME FeedInv, NEW p \in Pools, NEW s \in Passed(p), NEW c \in FeedMints,
           Provisioned(s, c), Readable(s, c)
    PROVE  Recent(c, Rate(s, c))
<1>1. feed[s][c].exists /\ s # "omitted" /\ Rate(s, c) = feed[s][c].price
  BY Zenon DEF Provisioned, Rate
<1>2. s \in Scopes
  BY <1>1 DEF Passed, Scopes
<1>3. now - feed[s][c].last_updated_at <= MaxPriceAge
  BY <1>2, ReadableIsRecent
<1> QED BY <1>1, <1>2, <1>3, Zenon DEF Recent

\* A pool's own feed, once it has one, is the one a borrow's rate comes from.
LEMMA OwnFeedRules ==
    ASSUME FeedInv, NEW p \in Pools, NEW m \in FeedMints, NEW s \in Passed(p),
           has_custom_oracle[p] => s = p
    PROVE  OwnRate(p, m, Rate(s, m))
<1>1. p # "omitted"
  BY ScopesAreNamed
<1>2. CASE feed[p][m].exists
  <2>1. has_custom_oracle[p]
    BY <1>2, Zenon DEF FeedInv, PoolFeedsAreOwn
  <2>2. s = p
    BY <2>1
  <2>3. Provisioned(s, m)
    BY <1>1, <1>2, <2>2, Zenon DEF Provisioned
  <2> QED BY <1>2, <2>2, <2>3, Zenon DEF OwnRate, Rate
<1>3. CASE ~feed[p][m].exists
  <2> SUFFICES ASSUME has_custom_oracle[p] PROVE Rate(s, m) = Baseline[m]
    BY <1>3, Zenon DEF OwnRate
  <2>1. ~Provisioned(s, m)
    BY <1>3, Zenon DEF Provisioned
  <2> QED BY <2>1, Zenon DEF Rate
<1> QED BY <1>2, <1>3

\* Every step but a valuation leaves no quote behind.
LEMMA OnlyValuationsQuote ==
    ASSUME [Next]_vars
    PROVE  Valuation \/ quote' = NoQuote \/ UNCHANGED vars
BY DEF Next, InitializeAdmin, Rotate, RotateAdmin, Publish, SetPriceFeed, Tick

\* A borrow's valuation obeys the pool's own feeds and the bound on age.
LEMMA ValueIsSound ==
    ASSUME FeedInv, NEW p \in Pools, NEW c \in Collaterals,
           NEW s \in Passed(p), NEW t \in Passed(p), Value(p, c, s, t)
    PROVE  CustomFeedIsAuthoritative' /\ StalePricesRefused'
<1> DEFINE m == LiquidityMint(p)
<1>1. c \in FeedMints /\ m \in FeedMints
  BY DEF Collaterals, FeedMints, LiquidityMint
<1>2. /\ quote'.pool = p /\ quote'.collateral = c
      /\ quote'.price = Rate(s, c) /\ quote'.liquidity_price = Rate(t, m)
      /\ UNCHANGED <<now, admin, feed, has_custom_oracle>>
  BY DEF Value
<1>3. CollateralPriced(p, c, s) /\ LiquidityPriced(p, c, t)
  BY DEF Value
<1>4. CustomFeedIsAuthoritative'
  <2>1. OwnRate(p, c, Rate(s, c))
    BY <1>1, <1>3, OwnFeedRules DEF CollateralPriced
  <2>2. ASSUME m # c PROVE OwnRate(p, m, Rate(t, m))
    BY <1>1, <1>3, <2>2, OwnFeedRules DEF LiquidityPriced
  <2> QED BY <1>2, <2>1, <2>2 DEF CustomFeedIsAuthoritative, OwnRate
<1>5. StalePricesRefused'
  <2>1. ASSUME Provisioned(s, c) PROVE Recent(c, Rate(s, c))
    BY <1>1, <1>3, <2>1, RatesAreRecent DEF CollateralPriced
  <2>2. Recent(c, Rate(s, c)) \/ (Rate(s, c) = Baseline[c] /\ p \in OracleFree)
    BY <1>3, <2>1 DEF CollateralPriced, Rate
  <2>3. ASSUME m # c, Provisioned(t, m) PROVE Recent(m, Rate(t, m))
    BY <1>1, <1>3, <2>3, RatesAreRecent DEF LiquidityPriced
  <2>4. \/ Recent(m, Rate(t, m))
        \/ Rate(t, m) = Baseline[m] /\ (p \in OracleFree \/ p \notin NativePools)
    <3>1. CASE m = c
      BY <1>3, <3>1 DEF LiquidityPriced, Rate, Provisioned
    <3>2. CASE m # c
      BY <1>3, <2>3, <3>2 DEF LiquidityPriced, Rate
    <3> QED BY <3>1, <3>2
  <2>5. p \notin NativePools => m = "USDC"
    BY DEF LiquidityMint
  <2>6. \A n, x : Recent(n, x)' <=> Recent(n, x)
    BY <1>2 DEF Recent
  <2> QED BY <1>2, <2>2, <2>4, <2>5, <2>6, Zenon DEF StalePricesRefused
<1> QED BY <1>4, <1>5

\* So does the valuation of an offer, which no pool has a say in.
LEMMA ValueOfferIsSound ==
    ASSUME FeedInv, NEW c \in Collaterals, ValueOffer(c)
    PROVE  CustomFeedIsAuthoritative' /\ StalePricesRefused'
<1>1. /\ quote'.pool = "deck" /\ quote'.collateral = c
      /\ quote'.price = Rate("global", c)
      /\ UNCHANGED <<now, admin, feed, has_custom_oracle>>
  BY DEF ValueOffer
<1>2. c \in FeedMints
  BY DEF Collaterals, FeedMints
<1>3. Provisioned("global", c) /\ Readable("global", c)
  BY DEF ValueOffer
<1>4. feed["global"][c].exists /\ Rate("global", c) = feed["global"][c].price
  BY <1>3, Zenon DEF Provisioned, Rate
<1>5. now - feed["global"][c].last_updated_at <= MaxPriceAge
  BY <1>2, <1>3, ScopesAreNamed, ReadableIsRecent
<1>6. StalePricesRefused'
  <2>1. Recent(c, Rate("global", c))
    BY <1>4, <1>5, ScopesAreNamed, Zenon DEF Recent
  <2>2. LiquidityMint("deck") = "USDC"
    BY ScopesAreNamed, FeedActorAssumption DEF LiquidityMint
  <2>3. quote'.liquidity_price = Baseline["USDC"]
    BY DEF ValueOffer
  <2>4. \A n, x : Recent(n, x)' <=> Recent(n, x)
    BY <1>1 DEF Recent
  <2> QED BY <1>1, <2>1, <2>2, <2>3, <2>4, Zenon DEF StalePricesRefused
<1>7. CustomFeedIsAuthoritative'
  <2>1. "deck" \notin Pools
    BY ScopesAreNamed
  <2> QED BY <1>1, <2>1 DEF CustomFeedIsAuthoritative
<1> QED BY <1>6, <1>7

LEMMA NothingQuoted ==
    quote = NoQuote => CustomFeedIsAuthoritative /\ StalePricesRefused
<1> SUFFICES ASSUME quote = NoQuote PROVE CustomFeedIsAuthoritative
  BY DEF StalePricesRefused
<1>1. quote.pool = "none" /\ "none" \notin Pools
  BY ScopesAreNamed DEF NoQuote
<1> QED BY <1>1 DEF CustomFeedIsAuthoritative

LEMMA QuotesStaySound ==
    /\ FeedInv /\ CustomFeedIsAuthoritative /\ StalePricesRefused
    /\ [Next]_vars
    => CustomFeedIsAuthoritative' /\ StalePricesRefused'
<1> SUFFICES ASSUME FeedInv, CustomFeedIsAuthoritative, StalePricesRefused, [Next]_vars
             PROVE  CustomFeedIsAuthoritative' /\ StalePricesRefused'
  OBVIOUS
<1>1. CASE Valuation
  BY <1>1, ValueIsSound, ValueOfferIsSound DEF Valuation
<1>2. CASE quote' = NoQuote
  <2>1. quote'.pool = "none" /\ "none" \notin Pools
    BY <1>2, ScopesAreNamed DEF NoQuote
  <2>2. CustomFeedIsAuthoritative'
    BY <2>1 DEF CustomFeedIsAuthoritative
  <2> QED BY <1>2, <2>2 DEF StalePricesRefused
<1>3. CASE UNCHANGED vars
  BY <1>3 DEF vars, CustomFeedIsAuthoritative, StalePricesRefused, OwnRate, Recent
<1> QED BY <1>1, <1>2, <1>3, OnlyValuationsQuote

\* A pool with feeds of its own is valued at those, whichever accounts the
\* borrower passes or leaves out.
THEOREM PoolsAreValuedAtTheirFeeds == Spec => []CustomFeedIsAuthoritative
<1>1. Init => CustomFeedIsAuthoritative /\ StalePricesRefused
  BY NothingQuoted DEF Init
<1> QED BY <1>1, FeedInvariant, QuotesStaySound, PTL DEF Spec

\* No valuation goes by a price published longer than the bound ago, of what is
\* pledged or of what is lent.
THEOREM NoStalePrice == Spec => []StalePricesRefused
<1>1. Init => CustomFeedIsAuthoritative /\ StalePricesRefused
  BY NothingQuoted DEF Init
<1> QED BY <1>1, FeedInvariant, QuotesStaySound, PTL DEF Spec

-----------------------------------------------------------------------------
(* The keys that can publish.                                              *)

LEMMA PublishAddsNobody ==
    ASSUME TypeOK, NEW k \in Keys, NEW s \in Scopes, NEW m \in FeedMints,
           NEW price \in Prices, NEW scaled \in BOOLEAN,
           SetPriceFeed(k, s, m, price, scaled),
           NEW r \in Scopes, NEW n \in FeedMints
    PROVE  Publishers(r, n)' \subseteq Publishers(r, n)
<1>1. /\ feed'[s][m] = Feed(k, price, scaled)
      /\ (r # s \/ n # m => feed'[r][n] = feed[r][n])
  BY PublishedFeeds
<1>2. admin' = admin /\ k \in Publishers(s, m)
  BY DEF SetPriceFeed
<1>3. Current' = Current
  BY <1>2 DEF Current
<1>4. CASE r # s \/ n # m
  <2>1. feed'[r][n] = feed[r][n]
    BY <1>1, <1>4
  <2> QED BY <1>3, <2>1 DEF Publishers
<1>5. CASE r = s /\ n = m
  <2>1. feed'[r][n].exists /\ feed'[r][n].authority = k
    <3>1. feed'[r][n] = Feed(k, price, scaled)
      BY <1>1, <1>5
    <3>2. Feed(k, price, scaled).exists
      BY Zenon DEF Feed
    <3>3. Feed(k, price, scaled).authority = k
      BY DEF Feed
    <3> QED BY <3>1, <3>2, <3>3, Zenon
  <2>2. Publishers(r, n)' = {k} \cup (IF r = "global" THEN Current ELSE {})
    BY <1>3, <2>1, Zenon DEF Publishers
  <2>3. (IF r = "global" THEN Current ELSE {}) \subseteq Publishers(r, n)
    BY Zenon DEF Publishers
  <2> QED BY <1>2, <1>5, <2>2, <2>3
<1> QED BY <1>4, <1>5

\* Whoever publishes, nobody new can publish until the configuration changes.
THEOREM OnlyRotationsAddPublishers == Spec => PublishersOnlyByRotation
<1> DEFINE Kept == \A s \in Scopes, m \in FeedMints :
                      Publishers(s, m)' \subseteq Publishers(s, m)
<1>1. FeedInv /\ [Next]_vars => [admin' # admin \/ Kept]_vars
  <2> SUFFICES ASSUME FeedInv, Next, admin' = admin PROVE Kept
    BY DEF vars
  <2>1. CASE Publish
    <3>1. PICK k \in Keys, s \in Scopes, m \in PublishedMints,
               x \in Prices, scaled \in BOOLEAN : SetPriceFeed(k, s, m, x, scaled)
      BY <2>1 DEF Publish
    <3>2. m \in FeedMints
      BY FeedParameterAssumption
    <3> QED BY <3>1, <3>2, PublishAddsNobody DEF FeedInv
  <2>2. CASE ~Publish
    <3>1. feed' = feed
      BY <2>2 DEF Next, InitializeAdmin, Rotate, RotateAdmin, Valuation, Value,
                  ValueOffer, Tick
    <3> QED BY <3>1 DEF Publishers, Current
  <2> QED BY <2>1, <2>2
<1> QED BY <1>1, FeedInvariant, PTL DEF Spec, PublishersOnlyByRotation
-----------------------------------------------------------------------------
(* The borrows that are served.                                            *)

\* The feeds of the scope that prices a pool are the accounts to pass.
LEMMA ReadyFeedsServe ==
    ASSUME NEW p \in Pools, NEW c \in Collaterals, LiquidityMint(p) # c
    PROVE  Served(p, c)
<1> DEFINE s == IF has_custom_oracle[p] THEN p ELSE "global"
           m == LiquidityMint(p)
<1> SUFFICES ASSUME FeedsReady(p, c)
             PROVE  \E r, t \in Passed(p) : CollateralPriced(p, c, r) /\ LiquidityPriced(p, c, t)
  BY DEF Served
<1>1. s \in Passed(p) /\ (has_custom_oracle[p] => s = p)
  BY DEF Passed
<1>2. Provisioned(s, c) /\ Readable(s, c)
  BY DEF FeedsReady, Ready
<1>3. CollateralPriced(p, c, s)
  BY <1>1, <1>2, Zenon DEF CollateralPriced
<1>4. (Provisioned(s, m) /\ Readable(s, m)) \/ (m = "USDC" /\ ~Provisioned(s, m))
  BY DEF FeedsReady, Ready
<1>5. m = "USDC" => p \notin NativePools
  BY DEF LiquidityMint
<1>6. m # c
  OBVIOUS
<1> HIDE DEF s, m
<1>7. LiquidityPriced(p, c, s)
  BY <1>1, <1>4, <1>5, <1>6, Zenon DEF LiquidityPriced, m
<1> QED BY <1>1, <1>3, <1>7, Zenon

\* A borrow across mints whose feeds are fresh and of the right scale has
\* accounts to pass with which the program values it.
THEOREM ReadyCrossBorrowsAreServed == Spec => []CrossBorrowsAreServed
<1>1. CrossBorrowsAreServed
  BY ReadyFeedsServe DEF CrossBorrowsAreServed
<1> QED BY <1>1, PTL

-----------------------------------------------------------------------------
(* The job that publishes the global feeds.                               *)

Run == [slot : Nat, started : Nat, observed : Nat]

\* Jobs start and end in time, and observe prices after they started.
RunsOnTime ==
    /\ runs \subseteq Run
    /\ \A r \in runs :
          /\ r.started <= now /\ now <= r.started + RunTime
          /\ r.slot # 0 => r.started <= r.slot + Jitter
          /\ r.observed # 0 => r.started <= r.observed

ScheduleKept ==
    /\ due \in Nat \ {0} /\ now <= due + Jitter /\ due <= now + Period
    /\ misses \in 0..MaxMisses

\* Only the job publishes: both global feeds at once, prices observed no
\* earlier than a job's duration before.
JobPublishes ==
    /\ \A p \in Pools, m \in FeedMints : ~feed[p][m].exists
    /\ \A m \in Collaterals :
          LET f == feed["global"][m] IN
          /\ f.exists <=> feed["global"]["SOL"].exists
          /\ f.last_updated_at = feed["global"]["SOL"].last_updated_at
          /\ f.exists => f.scaled /\ f.last_updated_at <= f.price + RunTime

KeeperInv == FeedInv /\ RunsOnTime /\ ScheduleKept /\ JobPublishes

-----------------------------------------------------------------------------
(* The steps of the job.                                                   *)

LEMMA KeeperInvInit == KeeperInit => KeeperInv
<1> SUFFICES ASSUME KeeperInit PROVE KeeperInv
  OBVIOUS
<1>1. FeedInv
  BY FeedInit DEF KeeperInit
<1>2. RunsOnTime /\ ScheduleKept
  BY KeeperAssumption DEF KeeperInit, Init, RunsOnTime, ScheduleKept
<1>3. JobPublishes
  <2>1. \A s \in Scopes, m \in FeedMints : feed[s][m] = NoFeed
    BY DEF KeeperInit, Init
  <2>2. ~NoFeed.exists
    BY Zenon DEF NoFeed
  <2>3. "SOL" \in FeedMints /\ Collaterals \subseteq FeedMints
    BY DEF FeedMints, Collaterals
  <2> QED BY <2>1, <2>2, <2>3, ScopesAreNamed, Zenon DEF JobPublishes
<1> QED BY <1>1, <1>2, <1>3 DEF KeeperInv

\* What a landed job leaves: two new feeds, nothing else.
LEMMA LandedFeeds ==
    ASSUME KeeperInv, NEW r \in runs, Land(r)
    PROVE  /\ \A s \in Scopes, m \in FeedMints :
                 s # "global" \/ m \notin Collaterals => feed'[s][m] = feed[s][m]
           /\ \A m \in Collaterals :
                 /\ feed'["global"][m] = Feed(Keeper, r.observed, TRUE)
                 /\ feed'["global"][m].exists /\ feed'["global"][m].scaled
                 /\ feed'["global"][m].price = r.observed
                 /\ feed'["global"][m].last_updated_at = now
           /\ feed' \in [Scopes -> [FeedMints -> PriceFeed]]
           /\ r.observed \in Nat \ {0} /\ r.started <= r.observed
<1> DEFINE new == Feed(Keeper, r.observed, TRUE)
<1>1. feed \in [Scopes -> [FeedMints -> PriceFeed]] /\ now \in Nat /\ admin \in AdminConfig
  BY DEF KeeperInv, FeedInv, TypeOK
<1>2. r.observed \in Nat \ {0} /\ r.started <= r.observed
  BY DEF KeeperInv, RunsOnTime, Run, Land
<1>3. /\ new.exists /\ new.scaled
      /\ new.price = r.observed /\ new.last_updated_at = now
      /\ new.authority = Keeper
  <2>1. new.exists /\ new.scaled
    BY Zenon DEF Feed
  <2> QED BY <2>1 DEF Feed
<1>4. new \in PriceFeed
  BY <1>1, <1>2 DEF Feed, PriceFeed, Keeper, AdminConfig
<1>5. feed' = [feed EXCEPT !["global"] =
                 [m \in FeedMints |-> IF m \in Collaterals THEN new ELSE @[m]]]
  BY DEF Land
<1>6. Collaterals \subseteq FeedMints
  BY DEF Collaterals, FeedMints
<1> HIDE DEF new
<1>7. feed'["global"] = [m \in FeedMints |-> IF m \in Collaterals THEN new
                                             ELSE feed["global"][m]]
  BY <1>1, <1>5, ScopesAreNamed
<1>8. \A s \in Scopes : s # "global" => feed'[s] = feed[s]
  BY <1>1, <1>5
<1>9. \A m \in Collaterals : feed'["global"][m] = new
  BY <1>6, <1>7
<1>10. \A m \in FeedMints : m \notin Collaterals => feed'["global"][m] = feed["global"][m]
  BY <1>7
<1>11. feed' \in [Scopes -> [FeedMints -> PriceFeed]]
  <2>1. [m \in FeedMints |-> IF m \in Collaterals THEN new ELSE feed["global"][m]]
            \in [FeedMints -> PriceFeed]
    BY <1>1, <1>4, ScopesAreNamed
  <2> QED BY <1>1, <1>5, <2>1, ScopesAreNamed
<1>12. \A m \in Collaterals :
          /\ feed'["global"][m].exists /\ feed'["global"][m].scaled
          /\ feed'["global"][m].price = r.observed
          /\ feed'["global"][m].last_updated_at = now
  BY <1>3, <1>9, Zenon
<1> QED BY <1>2, <1>8, <1>9, <1>10, <1>11, <1>12 DEF new

LEMMA LandKeepsInv ==
    ASSUME KeeperInv, NEW r \in runs, Land(r)
    PROVE  KeeperInv'
<1>1. /\ UNCHANGED <<now, admin, has_custom_oracle, due>>
      /\ runs' = runs \ {r} /\ misses' = 0 /\ quote' = NoQuote
  BY DEF Land
<1>2. /\ \A s \in Scopes, m \in FeedMints :
            s # "global" \/ m \notin Collaterals => feed'[s][m] = feed[s][m]
      /\ \A m \in Collaterals :
            /\ feed'["global"][m].exists /\ feed'["global"][m].scaled
            /\ feed'["global"][m].price = r.observed
            /\ feed'["global"][m].last_updated_at = now
      /\ feed' \in [Scopes -> [FeedMints -> PriceFeed]]
      /\ r.observed \in Nat \ {0} /\ r.started <= r.observed
  BY LandedFeeds
<1>3. now \in Nat \ {0} /\ "SOL" \in Collaterals
  BY DEF KeeperInv, FeedInv, TypeOK, Collaterals
<1>4. FeedInv'
  <2>1. quote' \in Quote
    BY <1>1 DEF NoQuote, Quote, Collaterals
  <2>2. TypeOK'
    BY <1>1, <1>2, <2>1 DEF KeeperInv, FeedInv, TypeOK
  <2>3. PoolFeedsAreOwn'
    <3>1. \A p \in Pools, m \in FeedMints : feed'[p][m] = feed[p][m]
      BY <1>2, ScopesAreNamed, Zenon
    <3>2. has_custom_oracle' = has_custom_oracle
      BY <1>1
    <3> SUFFICES ASSUME NEW p \in Pools
                 PROVE  /\ has_custom_oracle[p] <=> \E m \in FeedMints : feed'[p][m].exists
                        /\ \A m \in FeedMints : feed'[p][m].exists =>
                              feed'[p][m].authority = PoolAuthority[p]
      BY <3>2, Zenon DEF PoolFeedsAreOwn
    <3>3. /\ has_custom_oracle[p] <=> \E m \in FeedMints : feed[p][m].exists
          /\ \A m \in FeedMints :
                feed[p][m].exists => feed[p][m].authority = PoolAuthority[p]
      BY Zenon DEF KeeperInv, FeedInv, PoolFeedsAreOwn
    <3>4. \A m \in FeedMints : feed'[p][m].exists <=> feed[p][m].exists
      BY <3>1, Zenon
    <3>5. \A m \in FeedMints : feed'[p][m].authority = feed[p][m].authority
      BY <3>1, Zenon
    <3> QED BY <3>3, <3>4, <3>5, Zenon
  <2>4. FeedsPublished'
    <3> SUFFICES ASSUME NEW s \in Scopes, NEW m \in FeedMints, feed'[s][m].exists
                 PROVE  feed'[s][m].price > 0 /\ feed'[s][m].last_updated_at \in 1..now
      BY <1>1, Zenon DEF FeedsPublished
    <3>1. CASE s = "global" /\ m \in Collaterals
      BY <1>2, <1>3, <3>1
    <3>2. CASE s # "global" \/ m \notin Collaterals
      <4>1. feed'[s][m] = feed[s][m]
        BY <1>2, <3>2, Zenon
      <4>2. feed[s][m].exists
        BY <4>1, Zenon
      <4> QED BY <4>1, <4>2, Zenon DEF KeeperInv, FeedInv, FeedsPublished
    <3> QED BY <3>1, <3>2
  <2> QED BY <2>2, <2>3, <2>4 DEF FeedInv
<1>5. RunsOnTime'
  BY <1>1 DEF KeeperInv, RunsOnTime
<1>6. ScheduleKept'
  BY <1>1, KeeperAssumption DEF KeeperInv, ScheduleKept
<1>7. JobPublishes'
  <2>1. ASSUME NEW p \in Pools, NEW m \in FeedMints PROVE ~feed'[p][m].exists
    <3>1. feed'[p][m] = feed[p][m]
      BY <1>2, ScopesAreNamed, Zenon
    <3> QED BY <3>1, Zenon DEF KeeperInv, JobPublishes
  <2>2. ASSUME NEW m \in Collaterals
        PROVE  feed'["global"][m].last_updated_at <= feed'["global"][m].price + RunTime
    <3>1. r.started \in Nat /\ now <= r.started + RunTime
      BY DEF KeeperInv, RunsOnTime, Run
    <3> QED BY <1>2, <1>3, <3>1, KeeperAssumption
  <2>3. \A m \in Collaterals :
           /\ feed'["global"][m].exists <=> feed'["global"]["SOL"].exists
           /\ feed'["global"][m].last_updated_at = feed'["global"]["SOL"].last_updated_at
    BY <1>2, <1>3, Zenon
  <2> QED BY <1>2, <2>1, <2>2, <2>3, Zenon DEF JobPublishes
<1> QED BY <1>4, <1>5, <1>6, <1>7 DEF KeeperInv

LEMMA KeeperInvNext == KeeperInv /\ [KeeperNext]_keeperVars => KeeperInv'
<1> SUFFICES ASSUME KeeperInv, [KeeperNext]_keeperVars PROVE KeeperInv'
  OBVIOUS
<1>t. now \in Nat \ {0}
  BY DEF KeeperInv, FeedInv, TypeOK
\* FeedInv and JobPublishes need only the feeds' own steps.
<1>f. ASSUME [Next]_vars, UNCHANGED feed PROVE FeedInv' /\ JobPublishes'
  <2>1. FeedInv'
    BY <1>f, FeedNext DEF KeeperInv
  <2>2. JobPublishes'
    BY <1>f, Zenon DEF KeeperInv, JobPublishes
  <2> QED BY <2>1, <2>2
<1>1. CASE SetUp
  <2>1. FeedInv' /\ JobPublishes'
    BY <1>1, <1>f DEF SetUp, Next, InitializeAdmin
  <2>2. RunsOnTime' /\ ScheduleKept'
    BY <1>1 DEF SetUp, InitializeAdmin, KeeperInv, RunsOnTime, ScheduleKept
  <2> QED BY <2>1, <2>2 DEF KeeperInv
<1>2. CASE Start
  <2>1. FeedInv' /\ JobPublishes'
    BY <1>2, <1>f DEF Start, vars
  <2>2. now' = now
    BY <1>2 DEF Start, vars
  <2>3. ScheduleKept'
    BY <1>2, <1>t, <2>2, KeeperAssumption DEF Start, KeeperInv, ScheduleKept
  <2>4. RunsOnTime'
    BY <1>2, <1>t, <2>2, KeeperAssumption
       DEF Start, NewRun, KeeperInv, ScheduleKept, RunsOnTime, Run
  <2> QED BY <2>1, <2>3, <2>4 DEF KeeperInv
<1>3. CASE Dispatch
  <2>1. FeedInv' /\ JobPublishes'
    BY <1>3, <1>f DEF Dispatch, vars
  <2>2. now' = now
    BY <1>3 DEF Dispatch, vars
  <2>3. ScheduleKept'
    BY <1>3, <2>2 DEF Dispatch, KeeperInv, ScheduleKept
  <2>4. RunsOnTime'
    BY <1>3, <1>t, <2>2, KeeperAssumption DEF Dispatch, NewRun, KeeperInv, RunsOnTime, Run
  <2> QED BY <2>1, <2>3, <2>4 DEF KeeperInv
<1>4. CASE KeeperTick
  <2>1. FeedInv' /\ JobPublishes'
    BY <1>4, <1>f DEF KeeperTick, Next, Tick
  <2>2. RunsOnTime'
    <3> SUFFICES ASSUME NEW r \in runs
                 PROVE  r.started <= now + 1 /\ now + 1 <= r.started + RunTime
      BY <1>4 DEF KeeperTick, Tick, KeeperInv, RunsOnTime
    <3>1. r.started \in Nat /\ r.started <= now /\ now < r.started + RunTime
      BY <1>4 DEF KeeperTick, KeeperInv, RunsOnTime, Run
    <3> QED BY <1>t, <3>1, KeeperAssumption
  <2>3. ScheduleKept'
    BY <1>4, <1>t, KeeperAssumption DEF KeeperTick, Tick, KeeperInv, ScheduleKept
  <2> QED BY <2>1, <2>2, <2>3 DEF KeeperInv
<1>5. CASE Quote1
  <2>1. FeedInv' /\ JobPublishes'
    BY <1>5, <1>f DEF Quote1, Next, Valuation, Value, ValueOffer
  <2>2. RunsOnTime' /\ ScheduleKept'
    BY <1>5 DEF Quote1, Valuation, Value, ValueOffer, KeeperInv, RunsOnTime, ScheduleKept
  <2> QED BY <2>1, <2>2 DEF KeeperInv
<1>6. ASSUME NEW r \in runs, Observe(r) PROVE KeeperInv'
  <2>1. FeedInv' /\ JobPublishes'
    BY <1>6, <1>f DEF Observe, vars
  <2>2. ScheduleKept'
    BY <1>6 DEF Observe, vars, KeeperInv, ScheduleKept
  <2>3. RunsOnTime'
    BY <1>6, <1>t DEF Observe, vars, KeeperInv, RunsOnTime, Run
  <2> QED BY <2>1, <2>2, <2>3 DEF KeeperInv
<1>7. ASSUME NEW r \in runs, Drop(r) PROVE KeeperInv'
  <2>1. FeedInv' /\ JobPublishes'
    BY <1>7, <1>f DEF Drop, vars
  <2>2. ScheduleKept'
    BY <1>7, KeeperAssumption DEF Drop, vars, KeeperInv, ScheduleKept
  <2>3. RunsOnTime'
    BY <1>7 DEF Drop, vars, KeeperInv, RunsOnTime
  <2> QED BY <2>1, <2>2, <2>3 DEF KeeperInv
<1>8. CASE UNCHANGED keeperVars
  <2>1. FeedInv' /\ JobPublishes'
    BY <1>8, <1>f DEF keeperVars, vars
  <2>2. RunsOnTime' /\ ScheduleKept'
    BY <1>8 DEF keeperVars, vars, KeeperInv, RunsOnTime, ScheduleKept
  <2> QED BY <2>1, <2>2 DEF KeeperInv
<1> QED
  BY <1>1, <1>2, <1>3, <1>4, <1>5, <1>6, <1>7, <1>8, LandKeepsInv DEF KeeperNext

LEMMA KeeperInvariant == KeeperSpec => []KeeperInv
BY KeeperInvInit, KeeperInvNext, PTL DEF KeeperSpec

-----------------------------------------------------------------------------
(* How old a price can be.                                                 *)

\* A feed that can be read has the price of a recent observation.
LEMMA ReadablePriceIsRecent ==
    ASSUME KeeperInv, NEW c \in Collaterals, feed["global"][c].exists,
           Readable("global", c)
    PROVE  now - feed["global"][c].price <= MaxPriceAge + RunTime
<1>1. c \in FeedMints
  BY DEF Collaterals, FeedMints
<1>2. now - feed["global"][c].last_updated_at <= MaxPriceAge
  BY <1>1, ReadableIsRecent, ScopesAreNamed DEF KeeperInv
<1>3. feed["global"][c].last_updated_at <= feed["global"][c].price + RunTime
  BY DEF KeeperInv, JobPublishes
<1>4. /\ now \in Nat /\ feed["global"][c].price \in Nat
      /\ feed["global"][c].last_updated_at \in Nat
  BY <1>1, ScopesAreNamed DEF KeeperInv, FeedInv, TypeOK, PriceFeed
<1> QED BY <1>2, <1>3, <1>4, FeedParameterAssumption, KeeperAssumption

LEMMA PriceStaysRecent ==
    KeeperInv /\ PriceIsRecent /\ [KeeperNext]_keeperVars => PriceIsRecent'
<1> SUFFICES ASSUME KeeperInv, PriceIsRecent, [KeeperNext]_keeperVars
             PROVE  PriceIsRecent'
  OBVIOUS
<1>1. ASSUME NEW p \in Pools, NEW c \in Collaterals,
             NEW s \in Passed(p), NEW t \in Passed(p), Value(p, c, s, t)
      PROVE  PriceIsRecent'
  <2>1. /\ quote'.collateral = c /\ quote'.price = Rate(s, c) /\ now' = now
        /\ CollateralPriced(p, c, s)
    BY <1>1 DEF Value
  <2>2. c \in FeedMints
    BY DEF Collaterals, FeedMints
  <2>3. CASE Provisioned(s, c)
    <3>1. s # "omitted" /\ feed[s][c].exists /\ Rate(s, c) = feed[s][c].price
      BY <2>3, Zenon DEF Provisioned, Rate
    <3>2. s = "global"
      <4>1. ~feed[p][c].exists
        BY <2>2, Zenon DEF KeeperInv, JobPublishes
      <4>2. s \in {"omitted", "global", p}
        BY DEF Passed
      <4>3. s # p
        BY <3>1, <4>1, Zenon
      <4> QED BY <3>1, <4>2, <4>3
    <3>3. Readable("global", c)
      BY <2>1, <2>3, <3>2, Zenon DEF CollateralPriced
    <3> QED BY <2>1, <3>1, <3>2, <3>3, ReadablePriceIsRecent DEF PriceIsRecent
  <2>4. CASE ~Provisioned(s, c)
    <3>1. Rate(s, c) = Baseline[c]
      BY <2>4, Zenon DEF Rate
    <3> QED BY <2>1, <3>1 DEF PriceIsRecent
  <2> QED BY <2>3, <2>4
<1>2. ASSUME NEW c \in Collaterals, ValueOffer(c)
      PROVE  PriceIsRecent'
  <2>1. /\ quote'.collateral = c /\ quote'.price = Rate("global", c) /\ now' = now
        /\ Provisioned("global", c) /\ Readable("global", c)
    BY <1>2 DEF ValueOffer
  <2>2. feed["global"][c].exists /\ Rate("global", c) = feed["global"][c].price
    BY <2>1, Zenon DEF Provisioned, Rate
  <2> QED BY <2>1, <2>2, ReadablePriceIsRecent DEF PriceIsRecent
<1>3. CASE Valuation
  BY <1>1, <1>2, <1>3 DEF Valuation
<1>4. CASE quote' = NoQuote
  BY <1>4 DEF PriceIsRecent
<1>5. CASE now' = now /\ quote' = quote
  BY <1>5 DEF PriceIsRecent
<1>6. Valuation \/ quote' = NoQuote \/ (now' = now /\ quote' = quote)
  BY DEF KeeperNext, SetUp, InitializeAdmin, Start, Dispatch, KeeperTick, Tick, Quote1,
         Observe, Land, Drop, keeperVars, vars
<1> QED BY <1>3, <1>4, <1>5, <1>6

\* Whatever jobs overtake each other, no collateral is valued at a price
\* observed longer ago than the bound on its publication and a job's duration.
THEOREM PricesAreRecent == KeeperSpec => []PriceIsRecent
<1>1. KeeperInit => PriceIsRecent
  BY DEF KeeperInit, Init, PriceIsRecent
<1> QED BY <1>1, KeeperInvariant, PriceStaysRecent, PTL DEF KeeperSpec

-----------------------------------------------------------------------------
(* What keeps the feeds going.                                             *)

\* The n-th job due after the first.
Due(first, n) == first + n * Period

\* The job due then is still under way, or is among those that failed.
Accounted(slot, failed) ==
    \/ \E r \in runs : r.slot = slot
    \/ \E i \in 1..misses : failed[i] = slot

\* Every job that was due since the feeds were last published is accounted for:
\* it is under way, or one of the failures in a row.
SlotsAccounted(first, count, failed) ==
    /\ first <= feed["global"]["SOL"].last_updated_at + Period
    /\ due = Due(first, count)
    /\ \A n \in 0..(count - 1) : Accounted(Due(first, n), failed)
JobsAccounted ==
    feed["global"]["SOL"].exists =>
        \E first \in Nat \ {0}, count \in Nat :
            \E failed \in [1..misses -> Nat] : SlotsAccounted(first, count, failed)

LEMMA DueType ==
    ASSUME NEW first \in Nat, NEW n \in Nat
    PROVE  /\ Due(first, n) \in Nat /\ Due(first, n) >= first
           /\ Due(first, n + 1) = Due(first, n) + Period
           /\ Due(first, 0) = first
<1>1. n * Period \in Nat /\ (n + 1) * Period = n * Period + Period /\ 0 * Period = 0
  BY KeeperAssumption
<1> QED BY <1>1, KeeperAssumption DEF Due

LEMMA DueGrows ==
    ASSUME NEW first \in Nat, NEW i \in Nat, NEW j \in Nat, i < j
    PROVE  Due(first, i) < Due(first, j)
<1>1. j - i \in Nat \ {0} /\ Period \in Nat \ {0}
  BY KeeperAssumption
<1>2. (j - i) * Period \in Nat \ {0}
  BY <1>1
<1>3. j * Period = i * Period + (j - i) * Period
  BY <1>1
<1>4. i * Period \in Nat
  BY <1>1
<1> QED BY <1>2, <1>3, <1>4 DEF Due

LEMMA DueIsMonotone ==
    ASSUME NEW first \in Nat, NEW i \in Nat, NEW j \in Nat, i <= j
    PROVE  Due(first, i) <= Due(first, j)
<1>1. Due(first, i) \in Nat /\ Due(first, j) \in Nat
  BY DueType
<1>2. CASE i = j
  BY <1>1, <1>2
<1>3. CASE i < j
  BY <1>1, <1>3, DueGrows
<1> QED BY <1>2, <1>3

LEMMA JobsAccountedInit == KeeperInit => JobsAccounted
<1> SUFFICES ASSUME KeeperInit PROVE ~feed["global"]["SOL"].exists
  BY DEF JobsAccounted
<1>1. feed["global"]["SOL"] = NoFeed
  BY ScopesAreNamed DEF KeeperInit, Init, FeedMints
<1>2. ~NoFeed.exists
  BY Zenon DEF NoFeed
<1> QED BY <1>1, <1>2, Zenon

\* Steps that neither publish nor start or end a scheduled job.
LEMMA JobsStayAccounted ==
    ASSUME JobsAccounted, UNCHANGED <<feed, due, misses>>,
           \A r \in runs : \E q \in runs' : q.slot = r.slot
    PROVE  JobsAccounted'
<1> SUFFICES ASSUME feed["global"]["SOL"].exists
             PROVE  \E first \in Nat \ {0}, count \in Nat :
                       \E failed \in [1..misses -> Nat] : SlotsAccounted(first, count, failed)'
  BY DEF JobsAccounted
<1>1. PICK first \in Nat \ {0}, count \in Nat :
          \E failed \in [1..misses -> Nat] : SlotsAccounted(first, count, failed)
  BY DEF JobsAccounted
<1>2. PICK failed \in [1..misses -> Nat] : SlotsAccounted(first, count, failed)
  BY <1>1
<1>3. \A slot : Accounted(slot, failed) => Accounted(slot, failed)'
  BY DEF Accounted
<1>4. SlotsAccounted(first, count, failed)'
  BY <1>2, <1>3 DEF SlotsAccounted, Due
<1> QED BY <1>4

LEMMA JobsAccountedNext ==
    KeeperInv /\ JobsAccounted /\ [KeeperNext]_keeperVars => JobsAccounted'
<1> SUFFICES ASSUME KeeperInv, JobsAccounted, [KeeperNext]_keeperVars
             PROVE  JobsAccounted'
  OBVIOUS
<1>m. misses \in Nat
  BY KeeperAssumption DEF KeeperInv, ScheduleKept
<1>1. CASE Start
  <2>0. /\ UNCHANGED <<feed, misses>> /\ due' = due + Period
        /\ runs' = runs \cup {NewRun(due)}
    BY <1>1 DEF Start, vars
  <2> SUFFICES ASSUME feed["global"]["SOL"].exists
               PROVE  \E first \in Nat \ {0}, count \in Nat :
                         \E failed \in [1..misses -> Nat] : SlotsAccounted(first, count, failed)'
    BY <2>0 DEF JobsAccounted
  <2>1. PICK first \in Nat \ {0}, count \in Nat :
            \E failed \in [1..misses -> Nat] : SlotsAccounted(first, count, failed)
    BY DEF JobsAccounted
  <2>2. PICK failed \in [1..misses -> Nat] : SlotsAccounted(first, count, failed)
    BY <2>1
  <2>3. due' = Due(first, count + 1)
    BY <2>0, <2>2, DueType DEF SlotsAccounted
  <2>4. ASSUME NEW n \in 0..count PROVE Accounted(Due(first, n), failed)'
    <3>1. CASE n = count
      <4>1. NewRun(due).slot = Due(first, n)
        BY <2>2, <3>1 DEF NewRun, SlotsAccounted
      <4> QED BY <2>0, <4>1 DEF Accounted, Due
    <3>2. CASE n # count
      <4>1. Accounted(Due(first, n), failed)
        BY <2>2, <3>2 DEF SlotsAccounted
      <4> QED BY <2>0, <4>1 DEF Accounted, Due
    <3> QED BY <3>1, <3>2
  <2>5. SlotsAccounted(first, count + 1, failed)'
    BY <2>0, <2>2, <2>3, <2>4 DEF SlotsAccounted, Due
  <2> QED BY <2>5
<1>2. ASSUME NEW r \in runs, Land(r) PROVE JobsAccounted'
  <2>1. due' = due /\ misses' = 0 /\ now' = now
    BY <1>2 DEF Land
  <2>2. feed'["global"]["SOL"].last_updated_at = now
    BY <1>2, LandedFeeds DEF Collaterals
  <2>3. due \in Nat \ {0} /\ due <= now + Period
    BY DEF KeeperInv, ScheduleKept
  <2>4. PICK failed \in [1..0 -> Nat] : TRUE
    <3>1. [i \in 1..0 |-> 0] \in [1..0 -> Nat]
      OBVIOUS
    <3> QED BY <3>1
  <2>5. Due(due, 0) = due
    BY <2>3, DueType
  <2>6. SlotsAccounted(due, 0, failed)'
    BY <2>1, <2>2, <2>3, <2>5 DEF SlotsAccounted, Due
  <2> QED BY <2>1, <2>3, <2>6 DEF JobsAccounted
<1>3. ASSUME NEW r \in runs, Drop(r) PROVE JobsAccounted'
  <2>0. /\ UNCHANGED <<feed, due>> /\ misses' = misses + 1
        /\ runs' = runs \ {r}
    BY <1>3 DEF Drop, vars
  <2> SUFFICES ASSUME feed["global"]["SOL"].exists
               PROVE  \E first \in Nat \ {0}, count \in Nat :
                         \E failed \in [1..misses' -> Nat] :
                            SlotsAccounted(first, count, failed)'
    BY <2>0 DEF JobsAccounted
  <2>1. PICK first \in Nat \ {0}, count \in Nat :
            \E failed \in [1..misses -> Nat] : SlotsAccounted(first, count, failed)
    BY DEF JobsAccounted
  <2>2. PICK failed \in [1..misses -> Nat] : SlotsAccounted(first, count, failed)
    BY <2>1
  <2>3. r.slot \in Nat
    BY DEF KeeperInv, RunsOnTime, Run
  <2>4. PICK failed2 \in [1..(misses + 1) -> Nat] :
            failed2 = [i \in 1..(misses + 1) |-> IF i = misses + 1 THEN r.slot ELSE failed[i]]
    <3> DEFINE f == [i \in 1..(misses + 1) |-> IF i = misses + 1 THEN r.slot ELSE failed[i]]
    <3>1. f \in [1..(misses + 1) -> Nat]
      BY <1>m, <2>3
    <3> QED BY <3>1
  <2>5. ASSUME NEW slot, Accounted(slot, failed) PROVE Accounted(slot, failed2)'
    <3>1. CASE slot = r.slot
      <4>1. misses + 1 \in 1..misses' /\ failed2[misses + 1] = slot
        BY <1>m, <2>0, <2>4, <3>1
      <4> QED BY <4>1 DEF Accounted
    <3>2. CASE \E q \in runs : q.slot = slot /\ slot # r.slot
      BY <2>0, <3>2 DEF Accounted
    <3>3. CASE \E i \in 1..misses : failed[i] = slot
      <4>1. PICK i \in 1..misses : failed[i] = slot
        BY <3>3
      <4>2. i \in 1..misses' /\ failed2[i] = slot
        BY <1>m, <2>0, <2>4, <4>1
      <4> QED BY <4>2 DEF Accounted
    <3> QED BY <2>5, <3>1, <3>2, <3>3 DEF Accounted
  <2>6. SlotsAccounted(first, count, failed2)'
    BY <2>0, <2>2, <2>5 DEF SlotsAccounted, Due
  <2> QED BY <2>0, <2>4, <2>6
<1>4. CASE SetUp \/ Dispatch \/ KeeperTick \/ Quote1 \/ UNCHANGED keeperVars
  <2>1. UNCHANGED <<feed, due, misses>> /\ runs \subseteq runs'
    BY <1>4 DEF SetUp, InitializeAdmin, Dispatch, KeeperTick, Tick, Quote1, Valuation,
                Value, ValueOffer, keeperVars, vars
  <2> QED BY <2>1, JobsStayAccounted
<1>5. ASSUME NEW r \in runs, Observe(r) PROVE JobsAccounted'
  <2>1. UNCHANGED <<feed, due, misses>>
    BY <1>5 DEF Observe, vars
  <2>2. ASSUME NEW q \in runs PROVE \E x \in runs' : x.slot = q.slot
    <3>1. runs' = (runs \ {r}) \cup {[r EXCEPT !.observed = now]}
      BY <1>5 DEF Observe
    <3>2. [r EXCEPT !.observed = now].slot = r.slot
      BY DEF KeeperInv, RunsOnTime, Run
    <3> QED BY <3>1, <3>2
  <2> QED BY <2>1, <2>2, JobsStayAccounted
<1> QED BY <1>1, <1>2, <1>3, <1>4, <1>5 DEF KeeperNext

\* Of the jobs due since the last publication, one more than may fail, one has
\* not failed.
LEMMA OneIsUnderWay ==
    ASSUME KeeperInv, NEW first \in Nat \ {0}, NEW count \in Nat, count > MaxMisses,
           NEW failed \in [1..misses -> Nat], SlotsAccounted(first, count, failed)
    PROVE  \E n \in 0..MaxMisses : \E r \in runs : r.slot = Due(first, n)
<1> SUFFICES ASSUME \A n \in 0..MaxMisses : \A r \in runs : r.slot # Due(first, n)
             PROVE  FALSE
  OBVIOUS
<1>m. misses \in Nat /\ misses <= MaxMisses /\ MaxMisses \in Nat
  BY KeeperAssumption DEF KeeperInv, ScheduleKept
<1>1. \A n \in 0..MaxMisses : \E i \in 1..misses : failed[i] = Due(first, n)
  <2> SUFFICES ASSUME NEW n \in 0..MaxMisses
               PROVE  \E i \in 1..misses : failed[i] = Due(first, n)
    OBVIOUS
  <2>1. n \in 0..(count - 1)
    BY <1>m
  <2>2. Accounted(Due(first, n), failed)
    BY <2>1 DEF SlotsAccounted
  <2> QED BY <2>2 DEF Accounted
<1> DEFINE which == [n \in 0..MaxMisses |->
                        CHOOSE i \in 1..misses : failed[i] = Due(first, n)]
<1>2. \A n \in 0..MaxMisses : which[n] \in 1..misses /\ failed[which[n]] = Due(first, n)
  BY <1>1
<1>3. which \in [0..MaxMisses -> 1..misses]
  BY <1>2
<1> HIDE DEF which
<1>4. /\ IsFiniteSet(0..MaxMisses) /\ Cardinality(0..MaxMisses) = MaxMisses + 1
      /\ IsFiniteSet(1..misses) /\ Cardinality(1..misses) = misses
  <2>0. 0 \in Int /\ 1 \in Int /\ misses \in Int /\ MaxMisses \in Int
    BY <1>m
  <2>1. /\ IsFiniteSet(0..MaxMisses)
        /\ Cardinality(0..MaxMisses) = IF 0 > MaxMisses THEN 0 ELSE MaxMisses - 0 + 1
    BY <2>0, FS_Interval
  <2>2. /\ IsFiniteSet(1..misses)
        /\ Cardinality(1..misses) = IF 1 > misses THEN 0 ELSE misses - 1 + 1
    BY <2>0, FS_Interval
  <2> QED BY <1>m, <2>1, <2>2
<1>5. PICK i, j \in 0..MaxMisses : i # j /\ which[i] = which[j]
  <2>1. Cardinality(1..misses) < Cardinality(0..MaxMisses)
    BY <1>m, <1>4
  <2> DEFINE S == 0..MaxMisses T == 1..misses
  <2>2. IsFiniteSet(S) /\ IsFiniteSet(T) /\ Cardinality(T) < Cardinality(S) /\ which \in [S -> T]
    BY <1>3, <1>4, <2>1
  <2> HIDE DEF S, T
  <2>3. \E x, y \in S : x # y /\ which[x] = which[y]
    BY <2>2, FS_PigeonHole
  <2> QED BY <2>3 DEF S
<1>6. Due(first, i) = Due(first, j)
  BY <1>2, <1>5, Zenon
<1>7. Due(first, i) \in Nat /\ Due(first, j) \in Nat
  BY DueType
<1>8. CASE i < j
  BY <1>6, <1>7, <1>8, DueGrows
<1>9. CASE j < i
  BY <1>6, <1>7, <1>9, DueGrows
<1> QED BY <1>5, <1>8, <1>9

LEMMA AccountedJobsAreInTime ==
    ASSUME KeeperInv, JobsAccounted
    PROVE  FeedsAreKept
<1> SUFFICES ASSUME feed["global"]["SOL"].exists
             PROVE  \A m \in Collaterals :
                       /\ feed["global"][m].exists /\ feed["global"][m].scaled
                       /\ now - feed["global"][m].last_updated_at <= LongestGap
  <2>1. \A m \in Collaterals :
           feed["global"][m].exists <=> feed["global"]["SOL"].exists
    BY Zenon DEF KeeperInv, JobPublishes
  <2> QED BY <2>1, Zenon DEF FeedsAreKept
<1> DEFINE last == feed["global"]["SOL"].last_updated_at
<1>1. last \in Nat /\ now \in Nat
  BY ScopesAreNamed DEF KeeperInv, FeedInv, TypeOK, PriceFeed, FeedMints
<1>2. PICK first \in Nat \ {0}, count \in Nat :
          \E failed \in [1..misses -> Nat] : SlotsAccounted(first, count, failed)
  BY DEF JobsAccounted
<1>3. PICK failed \in [1..misses -> Nat] : SlotsAccounted(first, count, failed)
  BY <1>2
<1>4. first <= last + Period
  BY <1>3 DEF SlotsAccounted
<1>5. now <= Due(first, MaxMisses) + Jitter + RunTime
  <2>1. CASE count <= MaxMisses
    <3>1. Due(first, count) <= Due(first, MaxMisses)
      BY <2>1, KeeperAssumption, DueIsMonotone
    <3>2. now <= Due(first, count) + Jitter
      BY <1>3 DEF KeeperInv, ScheduleKept, SlotsAccounted
    <3>3. Due(first, count) \in Nat /\ Due(first, MaxMisses) \in Nat
      BY KeeperAssumption, DueType
    <3> QED BY <1>1, <3>1, <3>2, <3>3, KeeperAssumption
  <2>2. CASE count > MaxMisses
    <3>1. PICK n \in 0..MaxMisses : \E r \in runs : r.slot = Due(first, n)
      BY <1>3, <2>2, OneIsUnderWay
    <3>2. PICK r \in runs : r.slot = Due(first, n)
      BY <3>1
    <3>3. Due(first, n) \in Nat /\ Due(first, n) >= first
      BY <3>1, KeeperAssumption, DueType
    <3>n. n \in Nat /\ n <= MaxMisses /\ MaxMisses \in Nat
      BY <3>1, KeeperAssumption
    <3>4. Due(first, n) <= Due(first, MaxMisses) /\ Due(first, MaxMisses) \in Nat
      BY <3>n, DueIsMonotone, DueType
    <3>5. r.slot # 0
      BY <3>2, <3>3
    <3>6. r.started \in Nat /\ r.started <= r.slot + Jitter /\ now <= r.started + RunTime
      BY <3>5 DEF KeeperInv, RunsOnTime, Run
    <3> QED BY <1>1, <3>2, <3>3, <3>4, <3>6, KeeperAssumption
  <2> QED BY <2>1, <2>2, KeeperAssumption
<1>6. now - last <= LongestGap
  <2>1. MaxMisses * Period \in Nat /\ (MaxMisses + 1) * Period = MaxMisses * Period + Period
    BY KeeperAssumption
  <2>2. now <= first + MaxMisses * Period + Jitter + RunTime
    BY <1>5 DEF Due
  <2> QED BY <1>1, <1>4, <2>1, <2>2, KeeperAssumption DEF LongestGap
<1> QED
  <2> SUFFICES ASSUME NEW m \in Collaterals
               PROVE  /\ feed["global"][m].exists /\ feed["global"][m].scaled
                      /\ now - feed["global"][m].last_updated_at <= LongestGap
    OBVIOUS
  <2>1. /\ feed["global"][m].exists /\ feed["global"][m].scaled
        /\ feed["global"][m].last_updated_at = last
    BY Zenon DEF KeeperInv, JobPublishes
  <2> QED BY <1>6, <2>1

\* Whatever the schedule, the delays, the failures in a row and the jobs that
\* overtake each other: once published, the feeds of both collaterals get no
\* older than the failures in a row and the job after them can leave them.
THEOREM FeedsGoOn == KeeperSpec => []FeedsAreKept
<1>1. KeeperSpec => []JobsAccounted
  BY JobsAccountedInit, JobsAccountedNext, KeeperInvariant, PTL DEF KeeperSpec
<1>2. KeeperInv /\ JobsAccounted => FeedsAreKept
  BY AccountedJobsAreInTime
<1> QED BY <1>1, <1>2, KeeperInvariant, PTL
=============================================================================
