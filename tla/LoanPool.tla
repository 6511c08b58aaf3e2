------------------------------ MODULE LoanPool ------------------------------
(***************************************************************************)
(* One lending pool of the ClockLend program and everything a pool loan    *)
(* touches: the pool record, the liquidity vault, the loan orders with     *)
(* their collateral escrows, and the staked-SKR profiles whose bonds back  *)
(* discounted loans (program/src/processor.rs).                            *)
(*                                                                         *)
(* A Solana transaction is atomic, so one instruction is one action; an    *)
(* instruction that returns an error has no effect and is simply disabled. *)
(* Accounts an instruction may be given or not (profile, pool, yield       *)
(* vault, slash destination) are chosen by the caller: they are the        *)
(* existentially quantified parameters of the action.                      *)
(*                                                                         *)
(* The clock is a counter of abstract time units.  Fees, tiers' discounts, *)
(* slash percentage and reputation steps are the literals of the source.   *)
(***************************************************************************)
EXTENDS Integers, FiniteSets

CONSTANTS
    Users,              \* wallets that sign instructions
    Authority,          \* the wallet that creates the pool
    LoanIds,            \* loan_id values a borrower may use
    GracePeriod,        \* 86400 seconds in the source
    Year,               \* 31536000 seconds in the source
    Tier1Bond,          \* 100 SKR
    Tier2Bond,          \* 1000 SKR
    PriceScale,         \* 10^decimals of the collateral feed
    StakedCounterMax,   \* 2^64 - 1, where staked_skr_amount's checked_add fails
    InitialLiquidity,   \* [Users -> Nat], liquidity tokens in wallets
    InitialCollateral,  \* [Mints -> [Users -> Nat]], SOL and SKR in wallets
    \* Inputs: what a caller may ask for.
    PoolTerms, LiquidityAmounts, BorrowAmounts, CollateralAmounts,
    StakeAmounts, Donors, Durations, Prices, YieldRoutes,
    Horizon             \* bound on the clock (model checking only)

Mints == {"SOL", "SKR"}
Holders == Users \cup {"vault", "treasury", "yield"}
Loans == Users \X LoanIds
Borrower(l) == l[1]
Terms == [interest_rate_bps : Nat, max_ltv_bps : Nat,
          min_duration : Nat, max_duration : Nat, is_oracle_free : BOOLEAN]

ASSUME ActorAssumption ==
    /\ Authority \in Users
    /\ Users \cap {"vault", "treasury", "yield"} = {}
ASSUME ParameterAssumption ==
    /\ GracePeriod \in Nat \ {0}
    /\ Year \in Nat \ {0}
    /\ PriceScale \in Nat \ {0}
    /\ StakedCounterMax \in Nat
    /\ Tier1Bond \in Nat \ {0}
    /\ Tier2Bond \in Nat \ {0}
    /\ Horizon \in Nat
ASSUME InputAssumption ==
    /\ PoolTerms \subseteq Terms
    /\ LiquidityAmounts \subseteq Nat
    /\ BorrowAmounts \subseteq Nat
    /\ CollateralAmounts \subseteq Nat
    /\ StakeAmounts \subseteq Nat
    /\ Donors \subseteq Users
    /\ Durations \subseteq Nat
    /\ Prices \subseteq Nat
    /\ YieldRoutes \subseteq {"omitted", "matching", "mismatched"}
    /\ InitialLiquidity \in [Users -> Nat]
    /\ InitialCollateral \in [Mints -> [Users -> Nat]]

VARIABLES
    now,                \* Clock::get()?.unix_timestamp
    terms,              \* the immutable fields of the pool, or NoPool
    total_liquidity, total_borrowed, loans_originated, loans_repaid,
    staked_skr_amount,  \* LendingPool counters
    loan,               \* [Loans -> LoanOrder], status "None" when no account
    profile,            \* [Users -> UserProfile]
    liq,                \* liquidity-mint balances of wallets and PDAs
    coll,               \* SOL / SKR balances of wallets and PDAs
    escrow,             \* collateral held by the escrow PDA of each loan
    skr_escrow          \* SKR held by the stake escrow PDA of each user

poolVars == <<terms, total_liquidity, total_borrowed, loans_originated,
              loans_repaid, staked_skr_amount>>
vars == <<now, poolVars, loan, profile, liq, coll, escrow, skr_escrow>>

-----------------------------------------------------------------------------
NoPool == [interest_rate_bps |-> 0, max_ltv_bps |-> 0, min_duration |-> 0,
           max_duration |-> 0, is_oracle_free |-> FALSE]
NoLoan == [status |-> "None", is_active |-> FALSE, collateral_mint |-> "SOL",
           principal_amount |-> 0, collateral_amount |-> 0, interest_due |-> 0,
           due_time |-> 0, grace_period_expires |-> 0, locked_skr |-> 0]
NoProfile == [is_initialized |-> FALSE, staked_skr |-> 0, locked_skr |-> 0,
              reputation_score |-> 0, total_loans_completed |-> 0,
              total_loans_defaulted |-> 0]
NewProfile == [NoProfile EXCEPT !.is_initialized = TRUE,
                                !.reputation_score = 10000]

\* u64 saturating_sub, and the smaller and larger of two amounts.
Monus(a, b) == IF a > b THEN a - b ELSE 0
Least(a, b) == IF a < b THEN a ELSE b
Greatest(a, b) == IF a > b THEN a ELSE b

\* The token program's transfer into an account: balances b after x of mint m
\* has reached h.
Credit(b, m, h, x) == [b EXCEPT ![m][h] = @ + x]

PoolInitialized == terms # NoPool
Live(l) == loan[l].status \in {"Active", "InGracePeriod"}

Init ==
    /\ now = 0
    /\ terms = NoPool
    /\ total_liquidity = 0
    /\ total_borrowed = 0
    /\ loans_originated = 0
    /\ loans_repaid = 0
    /\ staked_skr_amount = 0
    /\ loan = [l \in Loans |-> NoLoan]
    /\ profile = [u \in Users |-> NoProfile]
    /\ liq = [h \in Holders |-> IF h \in Users THEN InitialLiquidity[h] ELSE 0]
    /\ coll = [m \in Mints |-> [h \in Holders |->
                  IF h \in Users THEN InitialCollateral[m][h] ELSE 0]]
    /\ escrow = [l \in Loans |-> 0]
    /\ skr_escrow = [u \in Users |-> 0]

-----------------------------------------------------------------------------
(* The lender's side: creating, funding and draining the pool.             *)

ValidTerms(t) ==
    /\ t.min_duration > 0 /\ t.min_duration <= Year
    /\ t.max_duration >= t.min_duration /\ t.max_duration <= Year
    /\ t.max_ltv_bps > 0 /\ t.max_ltv_bps <= 9500
    /\ t.is_oracle_free => t.max_ltv_bps <= 3000
    /\ t.interest_rate_bps <= 10000

InitializePool(t) ==
    /\ ~PoolInitialized
    /\ ValidTerms(t)
    /\ terms' = t
    /\ total_liquidity' = 0
    /\ total_borrowed' = 0
    /\ loans_originated' = 0
    /\ loans_repaid' = 0
    /\ staked_skr_amount' = 0
    /\ UNCHANGED <<now, loan, profile, liq, coll, escrow, skr_escrow>>

\* Only the authority may deposit: there is no LP share accounting.
DepositLiquidity(amount) ==
    /\ PoolInitialized
    /\ amount > 0
    /\ liq[Authority] >= amount
    /\ liq' = [liq EXCEPT ![Authority] = @ - amount, !["vault"] = @ + amount]
    /\ total_liquidity' = total_liquidity + amount
    /\ UNCHANGED <<now, terms, total_borrowed, loans_originated, loans_repaid,
                   staked_skr_amount, loan, profile, coll, escrow, skr_escrow>>

WithdrawLiquidity(amount) ==
    /\ PoolInitialized
    /\ amount > 0
    /\ total_liquidity >= amount
    /\ liq["vault"] >= amount
    /\ total_liquidity' = Monus(total_liquidity, amount)
    /\ liq' = [liq EXCEPT !["vault"] = @ - amount, ![Authority] = @ + amount]
    /\ UNCHANGED <<now, terms, total_borrowed, loans_originated, loans_repaid,
                   staked_skr_amount, loan, profile, coll, escrow, skr_escrow>>

-----------------------------------------------------------------------------
(* Staking SKR.  The optional pool account must be the staker's own pool;  *)
(* a foreign one makes the stake fail but is ignored by an unstake.  The   *)
(* yield accounts of the same instructions belong to the yield vault.      *)
(* Sums of existing tokens cannot overflow a u64; staked_skr_amount can,   *)
(* since nothing ties it to tokens, and there checked_add refuses.         *)

StakeSkr(u, amount, withPool) ==
    /\ amount > 0
    /\ withPool => /\ PoolInitialized /\ u = Authority
                   /\ staked_skr_amount + amount <= StakedCounterMax
    /\ coll["SKR"][u] >= amount
    /\ coll' = [coll EXCEPT !["SKR"][u] = @ - amount]
    /\ skr_escrow' = [skr_escrow EXCEPT ![u] = @ + amount]
    /\ profile' = [profile EXCEPT ![u] =
           LET p == IF @.is_initialized THEN @ ELSE NewProfile
           IN  [p EXCEPT !.staked_skr = @ + amount]]
    /\ staked_skr_amount' = staked_skr_amount + (IF withPool THEN amount ELSE 0)
    /\ UNCHANGED <<now, terms, total_liquidity, total_borrowed,
                   loans_originated, loans_repaid, loan, liq, escrow>>

UnstakeSkr(u, amount, withPool) ==
    /\ amount > 0
    /\ withPool => (PoolInitialized /\ u = Authority)
    /\ profile[u].is_initialized
    /\ profile[u].staked_skr >= amount
    /\ Monus(profile[u].staked_skr, profile[u].locked_skr) >= amount
    /\ skr_escrow[u] >= amount
    /\ skr_escrow' = [skr_escrow EXCEPT ![u] = @ - amount]
    /\ coll' = [coll EXCEPT !["SKR"][u] = @ + amount]
    /\ profile' = [profile EXCEPT ![u].staked_skr = @ - amount]
    /\ staked_skr_amount' =
           Monus(staked_skr_amount, IF withPool THEN amount ELSE 0)
    /\ UNCHANGED <<now, terms, total_liquidity, total_borrowed,
                   loans_originated, loans_repaid, loan, liq, escrow>>

-----------------------------------------------------------------------------
(* Borrowing.                                                              *)

\* Collateral normalised to the pool's denomination at the resolved price.
CollateralValue(collateral, price) == (collateral * price) \div PriceScale
MaxBorrow(collateral, price) ==
    (CollateralValue(collateral, price) * terms.max_ltv_bps) \div 10000

OriginationFee(mint, borrow) ==
    (borrow * (IF mint = "SOL" THEN 25 ELSE 50)) \div 10000

\* Unless the caller omits the yield accounts, half of the fee is the stakers'
\* share.  It is paid only into a yield token account of the pool's mint; when the
\* account is of another mint, or was never created, nothing moves it.
YieldDividend(fee, route) == IF route = "omitted" THEN 0 ELSE fee \div 2
YieldPaid(fee, route) == IF route = "matching" THEN fee \div 2 ELSE 0
TreasuryFee(fee, route) == Monus(fee, YieldDividend(fee, route))

AvailableSkr(u) == Monus(profile[u].staked_skr, profile[u].locked_skr)

\* Tier 2 halves the rate and locks Tier2Bond, tier 1 takes a quarter off.
BondToLock(u, withProfile) ==
    IF ~(withProfile /\ profile[u].is_initialized) THEN 0
    ELSE IF AvailableSkr(u) >= Tier2Bond THEN Tier2Bond
    ELSE IF AvailableSkr(u) >= Tier1Bond THEN Tier1Bond
    ELSE 0
EffectiveRate(u, withProfile) ==
    LET rate == terms.interest_rate_bps
    IN  IF ~(withProfile /\ profile[u].is_initialized) THEN rate
        ELSE IF AvailableSkr(u) >= Tier2Bond THEN Monus(rate, rate \div 2)
        ELSE IF AvailableSkr(u) >= Tier1Bond
             THEN Monus(rate, (rate * 2500) \div 10000)
        ELSE rate

InterestDue(borrow, rate, duration) ==
    (borrow * rate * duration) \div (10000 * Year)

\* Slips: the order account is checked only for a loan still active, or not
\* checked at all.
BorrowGuardReusesSettled(l, borrow, mint, collateral, duration, price) ==
    /\ borrow > 0 /\ collateral > 0 /\ PoolInitialized
    /\ total_liquidity >= borrow
    /\ duration >= terms.min_duration /\ duration <= terms.max_duration
    /\ borrow <= MaxBorrow(collateral, price)
    /\ ~loan[l].is_active
    /\ coll[mint][Borrower(l)] >= collateral /\ liq["vault"] >= borrow
BorrowGuardOverwrites(l, borrow, mint, collateral, duration, price) ==
    /\ borrow > 0 /\ collateral > 0 /\ PoolInitialized
    /\ total_liquidity >= borrow
    /\ duration >= terms.min_duration /\ duration <= terms.max_duration
    /\ borrow <= MaxBorrow(collateral, price)
    /\ coll[mint][Borrower(l)] >= collateral /\ liq["vault"] >= borrow

\* A loan PDA is never closed, so an id that was used once is used forever.
BorrowGuard(l, borrow, mint, collateral, duration, price) ==
    /\ borrow > 0 /\ collateral > 0
    /\ PoolInitialized
    /\ total_liquidity >= borrow
    /\ duration >= terms.min_duration /\ duration <= terms.max_duration
    /\ duration <= Year
    /\ borrow <= MaxBorrow(collateral, price)
    /\ loan[l].status = "None"
    /\ coll[mint][Borrower(l)] >= collateral
    /\ liq["vault"] >= borrow

NewLoan(l, borrow, mint, collateral, duration, withProfile) ==
    [status               |-> "Active",
     is_active            |-> TRUE,
     collateral_mint      |-> mint,
     principal_amount     |-> borrow,
     collateral_amount    |-> collateral,
     interest_due         |-> InterestDue(borrow,
                                  EffectiveRate(Borrower(l), withProfile),
                                  duration),
     due_time             |-> now + duration,
     grace_period_expires |-> 0,
     locked_skr           |-> BondToLock(Borrower(l), withProfile)]

Borrow(l, borrow, mint, collateral, duration, price, withProfile, route) ==
    LET u    == Borrower(l)
        fee  == OriginationFee(mint, borrow)
        net  == Monus(borrow, fee)
        tfee == TreasuryFee(fee, route)
        paid == YieldPaid(fee, route)
    IN
    /\ BorrowGuard(l, borrow, mint, collateral, duration, price)
    /\ coll' = [coll EXCEPT ![mint][u] = @ - collateral]
    /\ escrow' = [escrow EXCEPT ![l] = @ + collateral]
    /\ liq' = [liq EXCEPT !["vault"] = @ - (net + tfee + paid), ![u] = @ + net,
                          !["treasury"] = @ + tfee, !["yield"] = @ + paid]
    /\ profile' = [profile EXCEPT ![u].locked_skr =
                       @ + BondToLock(u, withProfile)]
    /\ loan' = [loan EXCEPT ![l] =
                    NewLoan(l, borrow, mint, collateral, duration, withProfile)]
    /\ total_liquidity' = Monus(total_liquidity, borrow)
    /\ total_borrowed' = total_borrowed + borrow
    /\ loans_originated' = loans_originated + 1
    /\ UNCHANGED <<now, terms, loans_repaid, staked_skr_amount, skr_escrow>>

-----------------------------------------------------------------------------
(* Settling a loan: repayment, the grace period, the lender's claim.       *)

TotalDue(l) == loan[l].principal_amount + loan[l].interest_due
ProtocolFee(interest) == (interest * 1500) \div 10000
\* Slip: the take rate is charged on principal and interest.
LenderRepayFeeOnTotal(l) == Monus(TotalDue(l), ProtocolFee(TotalDue(l)))
LenderRepay(l) ==
    loan[l].principal_amount
        + Monus(loan[l].interest_due, ProtocolFee(loan[l].interest_due))

\* Slip: repayment does not release the bond.
CreditedProfileKeepsBond(p, bond) ==
    [p EXCEPT !.total_loans_completed = @ + 1,
              !.reputation_score = Least(@ + 50, 10000)]
\* A repaid loan counts for the borrower; the profile account is mandatory
\* only when it holds a bond to release.
CreditedProfile(p, bond) ==
    [p EXCEPT !.total_loans_completed = @ + 1,
              !.reputation_score = Least(@ + 50, 10000),
              !.locked_skr = Monus(@, bond)]

RepayLoan(l, withProfile) ==
    LET u  == Borrower(l)
        lo == loan[l]
    IN
    /\ lo.status = "InGracePeriod" => now < lo.grace_period_expires
    /\ lo.is_active /\ lo.status # "Repaid"
    /\ withProfile => profile[u].is_initialized
    /\ lo.locked_skr > 0 => withProfile
    /\ liq[u] >= TotalDue(l)
    /\ escrow[l] >= lo.collateral_amount
    /\ loan' = [loan EXCEPT ![l].status = "Repaid", ![l].is_active = FALSE,
                            ![l].locked_skr = 0]
    /\ total_liquidity' = total_liquidity + LenderRepay(l)
    /\ total_borrowed' = Monus(total_borrowed, lo.principal_amount)
    /\ loans_repaid' = loans_repaid + 1
    /\ liq' = [liq EXCEPT ![u] = @ - TotalDue(l),
                          !["vault"] = @ + LenderRepay(l),
                          !["treasury"] = @ + ProtocolFee(lo.interest_due)]
    /\ escrow' = [escrow EXCEPT ![l] = @ - lo.collateral_amount]
    /\ coll' = [coll EXCEPT ![lo.collateral_mint][u] = @ + lo.collateral_amount]
    /\ profile' = IF withProfile
                  THEN [profile EXCEPT ![u] = CreditedProfile(@, lo.locked_skr)]
                  ELSE profile
    /\ UNCHANGED <<now, terms, loans_originated, staked_skr_amount, skr_escrow>>

\* Slips: grace may start before the due time; only the borrower may start
\* it.
TriggerGracePeriodEarly(caller, l) ==
    /\ caller \in {Borrower(l), Authority}
    /\ loan[l].is_active /\ loan[l].status = "Active"
    /\ loan' = [loan EXCEPT ![l].status = "InGracePeriod",
                            ![l].grace_period_expires = now + GracePeriod]
    /\ UNCHANGED <<now, poolVars, profile, liq, coll, escrow, skr_escrow>>
TriggerGracePeriodBorrowerOnly(caller, l) ==
    /\ caller = Borrower(l)
    /\ loan[l].is_active /\ loan[l].status = "Active"
    /\ now >= loan[l].due_time
    /\ loan' = [loan EXCEPT ![l].status = "InGracePeriod",
                            ![l].grace_period_expires = now + GracePeriod]
    /\ UNCHANGED <<now, poolVars, profile, liq, coll, escrow, skr_escrow>>

\* Grace is started by hand, by either party, any time after the due time;
\* it runs from the moment it is triggered.
MayTriggerGrace(caller, l) ==
    /\ caller \in {Borrower(l), Authority}
    /\ loan[l].is_active /\ loan[l].status = "Active"
    /\ now >= loan[l].due_time

TriggerGracePeriod(caller, l) ==
    /\ MayTriggerGrace(caller, l)
    /\ loan' = [loan EXCEPT ![l].status = "InGracePeriod",
                            ![l].grace_period_expires = now + GracePeriod]
    /\ UNCHANGED <<now, poolVars, profile, liq, coll, escrow, skr_escrow>>

LiquidationMargin(collateral) == (collateral * 500) \div 10000

\* Slips: the fifth may eat stake that backs other loans; and nothing caps it.
SlashAmountUnclamped(p, bond) ==
    Least(Greatest(bond, (p.staked_skr * 20) \div 100), p.staked_skr)
SlashAmountUncapped(p, bond) == Greatest(bond, (p.staked_skr * 20) \div 100)
\* The bond or a fifth of the stake, whichever is greater, but never stake
\* that backs the borrower's other loans.
SlashAmount(p, bond) ==
    LET base == (p.staked_skr * 20) \div 100
        max_slashable == Monus(p.staked_skr, Monus(p.locked_skr, bond))
    IN  Least(Greatest(bond, Least(base, max_slashable)), p.staked_skr)

\* Slip: the default is counted as a completed loan.
DebitedProfileMiscounts(p, bond) ==
    [p EXCEPT !.total_loans_completed = @ + 1,
              !.reputation_score = Monus(@, 1000),
              !.staked_skr = Monus(@, SlashAmount(p, bond)),
              !.locked_skr = Monus(@, bond)]
DebitedProfile(p, bond) ==
    [p EXCEPT !.total_loans_defaulted = @ + 1,
              !.reputation_score = Monus(@, 1000),
              !.staked_skr = Monus(@, SlashAmount(p, bond)),
              !.locked_skr = Monus(@, bond)]

\* Native SOL goes to the authority's wallet, SKR to the authority or vault.
LiquidationDestinations(mint) ==
    IF mint = "SOL" THEN {Authority} ELSE {Authority, "vault"}

\* What a claim takes from the stake of a borrower whose profile it names.
Slashed(l, withProfile) ==
    IF withProfile THEN SlashAmount(profile[Borrower(l)], loan[l].locked_skr) ELSE 0

MayClaim(l, withProfile, dest, slashDest) ==
    LET u  == Borrower(l)
        lo == loan[l]
    IN
    /\ lo.status = "InGracePeriod"
    /\ now >= lo.grace_period_expires
    /\ dest \in LiquidationDestinations(lo.collateral_mint)
    /\ slashDest \in {Authority, "vault", "treasury"}
    /\ withProfile => profile[u].is_initialized
    /\ lo.locked_skr > 0 => withProfile
    /\ escrow[l] >= lo.collateral_amount
    /\ skr_escrow[u] >= Slashed(l, withProfile)

ClaimDefault(l, withProfile, dest, slashDest) ==
    LET u      == Borrower(l)
        lo     == loan[l]
        m      == lo.collateral_mint
        margin == LiquidationMargin(lo.collateral_amount)
        slash  == Slashed(l, withProfile)
    IN
    /\ MayClaim(l, withProfile, dest, slashDest)
    /\ escrow' = [escrow EXCEPT ![l] = @ - lo.collateral_amount]
    /\ skr_escrow' = [skr_escrow EXCEPT ![u] = @ - slash]
    /\ coll' = LET net == Monus(lo.collateral_amount, margin)
               IN  Credit(Credit(Credit(coll, m, dest, net),
                                 m, "treasury", margin), "SKR", slashDest, slash)
    /\ profile' = IF withProfile
                  THEN [profile EXCEPT ![u] = DebitedProfile(@, lo.locked_skr)]
                  ELSE profile
    /\ total_borrowed' = Monus(total_borrowed, lo.principal_amount)
    /\ loan' = [loan EXCEPT ![l].status = "Defaulted", ![l].is_active = FALSE,
                            ![l].locked_skr = 0]
    /\ UNCHANGED <<now, terms, total_liquidity, loans_originated, loans_repaid,
                   staked_skr_amount, liq>>

-----------------------------------------------------------------------------
(* The environment: time, and token transfers nobody can refuse.           *)

Tick ==
    /\ now < Horizon
    /\ now' = now + 1
    /\ UNCHANGED <<poolVars, loan, profile, liq, coll, escrow, skr_escrow>>

DonateToVault(u, amount) ==
    /\ PoolInitialized
    /\ liq[u] >= amount
    /\ liq' = [liq EXCEPT ![u] = @ - amount, !["vault"] = @ + amount]
    /\ UNCHANGED <<now, poolVars, loan, profile, coll, escrow, skr_escrow>>

DonateToStakeEscrow(u, v, amount) ==
    /\ profile[v].is_initialized
    /\ coll["SKR"][u] >= amount
    /\ coll' = [coll EXCEPT !["SKR"][u] = @ - amount]
    /\ skr_escrow' = [skr_escrow EXCEPT ![v] = @ + amount]
    /\ UNCHANGED <<now, poolVars, loan, profile, liq, escrow>>

-----------------------------------------------------------------------------
Lend ==
    \/ \E t \in PoolTerms : InitializePool(t)
    \/ \E x \in LiquidityAmounts : DepositLiquidity(x) \/ WithdrawLiquidity(x)

Stake ==
    \E u \in Users, x \in StakeAmounts, withPool \in BOOLEAN :
        StakeSkr(u, x, withPool) \/ UnstakeSkr(u, x, withPool)

TakeLoan ==
    \E l \in Loans, x \in BorrowAmounts, m \in Mints, c \in CollateralAmounts,
       d \in Durations, p \in Prices, w \in BOOLEAN, r \in YieldRoutes :
        Borrow(l, x, m, c, d, p, w, r)

Settle ==
    \E l \in Loans :
        \/ \E w \in BOOLEAN : RepayLoan(l, w)
        \/ \E caller \in Users : TriggerGracePeriod(caller, l)
        \/ \E w \in BOOLEAN, dest \in Holders, slashDest \in Holders :
               ClaimDefault(l, w, dest, slashDest)

Donate ==
    \E u \in Donors :
        \/ \E x \in LiquidityAmounts : DonateToVault(u, x)
        \/ \E x \in StakeAmounts, v \in Users : DonateToStakeEscrow(u, v, x)

Next == Lend \/ Stake \/ TakeLoan \/ Settle \/ Donate \/ Tick

Spec == Init /\ [][Next]_vars

-----------------------------------------------------------------------------
(* Properties.                                                             *)

LoanOrder ==
    [status : {"None", "Active", "InGracePeriod", "Repaid", "Defaulted"},
     is_active : BOOLEAN, collateral_mint : Mints, principal_amount : Nat,
     collateral_amount : Nat, interest_due : Nat, due_time : Nat,
     grace_period_expires : Nat, locked_skr : Nat]
UserProfile ==
    [is_initialized : BOOLEAN, staked_skr : Nat, locked_skr : Nat,
     reputation_score : Nat, total_loans_completed : Nat,
     total_loans_defaulted : Nat]

\* Every field of every account the pool's instructions write stays in the
\* range of its type in program/src/state.rs: no balance goes negative.
TypeOK ==
    /\ now \in Nat
    /\ terms \in Terms
    /\ total_liquidity \in Nat /\ total_borrowed \in Nat
    /\ loans_originated \in Nat /\ loans_repaid \in Nat
    /\ staked_skr_amount \in Nat
    /\ loan \in [Loans -> LoanOrder]
    /\ profile \in [Users -> UserProfile]
    /\ liq \in [Holders -> Nat]
    /\ coll \in [Mints -> [Holders -> Nat]]
    /\ escrow \in [Loans -> Nat]
    /\ skr_escrow \in [Users -> Nat]

\* The vault can always pay out what the pool record promises, whatever the
\* borrow path did with the origination fee and its stakers' half.
VaultCoversLiquidity == liq["vault"] >= total_liquidity

\* A live loan's escrow still holds its whole collateral, and a loan that is
\* not live holds no bond: is_active, status and locked_skr never disagree.
LoanBacked(l) ==
    /\ loan[l].is_active <=> Live(l)
    /\ Live(l) => /\ loan[l].collateral_amount > 0
                  /\ escrow[l] >= loan[l].collateral_amount
    /\ ~Live(l) => loan[l].locked_skr = 0
LoansBacked == \A l \in Loans : LoanBacked(l)

\* Bonds never exceed the stake and the stake is really in the escrow, even
\* after one of several discounted loans was slashed.
StakeBacked ==
    \A u \in Users : /\ profile[u].locked_skr <= profile[u].staked_skr
                     /\ profile[u].staked_skr <= skr_escrow[u]

\* The bond of a profile is exactly the sum of the bonds of its live loans
\* (a bond unit is a pair of a loan and an index below its bond), so a user
\* without live loans can always unstake everything.
BondUnits(u) == {x \in Loans \X (1..Greatest(Tier1Bond, Tier2Bond)) :
                    Borrower(x[1]) = u /\ x[2] <= loan[x[1]].locked_skr}
BondsMatchLoans ==
    \A u \in Users : profile[u].locked_skr = Cardinality(BondUnits(u))

\* The pool's and the profiles' counters agree with the loan orders; a
\* profile may miss an unbonded loan but never counts one that did not end
\* that way.
LoansWith(u, status) ==
    {l \in Loans : Borrower(l) = u /\ loan[l].status = status}
CountersMatchLoans ==
    /\ loans_originated = Cardinality({l \in Loans : loan[l].status # "None"})
    /\ loans_repaid = Cardinality({l \in Loans : loan[l].status = "Repaid"})
    /\ \A u \in Users :
          /\ profile[u].total_loans_completed
                <= Cardinality(LoansWith(u, "Repaid"))
          /\ profile[u].total_loans_defaulted
                <= Cardinality(LoansWith(u, "Defaulted"))

\* total_borrowed is exactly the principal of the live loans, whoever repaid
\* or lost which of them (a unit is a pair of a live loan and an index up to its
\* principal).
LentUnits ==
    UNION {{l} \X (1..loan[l].principal_amount) : l \in {k \in Loans : Live(k)}}
BorrowedMatchesLoans == total_borrowed = Cardinality(LentUnits)

\* The lender is never locked out: an overdue loan can be put in grace by the
\* authority and, once grace has run out, claimed, whatever the borrower did
\* with stake, profile and other loans in the meantime.
LenderCanAlwaysAct ==
    \A l \in Loans :
        /\ (loan[l].status = "Active" /\ now >= loan[l].due_time)
              => MayTriggerGrace(Authority, l)
        /\ (loan[l].status = "InGracePeriod"
              /\ now >= loan[l].grace_period_expires)
              => \E w \in BOOLEAN, dest \in Holders, sd \in Holders : MayClaim(l, w, dest, sd)

\* Collateral leaves an escrow only in the step that settles its loan, in
\* full: to the borrower against principal and interest paid to the vault and
\* treasury, or, a full grace period after the due time, to the lender's side.
CollateralRelease(l) ==
    LET lo   == loan[l]
        m    == lo.collateral_mint
        paid == (liq'["vault"] - liq["vault"])
                  + (liq'["treasury"] - liq["treasury"])
        out  == escrow[l] - escrow'[l]
        gain(h) == coll'[m][h] - coll[m][h]
    IN
    escrow'[l] < escrow[l] =>
        /\ Live(l) /\ out = lo.collateral_amount
        /\ \/ /\ loan'[l].status = "Repaid"
              /\ gain(Borrower(l)) = out
              /\ paid = TotalDue(l)
           \/ /\ loan'[l].status = "Defaulted"
              /\ now >= lo.due_time + GracePeriod
              /\ gain(Authority) + gain("vault") + gain("treasury") >= out
CollateralReleasedOnlyAtSettlement ==
    [][\A l \in Loans : CollateralRelease(l)]_vars

\* The lender's book value, idle liquidity plus principal lent out, falls only
\* by a withdrawal to the authority or by the principal of a defaulted loan:
\* a repayment, a fee or a claim never takes from it.
PoolAssets == total_liquidity + total_borrowed
LossIsExplained ==
    PoolAssets' < PoolAssets =>
        \/ PoolAssets - PoolAssets' = liq'[Authority] - liq[Authority]
        \/ \E l \in Loans :
              /\ loan'[l].status = "Defaulted" /\ Live(l)
              /\ PoolAssets - PoolAssets' = loan[l].principal_amount
LossesAreExplained == [][LossIsExplained]_vars

\* Repaid and Defaulted are final: no later instruction rewrites the order,
\* and its id can never be borrowed on again.
SettledForever ==
    [][\A l \in Loans : loan[l].status \in {"Repaid", "Defaulted"}
                            => loan'[l] = loan[l]]_vars

\* Grace, once it has started, never runs out before a full grace period
\* after the due time: trigger_grace_period cannot move a deadline forward.
GraceFollowsDue ==
    \A l \in Loans : loan[l].status = "InGracePeriod" =>
        loan[l].grace_period_expires >= loan[l].due_time + GracePeriod

\* The inductive invariant behind the safety theorems: the properties above
\* that hold one another up from step to step.
PoolInv ==
    /\ TypeOK
    /\ VaultCoversLiquidity
    /\ LoansBacked
    /\ StakeBacked
    /\ GraceFollowsDue

=============================================================================
