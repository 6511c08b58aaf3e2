------------------------------ MODULE PawnDeck ------------------------------
(***************************************************************************)
(* The peer-to-peer pawn deck of the ClockLend program: an offer escrows   *)
(* collateral and asks for a loan, any other wallet may fund it, and the   *)
(* creator repays the funder or loses the collateral to the funder         *)
(* (program/src/processor.rs, the P2P branches).                           *)
(*                                                                         *)
(* One instruction is one atomic action.  Unlike a pool loan's order, an   *)
(* offer account can disappear: cancelling closes it, and the same offer   *)
(* id can then be listed again on other terms.                             *)
(***************************************************************************)
EXTENDS Integers, FiniteSets

CONSTANTS
    Users,              \* wallets that sign instructions
    OfferIds,           \* offer_id values a creator may use
    Nobody,             \* Pubkey::default(), the funder of an unfunded offer
    GracePeriod,        \* 86400 seconds in the source
    Year,               \* 31536000 seconds in the source
    PriceScale,         \* 10^decimals of the collateral feed
    InitialLiquidity,   \* [LiquidityMints -> [Users -> Nat]]
    InitialCollateral,  \* [Mints -> [Users -> Nat]]
    \* Inputs: what a caller may ask for.
    LiquidityMints,     \* the two USDC mints the program allows
    Requests, Interests, CollateralAmounts, Durations, Prices, Donations,
    Horizon             \* bound on the clock (model checking only)

Mints == {"SOL", "SKR"}
Offers == Users \X OfferIds
Creator(o) == o[1]

NoMint == "none"

ASSUME DeckActorAssumption ==
    Nobody \notin Users /\ NoMint \notin LiquidityMints
ASSUME DeckParameterAssumption ==
    /\ GracePeriod \in Nat \ {0}
    /\ Year \in Nat \ {0}
    /\ PriceScale \in Nat \ {0}
    /\ Horizon \in Nat
ASSUME DeckInputAssumption ==
    /\ Requests \subseteq Nat
    /\ Interests \subseteq Nat
    /\ CollateralAmounts \subseteq Nat
    /\ Durations \subseteq Nat
    /\ Prices \subseteq Nat
    /\ Donations \subseteq Nat
    /\ InitialLiquidity \in [LiquidityMints -> [Users -> Nat]]
    /\ InitialCollateral \in [Mints -> [Users -> Nat]]

VARIABLES
    now,        \* Clock::get()?.unix_timestamp
    offer,      \* [Offers -> P2POffer], status "None" when no account
    liq,        \* liquidity-mint balances of the wallets
    coll,       \* SOL / SKR balances of the wallets
    escrow      \* collateral held by the escrow PDA of each offer

vars == <<now, offer, liq, coll, escrow>>

-----------------------------------------------------------------------------
NoOffer == [status |-> "None", funder |-> Nobody, collateral_mint |-> "SOL",
            liquidity_mint |-> NoMint, collateral_amount |-> 0,
            requested_amount |-> 0, interest_offered |-> 0, duration |-> 0,
            due_time |-> 0, grace_period_expires |-> 0]

\* The token program's transfer of x of mint m between two wallets.
Pay(b, m, from, to, x) ==
    LET wallets == b[m]
    IN  [b EXCEPT ![m] = [wallets EXCEPT ![from] = @ - x, ![to] = @ + x]]

Init ==
    /\ now = 0
    /\ offer = [o \in Offers |-> NoOffer]
    /\ liq = InitialLiquidity
    /\ coll = InitialCollateral
    /\ escrow = [o \in Offers |-> 0]

-----------------------------------------------------------------------------
(* Listing.  The price is that of the global feed, which must be fresh;    *)
(* it is read when the offer is listed and never again.                    *)

MaxRequest(collateral, price) ==
    (((collateral * price) \div PriceScale) * 9000) \div 10000

\* Slip: only an offer that is still open counts as taken.
IdIsFreeUnlessOpen(o) == offer[o].status # "Open"
\* The offer account must not exist, whatever the status of the offer in it.
IdIsFree(o) == offer[o].status = "None"

CreateOffer(o, requested, collateral, mint, lmint, interest, duration, price) ==
    /\ requested > 0 /\ collateral > 0
    /\ duration > 0 /\ duration <= Year
    /\ interest <= requested
    /\ IdIsFree(o)
    /\ requested <= MaxRequest(collateral, price)
    /\ coll[mint][Creator(o)] >= collateral
    /\ coll' = [coll EXCEPT ![mint][Creator(o)] = @ - collateral]
    /\ escrow' = [escrow EXCEPT ![o] = @ + collateral]
    /\ offer' = [offer EXCEPT ![o] =
           [status |-> "Open", funder |-> Nobody, collateral_mint |-> mint,
            liquidity_mint |-> lmint, collateral_amount |-> collateral,
            requested_amount |-> requested, interest_offered |-> interest,
            duration |-> duration, due_time |-> 0, grace_period_expires |-> 0]]
    /\ UNCHANGED <<now, liq>>

\* Slips: a funded offer can still be cancelled; cancelling empties the escrow
\* but leaves the offer listed.
CancelOfferAnyTime(o) ==
    /\ offer[o].status \in {"Open", "Funded"}
    /\ coll' = [coll EXCEPT ![offer[o].collateral_mint][Creator(o)] = @ + escrow[o]]
    /\ escrow' = [escrow EXCEPT ![o] = 0]
    /\ offer' = [offer EXCEPT ![o] = NoOffer]
    /\ UNCHANGED <<now, liq>>
CancelOfferStaysListed(o) ==
    /\ offer[o].status = "Open"
    /\ coll' = [coll EXCEPT ![offer[o].collateral_mint][Creator(o)] = @ + escrow[o]]
    /\ escrow' = [escrow EXCEPT ![o] = 0]
    /\ UNCHANGED <<now, liq, offer>>

\* The creator takes back an unfunded offer: the whole escrow balance is
\* drained, dust included, and both accounts are closed.
CancelOffer(o) ==
    /\ offer[o].status = "Open"
    /\ coll' = [coll EXCEPT ![offer[o].collateral_mint][Creator(o)] = @ + escrow[o]]
    /\ escrow' = [escrow EXCEPT ![o] = 0]
    /\ offer' = [offer EXCEPT ![o] = NoOffer]
    /\ UNCHANGED <<now, liq>>

-----------------------------------------------------------------------------
(* Funding.  The instruction names the offer account and nothing of its    *)
(* terms: the funder pays what the offer asks for when it is executed.     *)

\* Slip: a funded offer can be funded again, by somebody faster at the end.
FundableUntilGrace(o) == offer[o].status \in {"Open", "Funded"}
Fundable(o) == offer[o].status = "Open"

FundOffer(f, o) ==
    LET po == offer[o] IN
    /\ Fundable(o)
    /\ f # Creator(o)
    /\ liq[po.liquidity_mint][f] >= po.requested_amount
    /\ liq' = Pay(liq, po.liquidity_mint, f, Creator(o), po.requested_amount)
    /\ offer' = [offer EXCEPT ![o] = [po EXCEPT !.funder = f,
                                                !.due_time = now + po.duration,
                                                !.status = "Funded"]]
    /\ UNCHANGED <<now, coll, escrow>>

-----------------------------------------------------------------------------
(* Settling: repayment, the grace period, the funder's claim.              *)

TotalDue(o) == offer[o].requested_amount + offer[o].interest_offered

MayRepay(o) ==
    LET po == offer[o] IN
    /\ po.status \in {"Funded", "InGracePeriod"}
    /\ po.status = "InGracePeriod" => now < po.grace_period_expires
    /\ liq[po.liquidity_mint][Creator(o)] >= TotalDue(o)
    /\ escrow[o] >= po.collateral_amount

RepayOffer(o) ==
    LET po == offer[o] IN
    /\ MayRepay(o)
    /\ offer' = [offer EXCEPT ![o] = [po EXCEPT !.status = "Repaid"]]
    /\ liq' = Pay(liq, po.liquidity_mint, Creator(o), po.funder, TotalDue(o))
    /\ escrow' = [escrow EXCEPT ![o] = @ - po.collateral_amount]
    /\ coll' = [coll EXCEPT ![po.collateral_mint][Creator(o)]
                                = @ + po.collateral_amount]
    /\ UNCHANGED now

\* Slips: the offer need not be due; only the creator may start grace.
TriggerGracePeriodEarly(caller, o) ==
    /\ offer[o].status = "Funded"
    /\ caller \in {Creator(o), offer[o].funder}
    /\ offer' = [offer EXCEPT ![o] =
           [@ EXCEPT !.status = "InGracePeriod",
                     !.grace_period_expires = now + GracePeriod]]
    /\ UNCHANGED <<now, liq, coll, escrow>>
TriggerGracePeriodByCreator(caller, o) ==
    /\ offer[o].status = "Funded"
    /\ caller = Creator(o)
    /\ now >= offer[o].due_time
    /\ offer' = [offer EXCEPT ![o] =
           [@ EXCEPT !.status = "InGracePeriod",
                     !.grace_period_expires = now + GracePeriod]]
    /\ UNCHANGED <<now, liq, coll, escrow>>

MayTriggerGrace(caller, o) ==
    /\ offer[o].status = "Funded"
    /\ caller \in {Creator(o), offer[o].funder}
    /\ now >= offer[o].due_time

TriggerGracePeriod(caller, o) ==
    /\ MayTriggerGrace(caller, o)
    /\ offer' = [offer EXCEPT ![o] =
           [@ EXCEPT !.status = "InGracePeriod",
                     !.grace_period_expires = now + GracePeriod]]
    /\ UNCHANGED <<now, liq, coll, escrow>>

\* Slip: the instant of expiry belongs to neither party.
GraceIsOverStrictly(o) ==
    offer[o].status = "InGracePeriod" /\ now > offer[o].grace_period_expires
GraceIsOver(o) ==
    offer[o].status = "InGracePeriod" /\ now >= offer[o].grace_period_expires

MayClaim(o) == GraceIsOver(o) /\ escrow[o] >= offer[o].collateral_amount

ClaimDefault(o) ==
    LET po == offer[o] IN
    /\ MayClaim(o)
    /\ escrow' = [escrow EXCEPT ![o] = @ - po.collateral_amount]
    /\ coll' = [coll EXCEPT ![po.collateral_mint][po.funder]
                                = @ + po.collateral_amount]
    /\ offer' = [offer EXCEPT ![o] = [po EXCEPT !.status = "Defaulted"]]
    /\ UNCHANGED <<now, liq>>

-----------------------------------------------------------------------------
(* The environment: time, and transfers into an escrow, which nobody can   *)
(* refuse.  A donation is large enough to leave the escrow rent-exempt on  *)
(* its own, so that paying out the collateral leaves a legal account.      *)

Tick ==
    /\ now < Horizon
    /\ now' = now + 1
    /\ UNCHANGED <<offer, liq, coll, escrow>>

Donate(u, o, amount) ==
    LET m == offer[o].collateral_mint IN
    /\ offer[o].status # "None"
    /\ coll[m][u] >= amount
    /\ coll' = [coll EXCEPT ![m][u] = @ - amount]
    /\ escrow' = [escrow EXCEPT ![o] = @ + amount]
    /\ UNCHANGED <<now, offer, liq>>

-----------------------------------------------------------------------------
List ==
    \E o \in Offers :
        \/ CancelOffer(o)
        \/ \E x \in Requests, c \in CollateralAmounts, m \in Mints,
              lm \in LiquidityMints, i \in Interests, d \in Durations,
              p \in Prices : CreateOffer(o, x, c, m, lm, i, d, p)

Settle ==
    \E o \in Offers :
        \/ RepayOffer(o)
        \/ ClaimDefault(o)
        \/ \E caller \in Users : TriggerGracePeriod(caller, o)

Fund == \E f \in Users, o \in Offers : FundOffer(f, o)

Gift == \E u \in Users, o \in Offers, x \in Donations : Donate(u, o, x)

Next == List \/ Fund \/ Settle \/ Gift \/ Tick

Spec == Init /\ [][Next]_vars

-----------------------------------------------------------------------------
(* Properties.                                                             *)

P2POffer ==
    [status : {"None", "Open", "Funded", "InGracePeriod", "Repaid", "Defaulted"},
     funder : Users \cup {Nobody}, collateral_mint : Mints,
     liquidity_mint : LiquidityMints \cup {NoMint}, collateral_amount : Nat,
     requested_amount : Nat, interest_offered : Nat, duration : Nat,
     due_time : Nat, grace_period_expires : Nat]

Taken(o) == offer[o].status \in {"Funded", "InGracePeriod"}
Settled(o) == offer[o].status \in {"Repaid", "Defaulted"}

\* The fields of an offer account and all balances stay in their ranges.
TypeOK ==
    /\ now \in Nat
    /\ offer \in [Offers -> P2POffer]
    /\ liq \in [LiquidityMints -> [Users -> Nat]]
    /\ coll \in [Mints -> [Users -> Nat]]
    /\ escrow \in [Offers -> Nat]

\* While an offer is listed or funded its collateral is in escrow in full,
\* across donations and re-listings of the same id, and an offer without an
\* account has an empty escrow.
EscrowBacked(o) ==
    /\ (offer[o].status = "Open" \/ Taken(o)) =>
           /\ offer[o].collateral_amount > 0
           /\ escrow[o] >= offer[o].collateral_amount
    /\ offer[o].status = "None" => offer[o] = NoOffer /\ escrow[o] = 0

\* An offer owes its money to somebody else than its creator exactly when it
\* has been funded, it has no due time before, and grace never ends before a
\* grace period after the due time.
FunderKnown(o) ==
    /\ offer[o].status = "Open" => offer[o].due_time = 0
    /\ Taken(o) \/ Settled(o) <=> offer[o].funder # Nobody
    /\ offer[o].funder # Creator(o)
    /\ offer[o].status = "None" <=> offer[o].liquidity_mint = NoMint
    /\ offer[o].status = "InGracePeriod" =>
           offer[o].grace_period_expires >= offer[o].due_time + GracePeriod

\* The inductive invariant of the deck.
DeckInv == TypeOK /\ \A o \in Offers : EscrowBacked(o) /\ FunderKnown(o)

\* Once funded, an offer's parties and terms are fixed, and it only moves on
\* to grace and to one of the two ends, whatever is signed in between.
Terms(po) == [po EXCEPT !.status = "None", !.grace_period_expires = 0]
TermsKept(o) ==
    /\ Taken(o) => /\ Terms(offer'[o]) = Terms(offer[o])
                   /\ offer'[o].status \notin {"Open", "None"}
    /\ Settled(o) => offer'[o] = offer[o]
TermsFrozen == [][\A o \in Offers : TermsKept(o)]_vars

\* Collateral leaves an escrow only as the offer says: back to the creator of
\* an unfunded offer, back to the creator against principal and interest to
\* the funder, or to the funder a full grace period after the due time.
EscrowRelease(o) ==
    LET po == offer[o]
        out == escrow[o] - escrow'[o]
        gain(u) == coll'[po.collateral_mint][u] - coll[po.collateral_mint][u]
        paid == liq'[po.liquidity_mint][po.funder] - liq[po.liquidity_mint][po.funder]
    IN  \/ po.status = "Open" /\ gain(Creator(o)) = out
        \/ Taken(o) /\ gain(Creator(o)) = out /\ paid = TotalDue(o)
        \/ Taken(o) /\ gain(po.funder) = out /\ now >= po.due_time + GracePeriod
EscrowPaysTheRightParty ==
    [][\A o \in Offers : escrow'[o] < escrow[o] => EscrowRelease(o)]_vars

\* What offer o has paid into and taken out of the wallet of u, as it stands.
MoneyIn(m, u) ==
    [o \in Offers |->
        LET po == offer[o] IN
        IF po.liquidity_mint # m THEN 0
        ELSE IF u = Creator(o) /\ (Taken(o) \/ po.status = "Defaulted")
             THEN po.requested_amount
        ELSE IF u = po.funder /\ po.status = "Repaid" THEN po.interest_offered ELSE 0]
MoneyOut(m, u) ==
    [o \in Offers |->
        LET po == offer[o] IN
        IF po.liquidity_mint # m THEN 0
        ELSE IF u = po.funder /\ (Taken(o) \/ po.status = "Defaulted")
             THEN po.requested_amount
        ELSE IF u = Creator(o) /\ po.status = "Repaid" THEN po.interest_offered ELSE 0]
CollateralIn(m, u) ==
    [o \in Offers |->
        LET po == offer[o] IN
        IF po.collateral_mint = m /\ u = po.funder /\ po.status = "Defaulted"
        THEN po.collateral_amount ELSE 0]
CollateralOut(m, u) ==
    [o \in Offers |->
        LET po == offer[o] IN
        IF po.collateral_mint = m /\ u = Creator(o) /\ po.status \notin {"None", "Repaid"}
        THEN po.collateral_amount ELSE 0]
OverOffers(w) == Cardinality(UNION {{o} \X (1..w[o]) : o \in Offers})

\* Every wallet is explained by the offers as they now stand: whatever was
\* cancelled, listed again, raced for or settled on the way, each offer has
\* moved its principal and its interest exactly once
MoneyMatchesOffers ==
    \A m \in LiquidityMints, u \in Users :
        liq[m][u] + OverOffers(MoneyOut(m, u))
            = InitialLiquidity[m][u] + OverOffers(MoneyIn(m, u))
\* and, where nobody sends gifts to escrows, its collateral.
CollateralMatchesOffers ==
    \A m \in Mints, u \in Users :
        coll[m][u] + OverOffers(CollateralOut(m, u))
            = InitialCollateral[m][u] + OverOffers(CollateralIn(m, u))
WalletsMatchOffers == MoneyMatchesOffers /\ CollateralMatchesOffers

\* Nobody is locked out of an offer, and never are both ends open at once: the
\* creator's counterparty can start grace on an overdue one, until grace is over
\* the creator can repay who has the money, and from the first instant after it
\* the counterparty can claim and the creator can no longer repay.
PartiesCanAct ==
    \A o \in Offers :
        LET po == offer[o] IN
        /\ (po.status = "Funded" /\ now >= po.due_time)
              => \E u \in Users \ {Creator(o)} : MayTriggerGrace(u, o)
        /\ (Taken(o) /\ ~GraceIsOver(o)
              /\ liq[po.liquidity_mint][Creator(o)] >= TotalDue(o)) => MayRepay(o)
        /\ (po.status = "InGracePeriod" /\ now >= po.grace_period_expires)
              => MayClaim(o)
        /\ ~(MayClaim(o) /\ MayRepay(o))
=============================================================================
