--------------------------- MODULE PawnDeckProofs ---------------------------
(***************************************************************************)
(* What is proved of PawnDeck for every set of users, offer ids, mints and *)
(* inputs: the inductive invariant DeckInv, that a funded offer's parties  *)
(* and terms are fixed, that escrows pay only the party the offer names,   *)
(* that the deck implements PawnPromise and that balances follow offers;   *)
(* and of PawnDeckApp: that the phone's composition with the deck          *)
(* implements the deck, and what an offer on its screen says of a debt.    *)
(*                                                                         *)
(* Every instruction writes one offer and its escrow.  So each action is   *)
(* treated once, for the offer it writes; OnlyOffer carries the invariant  *)
(* over to all the others.                                                 *)
(***************************************************************************)
EXTENDS PawnDeckPawn, PawnDeckApp, UnitSums, TLAPS

\* A transfer between two wallets that the payer can afford leaves all
\* balances naturals.
LEMMA PayType ==
    ASSUME NEW M, NEW b \in [M -> [Users -> Nat]], NEW m \in M,
           NEW f \in Users, NEW t \in Users, NEW x \in Nat, b[m][f] >= x
    PROVE  Pay(b, m, f, t, x) \in [M -> [Users -> Nat]]
<1> DEFINE w == [b[m] EXCEPT ![f] = @ - x, ![t] = @ + x]
<1>1. b[m] \in [Users -> Nat]
  OBVIOUS
<1>2. w \in [Users -> Nat]
  BY <1>1
<1>3. Pay(b, m, f, t, x) = [b EXCEPT ![m] = w]
  BY DEF Pay
<1> HIDE DEF w
<1> QED
  BY <1>2, <1>3

\* Collateral arriving in a wallet, or leaving one that holds it.
LEMMA WalletType ==
    ASSUME NEW b \in [Mints -> [Users -> Nat]], NEW m \in Mints,
           NEW u \in Users, NEW x \in Nat
    PROVE  /\ [b EXCEPT ![m][u] = @ + x] \in [Mints -> [Users -> Nat]]
           /\ b[m][u] >= x =>
                 [b EXCEPT ![m][u] = @ - x] \in [Mints -> [Users -> Nat]]
<1>1. b[m] \in [Users -> Nat]
  OBVIOUS
<1>2. [b[m] EXCEPT ![u] = @ + x] \in [Users -> Nat]
  BY <1>1
<1>3. b[m][u] >= x => [b[m] EXCEPT ![u] = @ - x] \in [Users -> Nat]
  BY <1>1
<1>4. /\ [b EXCEPT ![m][u] = @ + x]
             = [b EXCEPT ![m] = [b[m] EXCEPT ![u] = @ + x]]
      /\ [b EXCEPT ![m][u] = @ - x]
             = [b EXCEPT ![m] = [b[m] EXCEPT ![u] = @ - x]]
  OBVIOUS
<1> QED
  BY <1>2, <1>3, <1>4

\* What the invariant says of the fields of one offer.
LEMMA OfferFields ==
    ASSUME DeckInv, NEW o \in Offers
    PROVE  /\ offer[o] \in P2POffer /\ escrow[o] \in Nat /\ now \in Nat
           /\ Creator(o) \in Users
           /\ offer[o].collateral_mint \in Mints
           /\ offer[o].status # "None" => offer[o].liquidity_mint \in LiquidityMints
           /\ Taken(o) => offer[o].funder \in Users
           /\ EscrowBacked(o) /\ FunderKnown(o)
BY DEF DeckInv, TypeOK, P2POffer, FunderKnown, Taken, Offers, Creator

\* An account that does not exist reads as a well-typed offer.
LEMMA NoOfferType == NoOffer \in P2POffer
BY DEF NoOffer, P2POffer, Mints

\* process_create_p2p_offer, process_fund_p2p_offer and the settling handlers
\* overwrite the fields of an offer by values of their types.
LEMMA OfferUpdate ==
    ASSUME NEW r \in P2POffer, NEW f \in Users, NEW n \in Nat
    PROVE  /\ [r EXCEPT !.funder = f, !.due_time = n, !.status = "Funded"]
                  \in P2POffer
           /\ [r EXCEPT !.status = "Repaid"] \in P2POffer
           /\ [r EXCEPT !.status = "Defaulted"] \in P2POffer
           /\ [r EXCEPT !.status = "InGracePeriod", !.grace_period_expires = n]
                  \in P2POffer
BY DEF P2POffer

-----------------------------------------------------------------------------
(* One offer is written at a time. *)

\* The step writes no offer and no escrow but o's.
OnlyOffer(o) ==
    \A k \in Offers : k # o => offer'[k] = offer[k] /\ escrow'[k] = escrow[k]

\* An offer that a step does not write keeps its part of the invariant.
LEMMA Untouched ==
    ASSUME DeckInv, NEW k \in Offers, offer'[k] = offer[k], escrow'[k] = escrow[k]
    PROVE  EscrowBacked(k)' /\ FunderKnown(k)'
BY OfferFields DEF EscrowBacked, FunderKnown, Taken, Settled

\* So the invariant of the written offer is all a step has to establish.
LEMMA InvFromOne ==
    ASSUME DeckInv, TypeOK', NEW o \in Offers, OnlyOffer(o),
           EscrowBacked(o)', FunderKnown(o)'
    PROVE  DeckInv'
<1> SUFFICES ASSUME NEW k \in Offers PROVE EscrowBacked(k)' /\ FunderKnown(k)'
  BY DEF DeckInv
<1>1. CASE k = o
  BY <1>1
<1>2. CASE k # o
  BY <1>2, Untouched DEF OnlyOffer
<1> QED
  BY <1>1, <1>2

-----------------------------------------------------------------------------
(* The invariant, action by action. *)

\* The empty deck satisfies the invariant.
LEMMA DeckInit == Init => DeckInv
<1> SUFFICES ASSUME Init PROVE DeckInv
  OBVIOUS
<1>1. TypeOK
  BY NoOfferType, DeckInputAssumption DEF Init, TypeOK
<1>2. ASSUME NEW o \in Offers PROVE EscrowBacked(o) /\ FunderKnown(o)
  <2>1. offer[o] = NoOffer /\ escrow[o] = 0
    BY DEF Init
  <2>2. Creator(o) # Nobody
    BY DeckActorAssumption DEF Offers, Creator
  <2> QED
    BY <2>1, <2>2 DEF EscrowBacked, FunderKnown, NoOffer, Taken, Settled
<1> QED
  BY <1>1, <1>2 DEF DeckInv

\* Listing an offer escrows exactly the collateral the new account records.
LEMMA CreateInv ==
    ASSUME DeckInv, NEW o \in Offers, NEW x \in Requests,
           NEW c \in CollateralAmounts, NEW m \in Mints, NEW lm \in LiquidityMints,
           NEW i \in Interests, NEW d \in Durations, NEW p \in Prices,
           CreateOffer(o, x, c, m, lm, i, d, p)
    PROVE  DeckInv' /\ OnlyOffer(o)
<1>0. x \in Nat /\ c \in Nat /\ i \in Nat /\ d \in Nat /\ TypeOK
  BY DeckInputAssumption DEF DeckInv
<1>1. Creator(o) \in Users /\ Creator(o) # Nobody
  BY DeckActorAssumption DEF Offers, Creator
<1>2. OnlyOffer(o)
  BY <1>0 DEF CreateOffer, OnlyOffer, TypeOK
<1>3. offer[o].status = "None" /\ escrow[o] = 0
  BY OfferFields DEF CreateOffer, IdIsFree, EscrowBacked
<1>4. /\ escrow'[o] = c /\ offer'[o].status = "Open"
      /\ offer'[o].collateral_amount = c /\ offer'[o].funder = Nobody
      /\ offer'[o].liquidity_mint = lm /\ offer'[o].due_time = 0
  BY <1>0, <1>3 DEF CreateOffer, TypeOK
<1>5. TypeOK'
  <2>1. coll' \in [Mints -> [Users -> Nat]]
    BY <1>0, <1>1, WalletType DEF CreateOffer, TypeOK
  <2>2. offer'[o] \in P2POffer
    BY <1>0 DEF CreateOffer, TypeOK, P2POffer
  <2>3. offer' \in [Offers -> P2POffer]
    BY <1>0, <2>2 DEF CreateOffer, TypeOK
  <2> QED
    BY <1>0, <2>1, <2>3 DEF CreateOffer, TypeOK
<1>6. EscrowBacked(o)'
  BY <1>0, <1>4 DEF CreateOffer, EscrowBacked, Taken
<1>7. FunderKnown(o)'
  BY <1>1, <1>4, DeckActorAssumption DEF FunderKnown, Taken, Settled
<1> QED
  BY <1>2, <1>5, <1>6, <1>7, InvFromOne

\* Cancelling leaves neither an account nor anything in escrow.
LEMMA CancelInv ==
    ASSUME DeckInv, NEW o \in Offers, CancelOffer(o)
    PROVE  DeckInv' /\ OnlyOffer(o)
<1>0. TypeOK
  BY DEF DeckInv
<1>1. Creator(o) \in Users /\ Creator(o) # Nobody
  BY DeckActorAssumption DEF Offers, Creator
<1>2. OnlyOffer(o)
  BY <1>0 DEF CancelOffer, OnlyOffer, TypeOK
<1>3. offer'[o] = NoOffer /\ escrow'[o] = 0
  BY <1>0 DEF CancelOffer, TypeOK
<1>4. TypeOK'
  <2>1. coll' \in [Mints -> [Users -> Nat]]
    BY <1>0, OfferFields, WalletType DEF CancelOffer, TypeOK
  <2>2. offer' \in [Offers -> P2POffer]
    BY <1>0, NoOfferType DEF CancelOffer, TypeOK
  <2> QED
    BY <1>0, <2>1, <2>2 DEF CancelOffer, TypeOK
<1>5. EscrowBacked(o)' /\ FunderKnown(o)'
  BY <1>1, <1>3 DEF EscrowBacked, FunderKnown, NoOffer, Taken, Settled
<1> QED
  BY <1>2, <1>4, <1>5, InvFromOne

\* Funding records a funder other than the creator and leaves the escrow alone.
LEMMA FundInv ==
    ASSUME DeckInv, NEW f \in Users, NEW o \in Offers, FundOffer(f, o)
    PROVE  DeckInv' /\ OnlyOffer(o)
<1> DEFINE po == offer[o]
           funded == [po EXCEPT !.funder = f, !.due_time = now + po.duration,
                                !.status = "Funded"]
<1>0. TypeOK /\ po \in P2POffer /\ now \in Nat /\ Creator(o) \in Users
  BY OfferFields DEF DeckInv
<1>1. OnlyOffer(o)
  BY <1>0 DEF FundOffer, OnlyOffer, TypeOK
<1>2. /\ po.status = "Open" /\ f # Creator(o) /\ f # Nobody
      /\ po.liquidity_mint \in LiquidityMints
  BY OfferFields, DeckActorAssumption DEF FundOffer, Fundable
<1>3. offer'[o] = funded /\ escrow'[o] = escrow[o]
  BY <1>0 DEF FundOffer, TypeOK
<1>4. now + po.duration \in Nat /\ po.requested_amount \in Nat
  BY <1>0 DEF P2POffer
<1>5. funded \in P2POffer
  BY <1>0, <1>4, OfferUpdate
<1>6. TypeOK'
  <2>1. liq' \in [LiquidityMints -> [Users -> Nat]]
    <3>1. liq' = Pay(liq, po.liquidity_mint, f, Creator(o), po.requested_amount)
      BY DEF FundOffer
    <3>2. liq[po.liquidity_mint][f] >= po.requested_amount
      BY DEF FundOffer
    <3> HIDE DEF po
    <3> QED
      BY <1>0, <1>2, <1>4, <3>1, <3>2, PayType DEF TypeOK
  <2>2. offer' \in [Offers -> P2POffer]
    BY <1>0, <1>5 DEF FundOffer, TypeOK
  <2> QED
    BY <1>0, <2>1, <2>2 DEF FundOffer, TypeOK
<1>7. /\ offer'[o].status = "Funded" /\ offer'[o].funder = f
      /\ offer'[o].liquidity_mint = po.liquidity_mint
      /\ offer'[o].collateral_amount = po.collateral_amount
  BY <1>0, <1>3 DEF P2POffer
<1>8. EscrowBacked(o)'
  BY <1>2, <1>3, <1>7, OfferFields DEF EscrowBacked, Taken
<1>9. FunderKnown(o)'
  BY <1>2, <1>7, DeckActorAssumption DEF FunderKnown, Taken, Settled
<1> QED
  BY <1>1, <1>6, <1>8, <1>9, InvFromOne

\* Repaying empties the escrow of the collateral the creator gets back and
\* pays the funder, whom the invariant knows to be another wallet.
LEMMA RepayInv ==
    ASSUME DeckInv, NEW o \in Offers, RepayOffer(o)
    PROVE  DeckInv' /\ OnlyOffer(o)
<1> DEFINE po == offer[o]
           repaid == [po EXCEPT !.status = "Repaid"]
<1>0. /\ TypeOK /\ po \in P2POffer /\ Creator(o) \in Users
      /\ po.collateral_mint \in Mints
  BY OfferFields DEF DeckInv
<1>1. OnlyOffer(o)
  BY <1>0 DEF RepayOffer, MayRepay, OnlyOffer, TypeOK
<1>2. Taken(o) /\ po.status # "None"
  BY DEF RepayOffer, MayRepay, Taken
<1>3. po.funder \in Users /\ po.liquidity_mint \in LiquidityMints
  BY <1>2, OfferFields
<1>4. offer'[o] = repaid /\ escrow'[o] = escrow[o] - po.collateral_amount
  BY <1>0 DEF RepayOffer, MayRepay, TypeOK
<1>5. TotalDue(o) \in Nat /\ po.collateral_amount \in Nat
  BY <1>0 DEF P2POffer, TotalDue
<1>6. TypeOK'
  <2>1. liq' \in [LiquidityMints -> [Users -> Nat]]
    <3>1. /\ liq' = Pay(liq, po.liquidity_mint, Creator(o), po.funder, TotalDue(o))
          /\ liq[po.liquidity_mint][Creator(o)] >= TotalDue(o)
      BY DEF RepayOffer, MayRepay
    <3> HIDE DEF po
    <3> QED
      BY <1>0, <1>3, <1>5, <3>1, PayType DEF TypeOK
  <2>2. coll' \in [Mints -> [Users -> Nat]]
    BY <1>0, <1>5, WalletType DEF RepayOffer, MayRepay, TypeOK
  <2>3. offer' \in [Offers -> P2POffer]
    <3>1. repaid \in P2POffer
      BY <1>0, OfferUpdate
    <3> QED
      BY <1>0, <3>1 DEF RepayOffer, MayRepay, TypeOK
  <2>4. escrow' \in [Offers -> Nat]
    BY <1>0, <1>5 DEF RepayOffer, MayRepay, TypeOK
  <2> QED
    BY <1>0, <2>1, <2>2, <2>3, <2>4 DEF RepayOffer, MayRepay, TypeOK
<1>7. /\ offer'[o].status = "Repaid" /\ offer'[o].funder = po.funder
      /\ offer'[o].liquidity_mint = po.liquidity_mint
  BY <1>0, <1>4 DEF P2POffer
<1>8. EscrowBacked(o)'
  BY <1>7 DEF EscrowBacked, Taken
<1>9. FunderKnown(o)'
  BY <1>2, <1>3, <1>7, OfferFields DEF FunderKnown, Taken, Settled
<1> QED
  BY <1>1, <1>6, <1>8, <1>9, InvFromOne

\* Grace starts no earlier than the due time, so it ends no earlier than a
\* grace period after it.
LEMMA TriggerInv ==
    ASSUME DeckInv, NEW u \in Users, NEW o \in Offers, TriggerGracePeriod(u, o)
    PROVE  DeckInv' /\ OnlyOffer(o)
<1> DEFINE po == offer[o]
           graced == [po EXCEPT !.status = "InGracePeriod",
                                !.grace_period_expires = now + GracePeriod]
<1>0. TypeOK /\ po \in P2POffer /\ now \in Nat
  BY OfferFields DEF DeckInv
<1>1. OnlyOffer(o)
  BY <1>0 DEF TriggerGracePeriod, MayTriggerGrace, OnlyOffer, TypeOK
<1>2. Taken(o) /\ po.status # "None" /\ now >= po.due_time
  BY DEF TriggerGracePeriod, MayTriggerGrace, Taken
<1>3. offer'[o] = graced /\ escrow'[o] = escrow[o]
  BY <1>0 DEF TriggerGracePeriod, MayTriggerGrace, TypeOK
<1>4. now + GracePeriod \in Nat
  BY <1>0, DeckParameterAssumption
<1>5. TypeOK'
  <2>1. graced \in P2POffer
    BY <1>0, <1>4, OfferUpdate
  <2>2. offer' \in [Offers -> P2POffer]
    BY <1>0, <2>1 DEF TriggerGracePeriod, MayTriggerGrace, TypeOK
  <2> QED
    BY <1>0, <2>2 DEF TriggerGracePeriod, MayTriggerGrace, TypeOK
<1>6. /\ offer'[o].status = "InGracePeriod" /\ offer'[o].funder = po.funder
      /\ offer'[o].liquidity_mint = po.liquidity_mint
      /\ offer'[o].collateral_amount = po.collateral_amount
      /\ offer'[o].due_time = po.due_time
      /\ offer'[o].grace_period_expires = now + GracePeriod
  BY <1>0, <1>3 DEF P2POffer
<1>7. EscrowBacked(o)'
  BY <1>2, <1>3, <1>6, OfferFields DEF EscrowBacked, Taken
<1>8. po.due_time \in Nat
  BY <1>0 DEF P2POffer
<1>9. FunderKnown(o)'
  BY <1>0, <1>2, <1>6, <1>8, DeckParameterAssumption, OfferFields
     DEF FunderKnown, Taken, Settled
<1> QED
  BY <1>1, <1>5, <1>7, <1>9, InvFromOne

\* A claim pays the recorded funder out of the escrow.
LEMMA ClaimInv ==
    ASSUME DeckInv, NEW o \in Offers, ClaimDefault(o)
    PROVE  DeckInv' /\ OnlyOffer(o)
<1> DEFINE po == offer[o]
           seized == [po EXCEPT !.status = "Defaulted"]
<1>0. /\ TypeOK /\ po \in P2POffer /\ po.collateral_mint \in Mints
      /\ now \in Nat
  BY OfferFields DEF DeckInv
<1>1. OnlyOffer(o)
  BY <1>0 DEF ClaimDefault, MayClaim, OnlyOffer, TypeOK
<1>2. Taken(o) /\ po.status # "None"
  BY DEF ClaimDefault, MayClaim, GraceIsOver, Taken
<1>3. po.funder \in Users
  BY <1>2, OfferFields
<1>4. offer'[o] = seized
  BY <1>0 DEF ClaimDefault, MayClaim, TypeOK
<1>5. po.collateral_amount \in Nat
  BY <1>0 DEF P2POffer
<1>6. TypeOK'
  <2>1. coll' \in [Mints -> [Users -> Nat]]
    BY <1>0, <1>3, <1>5, WalletType DEF ClaimDefault, MayClaim, TypeOK
  <2>2. offer' \in [Offers -> P2POffer]
    <3>1. seized \in P2POffer
      BY <1>0, <1>3, OfferUpdate
    <3> QED
      BY <1>0, <3>1 DEF ClaimDefault, MayClaim, TypeOK
  <2>3. escrow' \in [Offers -> Nat]
    BY <1>0, <1>5 DEF ClaimDefault, MayClaim, TypeOK
  <2> QED
    BY <1>0, <2>1, <2>2, <2>3 DEF ClaimDefault, MayClaim, TypeOK
<1>7. /\ offer'[o].status = "Defaulted" /\ offer'[o].funder = po.funder
      /\ offer'[o].liquidity_mint = po.liquidity_mint
  BY <1>0, <1>4 DEF P2POffer
<1>8. EscrowBacked(o)'
  BY <1>7 DEF EscrowBacked, Taken
<1>9. FunderKnown(o)'
  BY <1>2, <1>3, <1>7, OfferFields DEF FunderKnown, Taken, Settled
<1> QED
  BY <1>1, <1>6, <1>8, <1>9, InvFromOne

\* A donation only adds to an escrow.
LEMMA DonateInv ==
    ASSUME DeckInv, NEW u \in Users, NEW o \in Offers, NEW x \in Donations,
           Donate(u, o, x)
    PROVE  DeckInv' /\ OnlyOffer(o)
<1>0. TypeOK /\ x \in Nat /\ offer[o].collateral_mint \in Mints
  BY OfferFields, DeckInputAssumption DEF DeckInv
<1>1. OnlyOffer(o)
  BY <1>0 DEF Donate, OnlyOffer, TypeOK
<1>2. offer' = offer /\ escrow'[o] = escrow[o] + x
  BY <1>0 DEF Donate, TypeOK
<1>3. TypeOK'
  <2>1. coll' \in [Mints -> [Users -> Nat]]
    BY <1>0, WalletType DEF Donate, TypeOK
  <2>2. escrow' \in [Offers -> Nat]
    BY <1>0 DEF Donate, TypeOK
  <2> QED
    BY <1>0, <2>1, <2>2 DEF Donate, TypeOK
<1>4. offer[o].collateral_amount \in Nat /\ escrow[o] \in Nat
  BY OfferFields DEF P2POffer
<1>5. EscrowBacked(o)'
  BY <1>0, <1>2, <1>4, OfferFields DEF EscrowBacked, Donate, Taken
<1>6. FunderKnown(o)'
  BY <1>2, OfferFields DEF FunderKnown, Taken, Settled
<1> QED
  BY <1>1, <1>3, <1>5, <1>6, InvFromOne

\* The passing of time writes no offer.
LEMMA IdleInv ==
    ASSUME DeckInv, Tick \/ UNCHANGED vars
    PROVE  DeckInv'
<1>1. TypeOK'
  BY DEF DeckInv, TypeOK, Tick, vars
<1>2. offer' = offer /\ escrow' = escrow
  BY DEF Tick, vars
<1> QED
  BY <1>1, <1>2, Untouched DEF DeckInv

\* Every step of the deck keeps the invariant.
LEMMA DeckNext == DeckInv /\ [Next]_vars => DeckInv'
<1> SUFFICES ASSUME DeckInv, [Next]_vars PROVE DeckInv'
  OBVIOUS
<1>1. CASE List
  BY <1>1, CreateInv, CancelInv DEF List
<1>2. CASE Fund
  BY <1>2, FundInv DEF Fund
<1>3. CASE Settle
  BY <1>3, RepayInv, ClaimInv, TriggerInv DEF Settle
<1>4. CASE Gift
  BY <1>4, DonateInv DEF Gift
<1>5. CASE Tick \/ UNCHANGED vars
  BY <1>5, IdleInv
<1> QED
  BY <1>1, <1>2, <1>3, <1>4, <1>5 DEF Next

\* In every reachable state the deck's accounts are well typed, every listed
\* or funded offer has its collateral in escrow, and every debt has a creditor.
THEOREM DeckInvariant == Spec => []DeckInv
<1>1. Init => DeckInv
  BY DeckInit
<1>2. DeckInv /\ [Next]_vars => DeckInv'
  BY DeckNext
<1> QED
  BY <1>1, <1>2, PTL DEF Spec

\* process_trigger_grace_period, process_repay_loan and process_claim_default
\* between them lock nobody out of a funded offer: the party whose turn it is
\* finds the collateral in escrow, and it is never the turn of both.
THEOREM PartiesHaveAWay == Spec => []PartiesCanAct
<1>1. ASSUME DeckInv, NEW o \in Offers
      PROVE  /\ (offer[o].status = "Funded" /\ now >= offer[o].due_time)
                   => \E u \in Users \ {Creator(o)} : MayTriggerGrace(u, o)
             /\ (Taken(o) /\ ~GraceIsOver(o)
                   /\ liq[offer[o].liquidity_mint][Creator(o)] >= TotalDue(o)) => MayRepay(o)
             /\ (offer[o].status = "InGracePeriod"
                   /\ now >= offer[o].grace_period_expires) => MayClaim(o)
             /\ ~(MayClaim(o) /\ MayRepay(o))
  <2>1. /\ now \in Nat /\ offer[o] \in P2POffer /\ EscrowBacked(o) /\ FunderKnown(o)
        /\ offer[o].grace_period_expires \in Nat
    BY <1>1 DEF DeckInv, TypeOK, P2POffer
  <2>2. Taken(o) => /\ offer[o].funder \in Users \ {Creator(o)}
                    /\ escrow[o] >= offer[o].collateral_amount
    BY <2>1 DEF P2POffer, FunderKnown, EscrowBacked
  <2>3. (offer[o].status = "Funded" /\ now >= offer[o].due_time)
            => MayTriggerGrace(offer[o].funder, o)
    BY <2>1 DEF MayTriggerGrace
  <2> QED BY <2>1, <2>2, <2>3 DEF Taken, GraceIsOver, MayRepay, MayClaim
<1>2. DeckInv => PartiesCanAct
  BY <1>1 DEF PartiesCanAct
<1> QED
  BY <1>2, DeckInvariant, PTL

-----------------------------------------------------------------------------
(* The shapes a step can have for the offer it writes. *)

\* Listing and cancelling, before any debt exists.
Relisted(o) ==
    /\ {offer[o].status, offer'[o].status} \subseteq {"None", "Open"}
    /\ offer'[o].due_time = offer[o].due_time
\* Funding turns an open offer into a debt that is not yet overdue.
Funded(o) ==
    /\ offer[o].status = "Open" /\ offer'[o].status = "Funded"
    /\ offer'[o].due_time >= now
\* Starting grace.
Graced(o) ==
    /\ offer[o].status = "Funded"
    /\ offer'[o] = [offer[o] EXCEPT !.status = "InGracePeriod",
                                    !.grace_period_expires = now + GracePeriod]
\* One of the two ends.
Closed(o) ==
    /\ Taken(o)
    /\ \/ offer'[o] = [offer[o] EXCEPT !.status = "Repaid"]
       \/ /\ offer'[o] = [offer[o] EXCEPT !.status = "Defaulted"]
          /\ GraceIsOver(o)
Shape(o) == Relisted(o) \/ Funded(o) \/ Graced(o) \/ Closed(o)

\* Listing has the first shape: the account before and after has no due time.
LEMMA CreateShape ==
    ASSUME DeckInv, NEW o \in Offers, NEW x, NEW c, NEW m, NEW lm, NEW i, NEW d,
           NEW p, CreateOffer(o, x, c, m, lm, i, d, p)
    PROVE  Relisted(o)
<1>1. offer[o] = NoOffer
  BY OfferFields DEF CreateOffer, IdIsFree, EscrowBacked
<1>2. offer'[o].status = "Open" /\ offer'[o].due_time = 0
  BY DEF CreateOffer, DeckInv, TypeOK
<1> QED
  BY <1>1, <1>2 DEF Relisted, NoOffer

\* So has cancelling.
LEMMA CancelShape ==
    ASSUME DeckInv, NEW o \in Offers, CancelOffer(o)
    PROVE  Relisted(o)
<1>1. offer'[o] = NoOffer
  BY DEF CancelOffer, DeckInv, TypeOK
<1>2. offer[o].status = "Open" /\ offer[o].due_time = 0
  BY OfferFields DEF CancelOffer, FunderKnown
<1> QED
  BY <1>1, <1>2 DEF Relisted, NoOffer

\* Funding has the second.
LEMMA FundShape ==
    ASSUME DeckInv, NEW f \in Users, NEW o \in Offers, FundOffer(f, o)
    PROVE  Funded(o)
<1>1. offer[o] \in P2POffer /\ now \in Nat
  BY OfferFields
<1>2. offer'[o] = [offer[o] EXCEPT !.funder = f,
                                   !.due_time = now + offer[o].duration,
                                   !.status = "Funded"]
  BY DEF FundOffer, DeckInv, TypeOK
<1>3. /\ offer'[o].status = "Funded"
      /\ offer'[o].due_time = now + offer[o].duration
      /\ offer[o].duration \in Nat
  BY <1>1, <1>2 DEF P2POffer
<1> QED
  BY <1>1, <1>3 DEF Funded, FundOffer, Fundable

\* Settling has one of the others.
LEMMA SettleShape ==
    ASSUME DeckInv, NEW o \in Offers,
           \/ RepayOffer(o)
           \/ ClaimDefault(o)
           \/ \E u \in Users : TriggerGracePeriod(u, o)
    PROVE  Graced(o) \/ Closed(o)
<1>0. TypeOK
  BY DEF DeckInv
<1>1. CASE RepayOffer(o)
  BY <1>0, <1>1 DEF RepayOffer, MayRepay, Closed, Taken, TypeOK
<1>2. CASE ClaimDefault(o)
  BY <1>0, <1>2 DEF ClaimDefault, MayClaim, Closed, Taken, GraceIsOver, TypeOK
<1>3. CASE \E u \in Users : TriggerGracePeriod(u, o)
  BY <1>0, <1>3 DEF TriggerGracePeriod, MayTriggerGrace, Graced, TypeOK
<1> QED
  BY <1>1, <1>2, <1>3

\* Every step writes no offer account, or one offer in one of the shapes
\* while the clock stands still.
LEMMA OfferSteps ==
    ASSUME DeckInv, [Next]_vars
    PROVE  \/ offer' = offer /\ (now' = now \/ now' = now + 1)
           \/ now' = now /\ \E o \in Offers : OnlyOffer(o) /\ Shape(o)
<1>1. CASE List
  <2>1. PICK o \in Offers :
            \/ CancelOffer(o)
            \/ \E x \in Requests, c \in CollateralAmounts, m \in Mints,
                  lm \in LiquidityMints, i \in Interests, d \in Durations,
                  p \in Prices : CreateOffer(o, x, c, m, lm, i, d, p)
    BY <1>1 DEF List
  <2>2. OnlyOffer(o) /\ Relisted(o)
    BY <2>1, CancelInv, CreateInv, CancelShape, CreateShape
  <2>3. now' = now
    BY <2>1 DEF CancelOffer, CreateOffer
  <2> QED
    BY <2>2, <2>3 DEF Shape
<1>2. CASE Fund
  <2>1. PICK f \in Users, o \in Offers : FundOffer(f, o)
    BY <1>2 DEF Fund
  <2>2. OnlyOffer(o) /\ Funded(o) /\ now' = now
    BY <2>1, FundInv, FundShape DEF FundOffer
  <2> QED
    BY <2>2 DEF Shape
<1>3. CASE Settle
  <2>1. PICK o \in Offers :
            \/ RepayOffer(o)
            \/ ClaimDefault(o)
            \/ \E u \in Users : TriggerGracePeriod(u, o)
    BY <1>3 DEF Settle
  <2>2. OnlyOffer(o)
    BY <2>1, RepayInv, ClaimInv, TriggerInv
  <2>3. now' = now
    BY <2>1 DEF RepayOffer, MayRepay, ClaimDefault, MayClaim, TriggerGracePeriod, MayTriggerGrace
  <2> QED
    BY <2>1, <2>2, <2>3, SettleShape DEF Shape
<1>4. CASE Gift
  BY <1>4 DEF Gift, Donate
<1>5. CASE Tick \/ UNCHANGED vars
  BY <1>5 DEF Tick, vars
<1> QED
  BY <1>1, <1>2, <1>3, <1>4, <1>5 DEF Next

-----------------------------------------------------------------------------
(* Funded offers. *)

\* The two fields a settling handler writes are not terms of the offer.
LEMMA TermsSurvive ==
    ASSUME NEW r \in P2POffer, NEW q, NEW s, NEW n,
           \/ q = [r EXCEPT !.status = s]
           \/ q = [r EXCEPT !.status = s, !.grace_period_expires = n]
    PROVE  Terms(q) = Terms(r) /\ q.status = s
BY DEF Terms, P2POffer

\* No step touches the parties or the terms of a funded offer.
LEMMA StepKeepsTerms ==
    ASSUME DeckInv, [Next]_vars, NEW k \in Offers
    PROVE  TermsKept(k)
<1>1. CASE offer'[k] = offer[k]
  BY <1>1 DEF TermsKept, Taken
<1>2. CASE Shape(k)
  <2>0. offer[k] \in P2POffer
    BY OfferFields
  <2>1. CASE Relisted(k) \/ Funded(k)
    BY <2>1 DEF Relisted, Funded, TermsKept, Taken, Settled
  <2>2. CASE Graced(k)
    <3> DEFINE g == now + GracePeriod
    <3>1. offer'[k] = [offer[k] EXCEPT !.status = "InGracePeriod",
                                       !.grace_period_expires = g]
      BY <2>2 DEF Graced
    <3> HIDE DEF g
    <3>2. /\ Terms(offer'[k]) = Terms(offer[k])
          /\ offer'[k].status = "InGracePeriod"
      BY <2>0, <3>1, TermsSurvive
    <3> QED
      BY <2>2, <3>2 DEF Graced, TermsKept, Taken, Settled
  <2>3. CASE Closed(k)
    <3>1. PICK s \in {"Repaid", "Defaulted"} :
              offer'[k] = [offer[k] EXCEPT !.status = s]
      BY <2>3 DEF Closed
    <3>2. Terms(offer'[k]) = Terms(offer[k]) /\ offer'[k].status = s
      BY <2>0, <3>1, TermsSurvive
    <3> QED
      BY <2>3, <3>2 DEF Closed, TermsKept, Taken, Settled
  <2> QED
    BY <1>2, <2>1, <2>2, <2>3 DEF Shape
<1> QED
  BY <1>1, <1>2, OfferSteps DEF OnlyOffer

\* Once funded, an offer's parties and terms never change and it never
\* becomes unfunded again; repaid and defaulted offers are never written.
THEOREM FundedTermsFrozen == Spec => TermsFrozen
<1>1. DeckInv /\ [Next]_vars => \A o \in Offers : TermsKept(o)
  BY StepKeepsTerms
<1>2. DeckInv /\ [Next]_vars => [\A o \in Offers : TermsKept(o)]_vars
  BY <1>1
<1> QED
  BY <1>2, DeckInvariant, PTL DEF Spec, TermsFrozen

-----------------------------------------------------------------------------
(* Who is paid out of an escrow. *)

\* Collateral paid out of an escrow raises the payee's balance by the amount.
LEMMA WalletGains ==
    ASSUME NEW b \in [Mints -> [Users -> Nat]], NEW m \in Mints,
           NEW t \in Users, NEW x \in Nat
    PROVE  [b EXCEPT ![m][t] = @ + x][m][t] - b[m][t] = x
<1>1. b[m] \in [Users -> Nat]
  OBVIOUS
<1>2. [b EXCEPT ![m][t] = @ + x][m][t] = b[m][t] + x
  BY <1>1
<1> QED
  BY <1>1, <1>2

\* So does a transfer from another wallet.
LEMMA PayGains ==
    ASSUME NEW b \in [LiquidityMints -> [Users -> Nat]],
           NEW m \in LiquidityMints, NEW f \in Users, NEW t \in Users, f # t,
           NEW x \in Nat, NEW c, c = Pay(b, m, f, t, x)
    PROVE  c[m][t] - b[m][t] = x
<1>1. b[m] \in [Users -> Nat]
  OBVIOUS
<1>2. c[m][t] = b[m][t] + x
  BY <1>1 DEF Pay
<1> QED
  BY <1>1, <1>2

\* process_cancel_p2p_offer: the whole escrow goes to the creator.
LEMMA CancelPays ==
    ASSUME DeckInv, NEW o \in Offers, CancelOffer(o), escrow'[o] < escrow[o]
    PROVE  EscrowRelease(o)
<1> DEFINE m == offer[o].collateral_mint
           u == Creator(o)
           x == escrow[o]
<1>1. m \in Mints /\ u \in Users /\ x \in Nat /\ TypeOK
  BY OfferFields DEF DeckInv
<1>2. coll' = [coll EXCEPT ![m][u] = @ + x] /\ escrow'[o] = 0
  BY <1>1 DEF CancelOffer, TypeOK
<1>3. coll[m] \in [Users -> Nat]
  BY <1>1 DEF TypeOK
<1>4. coll'[m][u] - coll[m][u] = x
  BY <1>1, <1>2, <1>3 DEF TypeOK
<1>5. x = escrow[o] - escrow'[o]
  BY <1>1, <1>2
<1> QED
  BY <1>4, <1>5 DEF EscrowRelease, CancelOffer

\* process_repay_loan: the collateral for the creator, principal and interest
\* for the funder, in one instruction.
LEMMA RepayPays ==
    ASSUME DeckInv, NEW o \in Offers, RepayOffer(o)
    PROVE  EscrowRelease(o)
<1> DEFINE m == offer[o].collateral_mint
           lm == offer[o].liquidity_mint
           u == Creator(o)
           f == offer[o].funder
           x == offer[o].collateral_amount
           d == TotalDue(o)
<1>0. Taken(o) /\ offer[o].status # "None"
  BY DEF RepayOffer, MayRepay, Taken
<1>1. /\ m \in Mints /\ lm \in LiquidityMints /\ u \in Users /\ f \in Users
      /\ f # u /\ TypeOK /\ offer[o] \in P2POffer /\ escrow[o] \in Nat
  BY <1>0, OfferFields DEF DeckInv, FunderKnown
<1>2. x \in Nat /\ d \in Nat
  BY <1>1 DEF P2POffer, TotalDue
<1>3. /\ coll' = [coll EXCEPT ![m][u] = @ + x]
      /\ liq' = Pay(liq, lm, u, f, d)
      /\ escrow'[o] = escrow[o] - x
  BY <1>1 DEF RepayOffer, MayRepay, TypeOK
<1>4. liq \in [LiquidityMints -> [Users -> Nat]] /\ coll \in [Mints -> [Users -> Nat]]
  BY <1>1 DEF TypeOK
<1> HIDE DEF m, lm, u, f, x, d
<1>5. liq'[lm][f] - liq[lm][f] = d
  BY <1>1, <1>2, <1>3, <1>4, PayGains
<1>6. coll'[m][u] - coll[m][u] = x
  BY <1>1, <1>2, <1>3, <1>4, WalletGains
<1>7. escrow[o] - escrow'[o] = x
  BY <1>1, <1>2, <1>3
<1> QED
  BY <1>0, <1>5, <1>6, <1>7 DEF EscrowRelease, m, lm, u, f, x, d

\* process_claim_default: the collateral for the funder, a grace period after
\* the due time at the earliest.
LEMMA ClaimPays ==
    ASSUME DeckInv, NEW o \in Offers, ClaimDefault(o)
    PROVE  EscrowRelease(o)
<1> DEFINE m == offer[o].collateral_mint
           u == Creator(o)
           f == offer[o].funder
           x == offer[o].collateral_amount
<1>0. Taken(o) /\ offer[o].status = "InGracePeriod"
  BY DEF ClaimDefault, MayClaim, GraceIsOver, Taken
<1>1. /\ m \in Mints /\ u \in Users /\ f \in Users /\ f # u
      /\ TypeOK /\ offer[o] \in P2POffer /\ escrow[o] \in Nat /\ now \in Nat
  BY <1>0, OfferFields DEF DeckInv, FunderKnown
<1>2. /\ x \in Nat /\ offer[o].due_time \in Nat
      /\ offer[o].grace_period_expires \in Nat
  BY <1>1 DEF P2POffer
<1>3. coll' = [coll EXCEPT ![m][f] = @ + x] /\ escrow'[o] = escrow[o] - x
  BY <1>1 DEF ClaimDefault, MayClaim, TypeOK
<1>4. coll \in [Mints -> [Users -> Nat]]
  BY <1>1 DEF TypeOK
<1>5. now >= offer[o].due_time + GracePeriod
  BY <1>0, <1>1, <1>2, OfferFields, DeckParameterAssumption
     DEF ClaimDefault, MayClaim, GraceIsOver, FunderKnown
<1> HIDE DEF m, u, f, x
<1>6. coll'[m][f] - coll[m][f] = x
  BY <1>1, <1>2, <1>3, <1>4, WalletGains
<1>7. escrow[o] - escrow'[o] = x
  BY <1>1, <1>2, <1>3
<1> QED
  BY <1>0, <1>5, <1>6, <1>7 DEF EscrowRelease, m, f, x

\* An escrow shrinks only in the three handlers that pay out of it.
LEMMA StepPays ==
    ASSUME DeckInv, [Next]_vars, NEW k \in Offers, escrow'[k] < escrow[k]
    PROVE  EscrowRelease(k)
<1>0. TypeOK /\ escrow[k] \in Nat
  BY OfferFields DEF DeckInv
<1>1. CASE List
  <2>1. PICK o \in Offers :
            \/ CancelOffer(o)
            \/ \E x \in Requests, c \in CollateralAmounts, m \in Mints,
                  lm \in LiquidityMints, i \in Interests, d \in Durations,
                  p \in Prices : CreateOffer(o, x, c, m, lm, i, d, p)
    BY <1>1 DEF List
  <2>2. CASE CancelOffer(o)
    <3>1. o = k
      BY <1>0, <2>2, CancelInv DEF OnlyOffer
    <3> QED
      BY <2>2, <3>1, CancelPays
  <2>3. ASSUME NEW x \in Requests, NEW c \in CollateralAmounts, NEW m \in Mints,
               NEW lm \in LiquidityMints, NEW i \in Interests,
               NEW d \in Durations, NEW p \in Prices,
               CreateOffer(o, x, c, m, lm, i, d, p)
        PROVE  FALSE
    BY <1>0, <2>3, DeckInputAssumption DEF CreateOffer, TypeOK
  <2> QED
    BY <2>1, <2>2, <2>3
<1>2. CASE Settle
  <2>1. PICK o \in Offers :
            \/ RepayOffer(o)
            \/ ClaimDefault(o)
            \/ \E u \in Users : TriggerGracePeriod(u, o)
    BY <1>2 DEF Settle
  <2>2. RepayOffer(o) \/ ClaimDefault(o)
    BY <1>0, <2>1 DEF TriggerGracePeriod, MayTriggerGrace
  <2>3. o = k
    BY <1>0, <2>2, RepayInv, ClaimInv DEF OnlyOffer
  <2> QED
    BY <2>2, <2>3, RepayPays, ClaimPays
<1>3. CASE Gift
  BY <1>0, <1>3, DeckInputAssumption DEF Gift, Donate, TypeOK
<1>4. CASE Fund \/ Tick \/ UNCHANGED vars
  <2>1. escrow' = escrow
    BY <1>4 DEF Fund, FundOffer, Tick, vars
  <2> QED
    BY <1>0, <2>1
<1> QED
  BY <1>1, <1>2, <1>3, <1>4 DEF Next

\* Collateral leaves an escrow only to the creator of an unfunded offer, to a
\* creator who pays the funder in the same step, or to the funder after grace.
THEOREM EscrowPaysRight == Spec => EscrowPaysTheRightParty
<1>1. DeckInv /\ [Next]_vars =>
          [\A o \in Offers : escrow'[o] < escrow[o] => EscrowRelease(o)]_vars
  BY StepPays
<1> QED
  BY <1>1, DeckInvariant, PTL DEF Spec, EscrowPaysTheRightParty

-----------------------------------------------------------------------------
(* The deck implements the pawn promise. *)

\* An empty deck holds no pawns.
LEMMA PawnStart == Init => Pawn!PawnInit
BY DEF Init, NoOffer, Pawn!PawnInit, PawnState

\* Every deck step is a step of the promise or invisible to it.
LEMMA PawnStep ==
    ASSUME DeckInv, [Next]_vars
    PROVE  [Pawn!PawnNext]_(Pawn!pawnVars)
<1> DEFINE st == [o \in Offers |-> PawnState(offer[o].status)]
           due == [o \in Offers |-> offer[o].due_time]
<1>1. CASE offer' = offer /\ now' = now
  BY <1>1 DEF Pawn!pawnVars
<1>2. CASE offer' = offer /\ now' = now + 1
  BY <1>2 DEF Pawn!PawnNext, Pawn!Pass
<1>3. ASSUME NEW k \in Offers, now' = now, OnlyOffer(k), Shape(k)
      PROVE  [Pawn!PawnNext]_(Pawn!pawnVars)
  <2>0. offer[k] \in P2POffer /\ now \in Nat
    BY OfferFields
  <2>1. st' = [st EXCEPT ![k] = PawnState(offer'[k].status)]
    BY <1>3 DEF OnlyOffer
  <2>2. due' = [due EXCEPT ![k] = offer'[k].due_time]
    BY <1>3 DEF OnlyOffer
  <2>3. CASE Relisted(k)
    <3>1. PawnState(offer[k].status) = "idle" /\ PawnState(offer'[k].status) = "idle"
      BY <2>3 DEF Relisted, PawnState
    <3>2. st' = st /\ due' = due
      BY <2>1, <2>2, <2>3, <3>1 DEF Relisted
    <3> QED
      BY <1>3, <3>2 DEF Pawn!pawnVars
  <2>4. CASE Funded(k)
    <3>1. st[k] = "idle" /\ PawnState(offer'[k].status) = "open"
      BY <2>4 DEF Funded, PawnState
    <3>2. Pawn!Open(k)
      BY <1>3, <2>1, <2>2, <2>4, <3>1 DEF Pawn!Open, Funded
    <3> QED
      BY <3>2 DEF Pawn!PawnNext
  <2>5. CASE Graced(k)
    <3>1. /\ offer'[k].status = "InGracePeriod"
          /\ offer'[k].due_time = offer[k].due_time
      BY <2>0, <2>5 DEF Graced, P2POffer
    <3>2. PawnState(offer[k].status) = "open" /\ PawnState(offer'[k].status) = "open"
      BY <2>5, <3>1 DEF Graced, PawnState
    <3>3. st' = st /\ due' = due
      BY <2>1, <2>2, <3>1, <3>2
    <3> QED
      BY <1>3, <3>3 DEF Pawn!pawnVars
  <2>6. CASE Closed(k)
    <3>1. st[k] = "open"
      BY <2>6 DEF Closed, Taken, PawnState
    <3>2. CASE offer'[k] = [offer[k] EXCEPT !.status = "Repaid"]
      <4>1. offer'[k].status = "Repaid" /\ offer'[k].due_time = offer[k].due_time
        BY <2>0, <3>2 DEF P2POffer
      <4>2. due' = due /\ PawnState(offer'[k].status) = "returned"
        BY <2>2, <4>1 DEF PawnState
      <4>3. Pawn!Return(k)
        BY <1>3, <2>1, <3>1, <4>2 DEF Pawn!Return
      <4> QED
        BY <4>3 DEF Pawn!PawnNext
    <3>3. CASE /\ offer'[k] = [offer[k] EXCEPT !.status = "Defaulted"]
               /\ GraceIsOver(k)
      <4>1. offer'[k].status = "Defaulted" /\ offer'[k].due_time = offer[k].due_time
        BY <2>0, <3>3 DEF P2POffer
      <4>2. due' = due /\ PawnState(offer'[k].status) = "seized"
        BY <2>2, <4>1 DEF PawnState
      <4>3. offer[k].due_time \in Nat /\ offer[k].grace_period_expires \in Nat
        BY <2>0 DEF P2POffer
      <4>4. now >= due[k] + GracePeriod
        BY <2>0, <3>3, <4>3, OfferFields, DeckParameterAssumption
           DEF GraceIsOver, FunderKnown
      <4>5. Pawn!Seize(k)
        BY <1>3, <2>1, <3>1, <4>2, <4>4 DEF Pawn!Seize
      <4> QED
        BY <4>5 DEF Pawn!PawnNext
    <3> QED
      BY <2>6, <3>2, <3>3 DEF Closed
  <2> QED
    BY <1>3, <2>3, <2>4, <2>5, <2>6 DEF Shape
<1> QED
  BY <1>1, <1>2, <1>3, OfferSteps

\* The deck implements PawnPromise: a funded offer's collateral goes out once,
\* to the creator, or to the funder no earlier than due_time + GracePeriod.
THEOREM DeckRefinesPawn == Spec => KeepsPawnPromise
<1>1. Init => Pawn!PawnInit
  BY PawnStart
<1>2. DeckInv /\ [Next]_vars => [Pawn!PawnNext]_(Pawn!pawnVars)
  BY PawnStep
<1> QED
  BY <1>1, <1>2, DeckInvariant, PTL DEF Spec, KeepsPawnPromise, Pawn!PawnSpec

-----------------------------------------------------------------------------
(* Every wallet is explained by the offers as they stand. *)

\* A balance is where it started, plus what came in and less what went out,
\* summed over the offers (UnitSums).
Balanced(start, balance, in, out) ==
    /\ IsFiniteSet(Units(Offers, in)) /\ IsFiniteSet(Units(Offers, out))
    /\ balance + Cardinality(Units(Offers, out))
           = start + Cardinality(Units(Offers, in))

MoneyInv ==
    /\ DeckInv
    /\ \A m \in LiquidityMints, u \in Users :
          Balanced(InitialLiquidity[m][u], liq[m][u], MoneyIn(m, u), MoneyOut(m, u))

\* Nobody's gift: an escrow holds what its offer recorded and nothing more.
NoDust ==
    \A o \in Offers :
        offer[o].status = "Open" \/ Taken(o) => escrow[o] = offer[o].collateral_amount

CollateralInv ==
    /\ DeckInv /\ NoDust
    /\ \A m \in Mints, u \in Users :
          Balanced(InitialCollateral[m][u], coll[m][u],
                   CollateralIn(m, u), CollateralOut(m, u))

\* What an offer has moved is a natural number.
LEMMA MovesType ==
    ASSUME TypeOK, NEW m, NEW u
    PROVE  /\ MoneyIn(m, u) \in [Offers -> Nat]
           /\ MoneyOut(m, u) \in [Offers -> Nat]
           /\ CollateralIn(m, u) \in [Offers -> Nat]
           /\ CollateralOut(m, u) \in [Offers -> Nat]
BY DEF TypeOK, P2POffer, MoneyIn, MoneyOut, CollateralIn, CollateralOut

\* A balance goes from b to c as offer o, and no other, moves more or less
\* than before.
Moves(o, b, c, i, e, in, out) ==
    /\ \A k \in Offers : k # o => in[k] = i[k] /\ out[k] = e[k]
    /\ c + out[o] + i[o] = b + e[o] + in[o]

\* Then a balance that was explained by the offers still is.
LEMMA OneOfferBalances ==
    ASSUME NEW i \in [Offers -> Nat], NEW e \in [Offers -> Nat],
           NEW in \in [Offers -> Nat], NEW out \in [Offers -> Nat],
           NEW start \in Nat, NEW b \in Nat, NEW c \in Nat, NEW o \in Offers,
           Balanced(start, b, i, e), Moves(o, b, c, i, e, in, out)
    PROVE  Balanced(start, c, in, out)
<1>1. /\ IsFiniteSet(Units(Offers, in))
      /\ Cardinality(Units(Offers, in)) = Cardinality(Units(Offers, i)) - i[o] + in[o]
      /\ Cardinality(Units(Offers, i)) \in Nat
  BY UnitsChange DEF Balanced, Moves
<1>2. /\ IsFiniteSet(Units(Offers, out))
      /\ Cardinality(Units(Offers, out)) = Cardinality(Units(Offers, e)) - e[o] + out[o]
      /\ Cardinality(Units(Offers, e)) \in Nat
  BY UnitsChange DEF Balanced, Moves
<1>3. i[o] \in Nat /\ e[o] \in Nat /\ in[o] \in Nat /\ out[o] \in Nat
  OBVIOUS
<1>4. b + Cardinality(Units(Offers, e)) = start + Cardinality(Units(Offers, i))
  BY DEF Balanced
<1> DEFINE x == Cardinality(Units(Offers, i))
           y == Cardinality(Units(Offers, e))
<1>5. x \in Nat /\ y \in Nat /\ b + y = start + x
  BY <1>1, <1>2, <1>4
<1> HIDE DEF x, y
<1>6. c + (y - e[o] + out[o]) = start + (x - i[o] + in[o])
  <2> DEFINE p == i[o]
             q == e[o]
             r == in[o]
             s == out[o]
  <2>1. p \in Nat /\ q \in Nat /\ r \in Nat /\ s \in Nat /\ c + s + p = b + q + r
    BY <1>3 DEF Moves
  <2> HIDE DEF p, q, r, s
  <2>2. c + (y - q + s) = start + (x - p + r)
    BY <1>5, <2>1
  <2> QED BY <2>2 DEF p, q, r, s
<1>7. c + Cardinality(Units(Offers, out)) = start + Cardinality(Units(Offers, in))
  BY <1>1, <1>2, <1>6 DEF x, y
<1> QED BY <1>1, <1>2, <1>7 DEF Balanced

\* An offer that is not written has moved nothing more.
LEMMA OthersMoveNothing ==
    ASSUME NEW o \in Offers, OnlyOffer(o), NEW m, NEW u, NEW k \in Offers, k # o
    PROVE  /\ MoneyIn(m, u)'[k] = MoneyIn(m, u)[k]
           /\ MoneyOut(m, u)'[k] = MoneyOut(m, u)[k]
           /\ CollateralIn(m, u)'[k] = CollateralIn(m, u)[k]
           /\ CollateralOut(m, u)'[k] = CollateralOut(m, u)[k]
BY DEF OnlyOffer, MoneyIn, MoneyOut, CollateralIn, CollateralOut, Taken

\* So the wallets stay explained when each changes by what offer o moves.
LEMMA MoneyFollows ==
    ASSUME MoneyInv, DeckInv', NEW o \in Offers, OnlyOffer(o),
           \A m \in LiquidityMints, u \in Users :
               liq'[m][u] + MoneyOut(m, u)'[o] + MoneyIn(m, u)[o]
                   = liq[m][u] + MoneyOut(m, u)[o] + MoneyIn(m, u)'[o]
    PROVE  MoneyInv'
<1> SUFFICES ASSUME NEW m \in LiquidityMints, NEW u \in Users
             PROVE  Balanced(InitialLiquidity[m][u], liq[m][u],
                             MoneyIn(m, u), MoneyOut(m, u))'
  BY DEF MoneyInv
<1>1. TypeOK /\ TypeOK'
  BY DEF MoneyInv, DeckInv
<1> DEFINE start == InitialLiquidity[m][u]
           b == liq[m][u]
           c == liq'[m][u]
           i == MoneyIn(m, u)
           e == MoneyOut(m, u)
           in == MoneyIn(m, u)'
           out == MoneyOut(m, u)'
<1>2. start \in Nat /\ b \in Nat /\ c \in Nat
  BY <1>1, DeckInputAssumption DEF TypeOK
<1>3. i \in [Offers -> Nat] /\ e \in [Offers -> Nat]
  BY <1>1, MovesType
<1>4. in \in [Offers -> Nat] /\ out \in [Offers -> Nat]
  BY <1>1 DEF TypeOK, P2POffer, MoneyIn, MoneyOut
<1>5. Balanced(start, b, i, e)
  BY DEF MoneyInv
<1>6. Moves(o, b, c, i, e, in, out)
  BY OthersMoveNothing DEF Moves
<1> HIDE DEF start, b, c, i, e, in, out
<1>7. Balanced(start, c, in, out)
  BY <1>2, <1>3, <1>4, <1>5, <1>6, OneOfferBalances
<1> QED BY <1>7 DEF start, c, in, out, Balanced

LEMMA CollateralFollows ==
    ASSUME CollateralInv, DeckInv', NoDust', NEW o \in Offers, OnlyOffer(o),
           \A m \in Mints, u \in Users :
               coll'[m][u] + CollateralOut(m, u)'[o] + CollateralIn(m, u)[o]
                   = coll[m][u] + CollateralOut(m, u)[o] + CollateralIn(m, u)'[o]
    PROVE  CollateralInv'
<1> SUFFICES ASSUME NEW m \in Mints, NEW u \in Users
             PROVE  Balanced(InitialCollateral[m][u], coll[m][u],
                             CollateralIn(m, u), CollateralOut(m, u))'
  BY DEF CollateralInv
<1>1. TypeOK /\ TypeOK'
  BY DEF CollateralInv, DeckInv
<1> DEFINE start == InitialCollateral[m][u]
           b == coll[m][u]
           c == coll'[m][u]
           i == CollateralIn(m, u)
           e == CollateralOut(m, u)
           in == CollateralIn(m, u)'
           out == CollateralOut(m, u)'
<1>2. start \in Nat /\ b \in Nat /\ c \in Nat
  BY <1>1, DeckInputAssumption DEF TypeOK
<1>3. i \in [Offers -> Nat] /\ e \in [Offers -> Nat]
  BY <1>1, MovesType
<1>4. in \in [Offers -> Nat] /\ out \in [Offers -> Nat]
  BY <1>1 DEF TypeOK, P2POffer, CollateralIn, CollateralOut
<1>5. Balanced(start, b, i, e)
  BY DEF CollateralInv
<1>6. Moves(o, b, c, i, e, in, out)
  BY OthersMoveNothing DEF Moves
<1> HIDE DEF start, b, c, i, e, in, out
<1>7. Balanced(start, c, in, out)
  BY <1>2, <1>3, <1>4, <1>5, <1>6, OneOfferBalances
<1> QED BY <1>7 DEF start, c, in, out, Balanced

\* A transfer moves its amount from one wallet to another and nothing else.
LEMMA PayMoves ==
    ASSUME NEW b \in [LiquidityMints -> [Users -> Nat]], NEW lm \in LiquidityMints,
           NEW f \in Users, NEW t \in Users, f # t, NEW x \in Nat,
           NEW c, c = Pay(b, lm, f, t, x)
    PROVE  \A m \in LiquidityMints, u \in Users :
               c[m][u] = IF m = lm /\ u = f THEN b[m][u] - x
                         ELSE IF m = lm /\ u = t THEN b[m][u] + x ELSE b[m][u]
<1>1. b[lm] \in [Users -> Nat]
  OBVIOUS
<1> QED BY <1>1 DEF Pay

\* What an offer has moved depends on its status alone.
LEMMA MoneyOfOffer ==
    ASSUME NEW o \in Offers, NEW m, NEW u
    PROVE  /\ offer[o].liquidity_mint # m \/ offer[o].status \in {"None", "Open"}
                 => MoneyIn(m, u)[o] = 0 /\ MoneyOut(m, u)[o] = 0
           /\ offer[o].liquidity_mint = m /\ (Taken(o) \/ offer[o].status = "Defaulted")
                 => /\ MoneyIn(m, u)[o] = IF u = Creator(o) THEN offer[o].requested_amount
                                          ELSE 0
                    /\ MoneyOut(m, u)[o] = IF u = offer[o].funder
                                           THEN offer[o].requested_amount ELSE 0
           /\ offer[o].liquidity_mint = m /\ offer[o].status = "Repaid"
                 => /\ MoneyIn(m, u)[o] = IF u = offer[o].funder
                                          THEN offer[o].interest_offered ELSE 0
                    /\ MoneyOut(m, u)[o] = IF u = Creator(o)
                                           THEN offer[o].interest_offered ELSE 0
BY DEF MoneyIn, MoneyOut, Taken
LEMMA MoneyOfOfferNext ==
    ASSUME NEW o \in Offers, NEW m, NEW u
    PROVE  /\ offer'[o].liquidity_mint # m \/ offer'[o].status \in {"None", "Open"}
                 => MoneyIn(m, u)'[o] = 0 /\ MoneyOut(m, u)'[o] = 0
           /\ offer'[o].liquidity_mint = m
                 /\ offer'[o].status \in {"Funded", "InGracePeriod", "Defaulted"}
                 => /\ MoneyIn(m, u)'[o] = IF u = Creator(o)
                                           THEN offer'[o].requested_amount ELSE 0
                    /\ MoneyOut(m, u)'[o] = IF u = offer'[o].funder
                                            THEN offer'[o].requested_amount ELSE 0
           /\ offer'[o].liquidity_mint = m /\ offer'[o].status = "Repaid"
                 => /\ MoneyIn(m, u)'[o] = IF u = offer'[o].funder
                                           THEN offer'[o].interest_offered ELSE 0
                    /\ MoneyOut(m, u)'[o] = IF u = Creator(o)
                                            THEN offer'[o].interest_offered ELSE 0
BY DEF MoneyIn, MoneyOut, Taken, Creator

\* Handlers that leave the liquidity mints alone leave what the offer has
\* moved alone too: it was and stays unfunded, or it was and stays paid out.
LEMMA QuietMoney ==
    ASSUME MoneyInv, DeckInv', NEW o \in Offers, OnlyOffer(o), liq' = liq,
           \/ offer'[o] = offer[o]
           \/ {offer[o].status, offer'[o].status} \subseteq {"None", "Open"}
           \/ /\ Taken(o) /\ offer'[o].status \in {"InGracePeriod", "Defaulted"}
              /\ offer'[o].funder = offer[o].funder
              /\ offer'[o].liquidity_mint = offer[o].liquidity_mint
              /\ offer'[o].requested_amount = offer[o].requested_amount
    PROVE  MoneyInv'
<1>1. ASSUME NEW m \in LiquidityMints, NEW u \in Users
      PROVE  MoneyIn(m, u)'[o] = MoneyIn(m, u)[o] /\ MoneyOut(m, u)'[o] = MoneyOut(m, u)[o]
  <2>1. CASE offer'[o] = offer[o]
    BY <2>1 DEF MoneyIn, MoneyOut, Taken
  <2>2. CASE offer'[o] # offer[o]
    BY <2>2, MoneyOfOffer, MoneyOfOfferNext
  <2> QED BY <2>1, <2>2
<1>2. TypeOK /\ TypeOK'
  BY DEF MoneyInv, DeckInv
<1>3. ASSUME NEW m \in LiquidityMints, NEW u \in Users
      PROVE  liq'[m][u] + MoneyOut(m, u)'[o] + MoneyIn(m, u)[o]
                 = liq[m][u] + MoneyOut(m, u)[o] + MoneyIn(m, u)'[o]
  <2>1. MoneyIn(m, u)[o] \in Nat /\ MoneyOut(m, u)[o] \in Nat /\ liq[m][u] \in Nat
    BY <1>2, MovesType DEF TypeOK
  <2> QED BY <1>1, <2>1
<1> QED BY <1>3, MoneyFollows

LEMMA CreateMoney ==
    ASSUME MoneyInv, NEW o \in Offers, NEW x \in Requests,
           NEW c \in CollateralAmounts, NEW m \in Mints, NEW lm \in LiquidityMints,
           NEW i \in Interests, NEW d \in Durations, NEW p \in Prices,
           CreateOffer(o, x, c, m, lm, i, d, p)
    PROVE  MoneyInv'
<1>0. DeckInv
  BY DEF MoneyInv
<1>1. DeckInv' /\ OnlyOffer(o)
  BY <1>0, CreateInv
<1>2. offer[o].status = "None" /\ offer'[o].status = "Open" /\ liq' = liq
  BY <1>0 DEF CreateOffer, IdIsFree, DeckInv, TypeOK
<1> QED BY <1>1, <1>2, QuietMoney

LEMMA CancelMoney ==
    ASSUME MoneyInv, NEW o \in Offers, CancelOffer(o)
    PROVE  MoneyInv'
<1>0. DeckInv
  BY DEF MoneyInv
<1>1. DeckInv' /\ OnlyOffer(o)
  BY <1>0, CancelInv
<1>2. offer[o].status = "Open" /\ offer'[o] = NoOffer /\ liq' = liq
  BY <1>0 DEF CancelOffer, DeckInv, TypeOK
<1>3. offer'[o].status = "None"
  BY <1>2 DEF NoOffer
<1> QED BY <1>1, <1>2, <1>3, QuietMoney

\* The funder's principal goes to the creator.
LEMMA FundMoney ==
    ASSUME MoneyInv, NEW f \in Users, NEW o \in Offers, FundOffer(f, o)
    PROVE  MoneyInv'
<1> DEFINE po == offer[o]
           lm == po.liquidity_mint
           t == Creator(o)
           x == po.requested_amount
<1>0. DeckInv
  BY DEF MoneyInv
<1>1. DeckInv' /\ OnlyOffer(o)
  BY <1>0, FundInv
<1>2. /\ po.status = "Open" /\ f # t /\ t \in Users /\ po \in P2POffer
      /\ lm \in LiquidityMints /\ x \in Nat
  BY <1>0, OfferFields DEF FundOffer, Fundable, P2POffer
<1>3. offer'[o] = [po EXCEPT !.funder = f, !.due_time = now + po.duration,
                             !.status = "Funded"]
  BY <1>0 DEF FundOffer, DeckInv, TypeOK
<1>4. /\ offer'[o].status = "Funded" /\ offer'[o].funder = f
      /\ offer'[o].liquidity_mint = lm /\ offer'[o].requested_amount = x
  BY <1>2, <1>3 DEF P2POffer
<1>5. liq' = Pay(liq, lm, f, t, x)
  BY DEF FundOffer
<1>6. liq \in [LiquidityMints -> [Users -> Nat]]
  BY <1>0 DEF DeckInv, TypeOK
<1>7. ASSUME NEW m \in LiquidityMints, NEW u \in Users
      PROVE  liq'[m][u] + MoneyOut(m, u)'[o] + MoneyIn(m, u)[o]
                 = liq[m][u] + MoneyOut(m, u)[o] + MoneyIn(m, u)'[o]
  <2>1. MoneyIn(m, u)[o] = 0 /\ MoneyOut(m, u)[o] = 0
    BY <1>2, MoneyOfOffer
  <2>2. /\ m # lm => MoneyIn(m, u)'[o] = 0 /\ MoneyOut(m, u)'[o] = 0
        /\ m = lm => /\ MoneyIn(m, u)'[o] = IF u = t THEN x ELSE 0
                     /\ MoneyOut(m, u)'[o] = IF u = f THEN x ELSE 0
    BY <1>4, MoneyOfOfferNext
  <2>3. liq[m][u] \in Nat
    BY <1>6
  <2> HIDE DEF po, lm, t, x
  <2>4. liq'[m][u] = IF m = lm /\ u = f THEN liq[m][u] - x
                     ELSE IF m = lm /\ u = t THEN liq[m][u] + x ELSE liq[m][u]
    <3>1. f # t /\ f \in Users /\ t \in Users /\ lm \in LiquidityMints /\ x \in Nat
      BY <1>2
    <3>2. liq[lm] \in [Users -> Nat]
      BY <1>6, <3>1
    <3> QED BY <1>5, <1>6, <3>1, <3>2 DEF Pay
  <2>5. CASE m = lm /\ u = t
    BY <1>2, <2>1, <2>2, <2>3, <2>4, <2>5
  <2>6. CASE m = lm /\ u = f
    BY <1>2, <2>1, <2>2, <2>3, <2>4, <2>6
  <2>7. CASE m # lm \/ u \notin {f, t}
    BY <2>1, <2>2, <2>3, <2>4, <2>7
  <2> QED BY <2>5, <2>6, <2>7
<1> QED BY <1>1, <1>7, MoneyFollows

\* Principal and interest go back to the funder.
LEMMA RepayMoney ==
    ASSUME MoneyInv, NEW o \in Offers, RepayOffer(o)
    PROVE  MoneyInv'
<1> DEFINE po == offer[o]
           lm == po.liquidity_mint
           t == Creator(o)
           f == po.funder
           x == po.requested_amount
           i == po.interest_offered
           d == TotalDue(o)
<1>0. DeckInv
  BY DEF MoneyInv
<1>1. DeckInv' /\ OnlyOffer(o)
  BY <1>0, RepayInv
<1>2. Taken(o) /\ po.status # "None"
  BY DEF RepayOffer, MayRepay, Taken
<1>3. /\ f # t /\ f \in Users /\ t \in Users /\ po \in P2POffer
      /\ lm \in LiquidityMints /\ x \in Nat /\ i \in Nat
  BY <1>0, <1>2, OfferFields DEF FunderKnown, P2POffer
<1>4. offer'[o] = [po EXCEPT !.status = "Repaid"]
  BY <1>0 DEF RepayOffer, MayRepay, DeckInv, TypeOK
<1>5. /\ offer'[o].status = "Repaid" /\ offer'[o].funder = f
      /\ offer'[o].liquidity_mint = lm /\ offer'[o].interest_offered = i
  BY <1>3, <1>4 DEF P2POffer
<1>6. liq' = Pay(liq, lm, t, f, d) /\ d = x + i
  BY DEF RepayOffer, MayRepay, TotalDue
<1>7. liq \in [LiquidityMints -> [Users -> Nat]]
  BY <1>0 DEF DeckInv, TypeOK
<1>8. ASSUME NEW m \in LiquidityMints, NEW u \in Users
      PROVE  liq'[m][u] + MoneyOut(m, u)'[o] + MoneyIn(m, u)[o]
                 = liq[m][u] + MoneyOut(m, u)[o] + MoneyIn(m, u)'[o]
  <2>1. /\ m # lm => MoneyIn(m, u)[o] = 0 /\ MoneyOut(m, u)[o] = 0
        /\ m = lm => /\ MoneyIn(m, u)[o] = IF u = t THEN x ELSE 0
                     /\ MoneyOut(m, u)[o] = IF u = f THEN x ELSE 0
    BY <1>2, MoneyOfOffer
  <2>2. /\ m # lm => MoneyIn(m, u)'[o] = 0 /\ MoneyOut(m, u)'[o] = 0
        /\ m = lm => /\ MoneyIn(m, u)'[o] = IF u = f THEN i ELSE 0
                     /\ MoneyOut(m, u)'[o] = IF u = t THEN i ELSE 0
    BY <1>5, MoneyOfOfferNext
  <2>3. liq[m][u] \in Nat /\ d \in Nat
    BY <1>3, <1>6, <1>7
  <2> HIDE DEF po, lm, t, f, x, i, d
  <2>4. liq'[m][u] = IF m = lm /\ u = t THEN liq[m][u] - d
                     ELSE IF m = lm /\ u = f THEN liq[m][u] + d ELSE liq[m][u]
    BY <1>3, <1>6, <1>7, <2>3, PayMoves
  <2>5. CASE m = lm /\ u = t
    BY <1>3, <1>6, <2>1, <2>2, <2>3, <2>4, <2>5
  <2>6. CASE m = lm /\ u = f
    BY <1>3, <1>6, <2>1, <2>2, <2>3, <2>4, <2>6
  <2>7. CASE m # lm \/ u \notin {f, t}
    BY <2>1, <2>2, <2>3, <2>4, <2>7
  <2> QED BY <2>5, <2>6, <2>7
<1> QED BY <1>1, <1>8, MoneyFollows

\* Grace and its end move no money.
LEMMA TriggerMoney ==
    ASSUME MoneyInv, NEW u \in Users, NEW o \in Offers, TriggerGracePeriod(u, o)
    PROVE  MoneyInv'
<1>0. DeckInv
  BY DEF MoneyInv
<1>1. DeckInv' /\ OnlyOffer(o)
  BY <1>0, TriggerInv
<1>2. /\ liq' = liq /\ Taken(o) /\ offer[o] \in P2POffer
      /\ offer'[o] = [offer[o] EXCEPT !.status = "InGracePeriod",
                                      !.grace_period_expires = now + GracePeriod]
  BY <1>0, OfferFields DEF TriggerGracePeriod, MayTriggerGrace, Taken, DeckInv, TypeOK
<1>3. /\ offer'[o].status = "InGracePeriod" /\ offer'[o].funder = offer[o].funder
      /\ offer'[o].liquidity_mint = offer[o].liquidity_mint
      /\ offer'[o].requested_amount = offer[o].requested_amount
  BY <1>2 DEF P2POffer
<1> QED BY <1>1, <1>2, <1>3, QuietMoney

LEMMA ClaimMoney ==
    ASSUME MoneyInv, NEW o \in Offers, ClaimDefault(o)
    PROVE  MoneyInv'
<1>0. DeckInv
  BY DEF MoneyInv
<1>1. DeckInv' /\ OnlyOffer(o)
  BY <1>0, ClaimInv
<1>2. /\ liq' = liq /\ Taken(o) /\ offer[o] \in P2POffer
      /\ offer'[o] = [offer[o] EXCEPT !.status = "Defaulted"]
  BY <1>0, OfferFields DEF ClaimDefault, MayClaim, GraceIsOver, Taken, DeckInv, TypeOK
<1>3. /\ offer'[o].status = "Defaulted" /\ offer'[o].funder = offer[o].funder
      /\ offer'[o].liquidity_mint = offer[o].liquidity_mint
      /\ offer'[o].requested_amount = offer[o].requested_amount
  BY <1>2 DEF P2POffer
<1> QED BY <1>1, <1>2, <1>3, QuietMoney

LEMMA MoneyInit == Init => MoneyInv
<1> SUFFICES ASSUME Init, NEW m \in LiquidityMints, NEW u \in Users
             PROVE  Balanced(InitialLiquidity[m][u], liq[m][u],
                             MoneyIn(m, u), MoneyOut(m, u))
  BY DeckInit DEF MoneyInv
<1>1. TypeOK
  BY DeckInit DEF DeckInv
<1>2. \A o \in Offers : MoneyIn(m, u)[o] = 0 /\ MoneyOut(m, u)[o] = 0
  BY MoneyOfOffer DEF Init, NoOffer
<1>3. /\ IsFiniteSet(Units(Offers, MoneyIn(m, u)))
      /\ IsFiniteSet(Units(Offers, MoneyOut(m, u)))
      /\ Cardinality(Units(Offers, MoneyIn(m, u))) = 0
      /\ Cardinality(Units(Offers, MoneyOut(m, u))) = 0
  BY <1>1, <1>2, MovesType, NothingWeighs
<1> QED BY <1>3 DEF Balanced, Init

LEMMA MoneyNext == MoneyInv /\ [Next]_vars => MoneyInv'
<1> SUFFICES ASSUME MoneyInv, [Next]_vars PROVE MoneyInv'
  OBVIOUS
<1>1. CASE List
  BY <1>1, CreateMoney, CancelMoney DEF List
<1>2. CASE Fund
  BY <1>2, FundMoney DEF Fund
<1>3. CASE Settle
  BY <1>3, RepayMoney, ClaimMoney, TriggerMoney DEF Settle
<1>4. CASE Gift
  <2>1. PICK u \in Users, o \in Offers, x \in Donations : Donate(u, o, x)
    BY <1>4 DEF Gift
  <2>2. DeckInv' /\ OnlyOffer(o)
    BY <2>1, DonateInv DEF MoneyInv
  <2>3. liq' = liq /\ offer'[o] = offer[o]
    BY <2>1 DEF Donate
  <2> QED BY <2>2, <2>3, QuietMoney
<1>5. CASE Tick \/ UNCHANGED vars
  <2>1. DeckInv'
    BY <1>5, IdleInv DEF MoneyInv
  <2>2. offer' = offer /\ liq' = liq
    BY <1>5 DEF Tick, vars
  <2> QED
    BY <2>1, <2>2 DEF MoneyInv, Balanced, MoneyIn, MoneyOut, Taken
<1> QED BY <1>1, <1>2, <1>3, <1>4, <1>5 DEF Next

LEMMA MoneyExplained == MoneyInv => MoneyMatchesOffers
<1> SUFFICES ASSUME MoneyInv, NEW m \in LiquidityMints, NEW u \in Users
             PROVE  liq[m][u] + OverOffers(MoneyOut(m, u))
                        = InitialLiquidity[m][u] + OverOffers(MoneyIn(m, u))
  BY DEF MoneyMatchesOffers
<1>1. MoneyIn(m, u) \in [Offers -> Nat] /\ MoneyOut(m, u) \in [Offers -> Nat]
  BY MovesType DEF MoneyInv, DeckInv
<1>2. /\ OverOffers(MoneyIn(m, u)) = Cardinality(Units(Offers, MoneyIn(m, u)))
      /\ OverOffers(MoneyOut(m, u)) = Cardinality(Units(Offers, MoneyOut(m, u)))
  BY <1>1, UnitsByElement DEF OverOffers
<1> QED BY <1>2 DEF MoneyInv, Balanced

\* Every balance of the liquidity mints is explained by the offers as they
\* stand: principal and interest were moved once, whatever happened between.
THEOREM MoneyFollowsOffers == Spec => []MoneyMatchesOffers
<1>1. Init => MoneyInv
  BY MoneyInit
<1>2. MoneyInv /\ [Next]_vars => MoneyInv'
  BY MoneyNext
<1>3. MoneyInv => MoneyMatchesOffers
  BY MoneyExplained
<1> QED BY <1>1, <1>2, <1>3, PTL DEF Spec

-----------------------------------------------------------------------------
(* The same for the collateral, where escrows receive no gifts. *)

LEMMA CollateralOfOffer ==
    ASSUME NEW o \in Offers, NEW m, NEW u
    PROVE  /\ CollateralIn(m, u)[o]
                  = IF /\ offer[o].collateral_mint = m /\ u = offer[o].funder
                       /\ offer[o].status = "Defaulted"
                    THEN offer[o].collateral_amount ELSE 0
           /\ CollateralOut(m, u)[o]
                  = IF /\ offer[o].collateral_mint = m /\ u = Creator(o)
                       /\ offer[o].status \notin {"None", "Repaid"}
                    THEN offer[o].collateral_amount ELSE 0
BY DEF CollateralIn, CollateralOut
LEMMA CollateralOfOfferNext ==
    ASSUME NEW o \in Offers, NEW m, NEW u
    PROVE  /\ CollateralIn(m, u)'[o]
                  = IF /\ offer'[o].collateral_mint = m /\ u = offer'[o].funder
                       /\ offer'[o].status = "Defaulted"
                    THEN offer'[o].collateral_amount ELSE 0
           /\ CollateralOut(m, u)'[o]
                  = IF /\ offer'[o].collateral_mint = m /\ u = Creator(o)
                       /\ offer'[o].status \notin {"None", "Repaid"}
                    THEN offer'[o].collateral_amount ELSE 0
BY DEF CollateralIn, CollateralOut, Creator

\* Collateral arrives in one wallet, or leaves one, and no other changes.
LEMMA WalletMoves ==
    ASSUME NEW b \in [Mints -> [Users -> Nat]], NEW m \in Mints,
           NEW t \in Users, NEW x \in Nat, NEW n \in Mints, NEW u \in Users
    PROVE  /\ [b EXCEPT ![m][t] = @ + x][n][u]
                  = IF n = m /\ u = t THEN b[n][u] + x ELSE b[n][u]
           /\ [b EXCEPT ![m][t] = @ - x][n][u]
                  = IF n = m /\ u = t THEN b[n][u] - x ELSE b[n][u]
<1>1. b[m] \in [Users -> Nat] /\ b[n] \in [Users -> Nat]
  OBVIOUS
<1> QED BY <1>1

\* Only the written offer's escrow has to be looked at.
LEMMA NoDustFromOne ==
    ASSUME NoDust, NEW o \in Offers, OnlyOffer(o),
           offer'[o].status = "Open" \/ Taken(o)' => escrow'[o] = offer'[o].collateral_amount
    PROVE  NoDust'
BY DEF NoDust, OnlyOffer, Taken

\* Listing moves the collateral out of the creator's wallet.
LEMMA CreateCollateral ==
    ASSUME CollateralInv, NEW o \in Offers, NEW x \in Requests,
           NEW c \in CollateralAmounts, NEW mint \in Mints, NEW lm \in LiquidityMints,
           NEW i \in Interests, NEW d \in Durations, NEW p \in Prices,
           CreateOffer(o, x, c, mint, lm, i, d, p)
    PROVE  CollateralInv'
<1> DEFINE t == Creator(o)
<1>0. DeckInv /\ TypeOK /\ t \in Users /\ c \in Nat
  BY OfferFields, DeckInputAssumption DEF CollateralInv, DeckInv
<1>1. DeckInv' /\ OnlyOffer(o)
  BY <1>0, CreateInv
<1>2. offer[o].status = "None" /\ escrow[o] = 0
  BY <1>0, OfferFields DEF CreateOffer, IdIsFree, EscrowBacked
<1>3. /\ offer'[o].status = "Open" /\ offer'[o].collateral_mint = mint
      /\ offer'[o].collateral_amount = c /\ escrow'[o] = c
  BY <1>0, <1>2 DEF CreateOffer, TypeOK
<1>4. coll' = [coll EXCEPT ![mint][t] = @ - c] /\ coll \in [Mints -> [Users -> Nat]]
  BY <1>0 DEF CreateOffer, TypeOK
<1>5. NoDust'
  BY <1>1, <1>3, NoDustFromOne DEF CollateralInv
<1>6. ASSUME NEW m \in Mints, NEW u \in Users
      PROVE  coll'[m][u] + CollateralOut(m, u)'[o] + CollateralIn(m, u)[o]
                 = coll[m][u] + CollateralOut(m, u)[o] + CollateralIn(m, u)'[o]
  <2>1. CollateralIn(m, u)[o] = 0 /\ CollateralOut(m, u)[o] = 0
    BY <1>2, CollateralOfOffer
  <2>2. /\ CollateralIn(m, u)'[o] = 0
        /\ CollateralOut(m, u)'[o] = IF m = mint /\ u = t THEN c ELSE 0
    BY <1>3, CollateralOfOfferNext
  <2>3. /\ coll[m][u] \in Nat
        /\ coll'[m][u] = IF m = mint /\ u = t THEN coll[m][u] - c ELSE coll[m][u]
    BY <1>0, <1>4, WalletMoves
  <2>4. CASE m = mint /\ u = t
    BY <1>0, <2>1, <2>2, <2>3, <2>4
  <2>5. CASE ~(m = mint /\ u = t)
    BY <2>1, <2>2, <2>3, <2>5
  <2> QED BY <2>4, <2>5
<1> QED BY <1>1, <1>5, <1>6, CollateralFollows

\* Whichever way the creator gets the collateral back, it is what was escrowed.
LEMMA ReturnCollateral ==
    ASSUME CollateralInv, NEW o \in Offers, CancelOffer(o) \/ RepayOffer(o)
    PROVE  CollateralInv'
<1> DEFINE po == offer[o]
           mint == po.collateral_mint
           t == Creator(o)
           x == po.collateral_amount
<1>0. /\ DeckInv /\ TypeOK /\ t \in Users /\ po \in P2POffer /\ mint \in Mints
      /\ NoDust
  BY OfferFields DEF CollateralInv, DeckInv
<1>1. DeckInv' /\ OnlyOffer(o)
  BY <1>0, CancelInv, RepayInv
<1>2. x \in Nat
  BY <1>0 DEF P2POffer
<1>3. /\ po.status \in {"Open", "Funded", "InGracePeriod"}
      /\ po.status = "Open" => escrow[o] = x
  BY <1>0 DEF CancelOffer, RepayOffer, MayRepay, NoDust
<1>4. offer'[o].status \in {"None", "Repaid"}
  <2>1. CASE CancelOffer(o)
    <3>1. offer'[o] = NoOffer
      BY <1>0, <2>1 DEF CancelOffer, TypeOK
    <3> QED BY <3>1 DEF NoOffer
  <2>2. CASE RepayOffer(o)
    <3>1. offer'[o] = [po EXCEPT !.status = "Repaid"]
      BY <1>0, <2>2 DEF RepayOffer, MayRepay, TypeOK
    <3> QED BY <1>0, <3>1 DEF P2POffer
  <2> QED BY <2>1, <2>2
<1>5. coll' = [coll EXCEPT ![mint][t] = @ + x] /\ coll \in [Mints -> [Users -> Nat]]
  <2>1. CASE CancelOffer(o)
    BY <1>0, <1>3, <2>1 DEF CancelOffer, TypeOK
  <2>2. CASE RepayOffer(o)
    BY <1>0, <2>2 DEF RepayOffer, MayRepay, TypeOK
  <2> QED BY <2>1, <2>2
<1>6. NoDust'
  BY <1>0, <1>1, <1>4, NoDustFromOne DEF Taken
<1>7. ASSUME NEW m \in Mints, NEW u \in Users
      PROVE  coll'[m][u] + CollateralOut(m, u)'[o] + CollateralIn(m, u)[o]
                 = coll[m][u] + CollateralOut(m, u)[o] + CollateralIn(m, u)'[o]
  <2>1. /\ CollateralIn(m, u)[o] = 0
        /\ CollateralOut(m, u)[o] = IF m = mint /\ u = t THEN x ELSE 0
    BY <1>3, CollateralOfOffer
  <2>2. CollateralIn(m, u)'[o] = 0 /\ CollateralOut(m, u)'[o] = 0
    BY <1>4, CollateralOfOfferNext
  <2> HIDE DEF po, mint, t, x
  <2>3. /\ coll[m][u] \in Nat
        /\ coll'[m][u] = IF m = mint /\ u = t THEN coll[m][u] + x ELSE coll[m][u]
    BY <1>0, <1>2, <1>5, WalletMoves
  <2>4. CASE m = mint /\ u = t
    BY <1>2, <2>1, <2>2, <2>3, <2>4
  <2>5. CASE ~(m = mint /\ u = t)
    BY <2>1, <2>2, <2>3, <2>5
  <2> QED BY <2>4, <2>5
<1> QED BY <1>1, <1>6, <1>7, CollateralFollows

\* A claim moves it into the funder's wallet.
LEMMA ClaimCollateral ==
    ASSUME CollateralInv, NEW o \in Offers, ClaimDefault(o)
    PROVE  CollateralInv'
<1> DEFINE po == offer[o]
           mint == po.collateral_mint
           f == po.funder
           t == Creator(o)
           x == po.collateral_amount
<1>0. /\ DeckInv /\ TypeOK /\ t \in Users /\ po \in P2POffer /\ mint \in Mints
      /\ NoDust
  BY OfferFields DEF CollateralInv, DeckInv
<1>1. DeckInv' /\ OnlyOffer(o)
  BY <1>0, ClaimInv
<1>2. Taken(o) /\ po.status = "InGracePeriod"
  BY DEF ClaimDefault, MayClaim, GraceIsOver, Taken
<1>3. x \in Nat /\ f \in Users
  BY <1>0, <1>2, OfferFields DEF P2POffer
<1>4. offer'[o] = [po EXCEPT !.status = "Defaulted"]
  BY <1>0 DEF ClaimDefault, MayClaim, TypeOK
<1>5. /\ offer'[o].status = "Defaulted" /\ offer'[o].funder = f
      /\ offer'[o].collateral_mint = mint /\ offer'[o].collateral_amount = x
  BY <1>0, <1>4 DEF P2POffer
<1>6. coll' = [coll EXCEPT ![mint][f] = @ + x] /\ coll \in [Mints -> [Users -> Nat]]
  BY <1>0 DEF ClaimDefault, MayClaim, TypeOK
<1>7. NoDust'
  BY <1>0, <1>1, <1>5, NoDustFromOne DEF Taken
<1>8. ASSUME NEW m \in Mints, NEW u \in Users
      PROVE  coll'[m][u] + CollateralOut(m, u)'[o] + CollateralIn(m, u)[o]
                 = coll[m][u] + CollateralOut(m, u)[o] + CollateralIn(m, u)'[o]
  <2>1. /\ CollateralIn(m, u)[o] = 0
        /\ CollateralOut(m, u)[o] = IF m = mint /\ u = t THEN x ELSE 0
    BY <1>2, CollateralOfOffer
  <2>2. /\ CollateralIn(m, u)'[o] = IF m = mint /\ u = f THEN x ELSE 0
        /\ CollateralOut(m, u)'[o] = IF m = mint /\ u = t THEN x ELSE 0
    BY <1>5, CollateralOfOfferNext
  <2> HIDE DEF po, mint, f, t, x
  <2>3. /\ coll[m][u] \in Nat
        /\ coll'[m][u] = IF m = mint /\ u = f THEN coll[m][u] + x ELSE coll[m][u]
    BY <1>0, <1>3, <1>6, WalletMoves
  <2>4. /\ CollateralOut(m, u)'[o] = CollateralOut(m, u)[o]
        /\ CollateralOut(m, u)[o] \in Nat
    BY <1>3, <2>1, <2>2
  <2>5. CASE m = mint /\ u = f
    BY <1>3, <2>1, <2>2, <2>3, <2>4, <2>5
  <2>6. CASE ~(m = mint /\ u = f)
    BY <2>1, <2>2, <2>3, <2>4, <2>6
  <2> QED BY <2>5, <2>6
<1> QED BY <1>1, <1>7, <1>8, CollateralFollows

\* Funding and grace leave it in escrow.
LEMMA QuietCollateral ==
    ASSUME CollateralInv, NEW o \in Offers,
           \/ \E f \in Users : FundOffer(f, o)
           \/ \E u \in Users : TriggerGracePeriod(u, o)
    PROVE  CollateralInv'
<1>0. DeckInv /\ TypeOK /\ offer[o] \in P2POffer /\ NoDust
  BY OfferFields DEF CollateralInv, DeckInv
<1>1. DeckInv' /\ OnlyOffer(o)
  BY <1>0, FundInv, TriggerInv
<1>2. /\ offer[o].status \in {"Open", "Funded"}
      /\ offer'[o].status \in {"Funded", "InGracePeriod"}
      /\ offer'[o].collateral_mint = offer[o].collateral_mint
      /\ offer'[o].collateral_amount = offer[o].collateral_amount
      /\ coll' = coll /\ escrow' = escrow
  <2>1. CASE \E f \in Users : FundOffer(f, o)
    <3>1. PICK f \in Users : FundOffer(f, o)
      BY <2>1
    <3>2. offer'[o] = [offer[o] EXCEPT !.funder = f,
                                       !.due_time = now + offer[o].duration,
                                       !.status = "Funded"]
      BY <1>0, <3>1 DEF FundOffer, TypeOK
    <3>3. /\ offer'[o].status = "Funded"
          /\ offer'[o].collateral_mint = offer[o].collateral_mint
          /\ offer'[o].collateral_amount = offer[o].collateral_amount
      BY <1>0, <3>2 DEF P2POffer
    <3> QED BY <3>1, <3>3 DEF FundOffer, Fundable
  <2>2. CASE \E u \in Users : TriggerGracePeriod(u, o)
    <3>1. offer'[o] = [offer[o] EXCEPT !.status = "InGracePeriod",
                                       !.grace_period_expires = now + GracePeriod]
      BY <1>0, <2>2 DEF TriggerGracePeriod, MayTriggerGrace, TypeOK
    <3> QED BY <1>0, <2>2, <3>1 DEF TriggerGracePeriod, MayTriggerGrace, P2POffer
  <2> QED BY <2>1, <2>2
<1>3. NoDust'
  BY <1>0, <1>1, <1>2, NoDustFromOne DEF NoDust, Taken
<1>4. ASSUME NEW m \in Mints, NEW u \in Users
      PROVE  coll'[m][u] + CollateralOut(m, u)'[o] + CollateralIn(m, u)[o]
                 = coll[m][u] + CollateralOut(m, u)[o] + CollateralIn(m, u)'[o]
  <2>1. /\ CollateralIn(m, u)'[o] = CollateralIn(m, u)[o]
        /\ CollateralOut(m, u)'[o] = CollateralOut(m, u)[o]
    BY <1>2, CollateralOfOffer, CollateralOfOfferNext
  <2>2. coll'[m][u] = coll[m][u]
    BY <1>2
  <2>3. /\ CollateralIn(m, u)[o] \in Nat /\ CollateralOut(m, u)[o] \in Nat
        /\ coll[m][u] \in Nat
    BY <1>0, MovesType DEF TypeOK
  <2> QED BY <2>1, <2>2, <2>3
<1> QED BY <1>1, <1>3, <1>4, CollateralFollows

LEMMA CollateralInit == Init => CollateralInv
<1> SUFFICES ASSUME Init, NEW m \in Mints, NEW u \in Users
             PROVE  Balanced(InitialCollateral[m][u], coll[m][u],
                             CollateralIn(m, u), CollateralOut(m, u))
  <2>1. Init => NoDust
    BY DEF Init, NoDust, NoOffer, Taken
  <2> QED BY <2>1, DeckInit DEF CollateralInv
<1>1. TypeOK
  BY DeckInit DEF DeckInv
<1>2. \A o \in Offers : CollateralIn(m, u)[o] = 0 /\ CollateralOut(m, u)[o] = 0
  BY CollateralOfOffer DEF Init, NoOffer
<1>3. /\ IsFiniteSet(Units(Offers, CollateralIn(m, u)))
      /\ IsFiniteSet(Units(Offers, CollateralOut(m, u)))
      /\ Cardinality(Units(Offers, CollateralIn(m, u))) = 0
      /\ Cardinality(Units(Offers, CollateralOut(m, u))) = 0
  BY <1>1, <1>2, MovesType, NothingWeighs
<1> QED BY <1>3 DEF Balanced, Init

LEMMA CollateralNext ==
    ASSUME Donations = {}, CollateralInv, [Next]_vars
    PROVE  CollateralInv'
<1>1. CASE List
  BY <1>1, CreateCollateral, ReturnCollateral DEF List
<1>2. CASE Fund
  BY <1>2, QuietCollateral DEF Fund
<1>3. CASE Settle
  BY <1>3, ReturnCollateral, ClaimCollateral, QuietCollateral DEF Settle
<1>4. CASE Gift
  BY <1>4 DEF Gift
<1>5. CASE Tick \/ UNCHANGED vars
  <2>1. DeckInv'
    BY <1>5, IdleInv DEF CollateralInv
  <2>2. offer' = offer /\ coll' = coll /\ escrow' = escrow
    BY <1>5 DEF Tick, vars
  <2> QED
    BY <2>1, <2>2 DEF CollateralInv, NoDust, Balanced, CollateralIn, CollateralOut, Taken
<1> QED BY <1>1, <1>2, <1>3, <1>4, <1>5 DEF Next

LEMMA CollateralExplained == CollateralInv => CollateralMatchesOffers
<1> SUFFICES ASSUME CollateralInv, NEW m \in Mints, NEW u \in Users
             PROVE  coll[m][u] + OverOffers(CollateralOut(m, u))
                        = InitialCollateral[m][u] + OverOffers(CollateralIn(m, u))
  BY DEF CollateralMatchesOffers
<1>1. CollateralIn(m, u) \in [Offers -> Nat] /\ CollateralOut(m, u) \in [Offers -> Nat]
  BY MovesType DEF CollateralInv, DeckInv
<1>2. /\ OverOffers(CollateralIn(m, u)) = Cardinality(Units(Offers, CollateralIn(m, u)))
      /\ OverOffers(CollateralOut(m, u)) = Cardinality(Units(Offers, CollateralOut(m, u)))
  BY <1>1, UnitsByElement DEF OverOffers
<1> QED BY <1>2 DEF CollateralInv, Balanced

\* Where nobody sends gifts to escrows, all balances are explained by the
\* offers as they stand: cancelling, listing again, repaying and claiming have
\* moved each offer's collateral once and to one party.
THEOREM WalletsFollowOffers ==
    ASSUME Donations = {}
    PROVE  Spec => []WalletsMatchOffers
<1>1. Init => CollateralInv
  BY CollateralInit
<1>2. CollateralInv /\ [Next]_vars => CollateralInv'
  BY CollateralNext
<1>3. CollateralInv => CollateralMatchesOffers
  BY CollateralExplained
<1>4. Spec => []CollateralMatchesOffers
  BY <1>1, <1>2, <1>3, PTL DEF Spec
<1> QED BY <1>4, MoneyFollowsOffers, PTL DEF WalletsMatchOffers

-----------------------------------------------------------------------------
(* The phone's screen.  An answer was right about every offer when it was  *)
(* given, and is right still about those the chain has not changed since;  *)
(* how far an offer has moved on only grows, so of the others it says too  *)
(* little.  What a transaction did to its offer is true until the offer    *)
(* changes again, and what it did to a debt also after that.  The rest is  *)
(* that the app's merge and its marks keep each item with its offer.       *)

Item == [address : Offers, account : P2POffer]

\* What the form for a new offer can ask for.
Listing ==
    {terms \in P2POffer :
        /\ terms.status = "Open"
        /\ terms.requested_amount \in Requests
        /\ terms.collateral_amount \in CollateralAmounts
        /\ terms.collateral_mint \in Mints
        /\ terms.liquidity_mint \in LiquidityMints
        /\ terms.interest_offered \in Interests
        /\ terms.duration \in Durations}

Outcomes == {"sent", "executed", "overtaken", "refused"}
Dealing == [kind : {"Fund", "Repay", "Cancel"}, address : Offers, outcome : Outcomes]
NewListing == [kind : {"List"}, address : Offers, terms : Listing, outcome : Outcomes]
Transaction == {NoTx} \cup Dealing \cup NewListing

\* An item that is right about its offer, as far as its status goes.
UpToDate(item) == item.account.status = offer[item.address].status

\* An answer of the chain, however old.
Honest(answer) ==
    /\ answer \in [items : SUBSET Item, old : SUBSET Offers]
    /\ \A item \in answer.items :
            Real(item) /\ (item.address \notin answer.old => UpToDate(item))

\* What a transaction has done to its offer.
Done(tx) ==
    LET account == offer[tx.address] IN
    /\ tx.outcome = "executed" =>
          /\ tx.kind = "List" => account.status = "Open"
          /\ tx.kind = "Fund" => account.status = "Funded" /\ account.funder = Me
          /\ tx.kind = "Repay" => account.status = "Repaid"
    /\ tx.outcome = "overtaken" =>
          /\ tx.kind = "Fund" => Rank(account.status) >= 1 /\ account.funder = Me
          /\ tx.kind = "Repay" => Rank(account.status) >= 3

SignedInv == \A s \in Slots : signed[s] # NoTx => Done(signed[s])

ScreenInv ==
    /\ DeckInv
    /\ \A answer \in answers : Honest(answer)
    /\ shown \subseteq Item /\ ScreenKeepsUp
    /\ signed \in [Slots -> Transaction] /\ SignedInv

-----------------------------------------------------------------------------
(* Debts only move on.                                                     *)

\* No instruction takes an offer back from where it stands, or changes whom
\* it owes.
LEMMA DebtsMoveOn ==
    ASSUME DeckInv, [Next]_vars, NEW o \in Offers, Rank(offer[o].status) > 0
    PROVE  /\ Rank(offer'[o].status) >= Rank(offer[o].status)
           /\ offer'[o].funder = offer[o].funder
<1>0. /\ offer[o] \in P2POffer
      /\ offer[o].status \in {"Funded", "InGracePeriod", "Repaid", "Defaulted"}
  BY OfferFields DEF Rank, P2POffer
<1>1. CASE offer'[o] = offer[o]
  BY <1>0, <1>1 DEF Rank
<1>2. CASE Shape(o)
  <2>1. ~Relisted(o) /\ ~Funded(o)
    BY <1>0 DEF Relisted, Funded
  <2>2. CASE Graced(o)
    <3>1. /\ offer[o].status = "Funded" /\ offer'[o].status = "InGracePeriod"
          /\ offer'[o].funder = offer[o].funder
      BY <1>0, <2>2 DEF Graced, P2POffer
    <3> QED BY <3>1 DEF Rank
  <2>3. CASE Closed(o)
    <3>1. /\ offer'[o].status \in {"Repaid", "Defaulted"}
          /\ offer'[o].funder = offer[o].funder
      BY <1>0, <2>3 DEF Closed, P2POffer
    <3> QED BY <1>0, <3>1 DEF Rank
  <2> QED BY <1>2, <2>1, <2>2, <2>3 DEF Shape
<1> QED BY <1>1, <1>2, OfferSteps DEF OnlyOffer

\* So what an item says of a debt stays true.
LEMMA RealStays ==
    ASSUME DeckInv, [Next]_vars, NEW item \in Item, Real(item)
    PROVE  Real(item)'
<1> DEFINE o == item.address
           r == Rank(item.account.status)
<1>1. o \in Offers /\ item.account \in P2POffer
  BY DEF Item
<1>2. /\ Rank(offer[o].status) >= r
      /\ r \in {1, 2} => offer[o].funder = item.account.funder
  BY DEF Real
<1>3. r \in Nat /\ Rank(offer[o].status) \in Nat /\ Rank(offer'[o].status) \in Nat
  BY DEF Rank
<1>4. Rank(offer[o].status) > 0 =>
        /\ Rank(offer'[o].status) >= Rank(offer[o].status)
        /\ offer'[o].funder = offer[o].funder
  BY <1>1, DebtsMoveOn
<1>5. /\ Rank(offer'[o].status) >= r
      /\ r \in {1, 2} => offer'[o].funder = item.account.funder
  <2> HIDE DEF o, r
  <2> QED BY <1>2, <1>3, <1>4
<1> QED BY <1>5 DEF Real

\* The chain's accounts as they are.
LEMMA ChainIsHonest ==
    ASSUME DeckInv, NEW item \in OnChain
    PROVE  item \in Item /\ Real(item) /\ UpToDate(item)
<1>1. PICK o \in Offers : item = [address |-> o, account |-> offer[o]]
  BY DEF OnChain
<1>2. offer[o] \in P2POffer
  BY OfferFields
<1>3. item \in Item /\ UpToDate(item)
  BY <1>1, <1>2 DEF Item, UpToDate
<1>4. Rank(offer[o].status) >= Rank(offer[o].status)
  BY DEF Rank
<1> QED BY <1>1, <1>3, <1>4 DEF Real

\* A transaction that lands is a step of the deck.
LEMMA LandingIsADeckStep ==
    ASSUME NEW tx \in Transaction \ {NoTx}, Executes(tx)
    PROVE  Next
<1>0. Me \in Users /\ tx.address \in Offers
  BY AppAssumption DEF Transaction, Dealing, NewListing
<1>1. CASE tx.kind = "List" /\ CreatesListed(tx.address, tx.terms)
  <2>1. tx.terms \in Listing
    BY <1>1 DEF Transaction, Dealing, NewListing
  <2>2. List
    BY <1>0, <1>1, <2>1 DEF Listing, CreatesListed, List
  <2> QED BY <2>2 DEF Next
<1>2. CASE tx.kind = "Fund" /\ FundOffer(Me, tx.address)
  BY <1>0, <1>2 DEF Next, Fund
<1>3. CASE tx.kind = "Repay" /\ RepayOffer(tx.address)
  BY <1>0, <1>3 DEF Next, Settle
<1>4. CASE tx.kind = "Cancel" /\ CancelOffer(tx.address)
  BY <1>0, <1>4 DEF Next, List
<1> QED BY <1>1, <1>2, <1>3, <1>4 DEF Executes

\* The form's terms are inputs the program takes.
LEMMA FormTerms ==
    ASSUME NEW x \in Requests, NEW c \in CollateralAmounts, NEW m \in PawnMints,
           NEW lm \in LiquidityMints, NEW i \in Interests, NEW d \in Durations
    PROVE  [NoOffer EXCEPT !.status = "Open", !.requested_amount = x,
                !.collateral_amount = c, !.collateral_mint = m, !.liquidity_mint = lm,
                !.interest_offered = i, !.duration = d] \in Listing
<1>1. x \in Nat /\ c \in Nat /\ i \in Nat /\ d \in Nat /\ m \in Mints
  BY DeckInputAssumption, AppAssumption
<1>2. NoOffer \in P2POffer
  BY NoOfferType
<1> QED BY <1>1, <1>2 DEF NoOffer, P2POffer, Listing

-----------------------------------------------------------------------------
(* What the phone's transactions do, and what becomes of it.               *)

\* Only a transaction that was signed is waited for.
LEMMA SignedTx ==
    ASSUME ScreenInv, NEW s \in Slots, signed[s] # NoTx
    PROVE  /\ signed[s] \in Transaction \ {NoTx} /\ signed[s].address \in Offers
           /\ signed[s].kind \in {"List", "Fund", "Repay", "Cancel"}
           /\ Done(signed[s])
BY DEF ScreenInv, SignedInv, Transaction, Dealing, NewListing

LEMMA OutcomeKept ==
    ASSUME NEW tx \in Transaction \ {NoTx}, NEW outcome \in Outcomes
    PROVE  /\ [tx EXCEPT !.outcome = outcome] \in Transaction \ {NoTx}
           /\ [tx EXCEPT !.outcome = outcome].kind = tx.kind
           /\ [tx EXCEPT !.outcome = outcome].address = tx.address
           /\ [tx EXCEPT !.outcome = outcome].outcome = outcome
<1> DEFINE t == [tx EXCEPT !.outcome = outcome]
<1>0. outcome # "unused" /\ NoTx.outcome = "unused"
  BY DEF Outcomes, NoTx
<1>1. CASE tx \in Dealing
  <2>1. t \in Dealing /\ t.kind = tx.kind /\ t.address = tx.address /\ t.outcome = outcome
    BY <1>1 DEF Dealing
  <2> QED BY <1>0, <2>1 DEF Transaction
<1>2. CASE tx \in NewListing
  <2>1. t \in NewListing /\ t.kind = tx.kind /\ t.address = tx.address /\ t.outcome = outcome
    BY <1>2 DEF NewListing
  <2> QED BY <1>0, <2>1 DEF Transaction
<1> QED BY <1>1, <1>2 DEF Transaction

\* The program has done what was signed.
LEMMA Landed ==
    ASSUME DeckInv, NEW tx \in Transaction \ {NoTx}, Executes(tx)
    PROVE  /\ tx.kind = "List" => offer'[tx.address].status = "Open"
           /\ tx.kind = "Fund" => /\ offer'[tx.address].status = "Funded"
                                  /\ offer'[tx.address].funder = Me
           /\ tx.kind = "Repay" => offer'[tx.address].status = "Repaid"
<1> DEFINE o == tx.address
<1>0. o \in Offers /\ offer \in [Offers -> P2POffer]
  BY DEF Transaction, Dealing, NewListing, DeckInv, TypeOK
<1>1. CASE tx.kind = "List"
  <2>1. CreatesListed(o, tx.terms)
    BY <1>1 DEF Executes
  <2> QED BY <1>0, <1>1, <2>1 DEF CreatesListed, CreateOffer
<1>2. CASE tx.kind = "Fund"
  <2>1. FundOffer(Me, o)
    BY <1>2 DEF Executes
  <2>2. offer'[o] = [offer[o] EXCEPT !.funder = Me, !.due_time = now + offer[o].duration,
                                     !.status = "Funded"]
    BY <1>0, <2>1 DEF FundOffer
  <2> QED BY <1>0, <1>2, <2>2 DEF P2POffer
<1>3. CASE tx.kind = "Repay"
  <2>1. RepayOffer(o)
    BY <1>3 DEF Executes
  <2>2. offer'[o] = [offer[o] EXCEPT !.status = "Repaid"]
    BY <1>0, <2>1 DEF RepayOffer
  <2> QED BY <1>0, <1>3, <2>2 DEF P2POffer
<1> QED BY <1>1, <1>2, <1>3

\* What a transaction did is noted as overtaken once its offer changes again.
LEMMA DealsAge ==
    ASSUME ScreenInv, [Next]_vars, NEW s \in Slots, signed[s] # NoTx,
           signed'[s] = Overtaken[s]
    PROVE  signed'[s] \in Transaction \ {NoTx} /\ Done(signed[s])'
<1> DEFINE tx == signed[s]
           o == tx.address
<1>1. /\ tx \in Transaction \ {NoTx} /\ o \in Offers
      /\ tx.kind \in {"List", "Fund", "Repay", "Cancel"} /\ Done(tx)
  BY SignedTx
<1>2. Rank(offer[o].status) > 0 =>
        /\ Rank(offer'[o].status) >= Rank(offer[o].status)
        /\ offer'[o].funder = offer[o].funder
  BY <1>1, DebtsMoveOn DEF ScreenInv
<1>3. /\ \A status : Rank(status) \in Nat
      /\ Rank("Funded") = 1 /\ Rank("Repaid") = 3
  BY DEF Rank
<1>4. CASE tx.outcome = "executed" /\ o \in Changed
  <2>1. signed'[s] = [tx EXCEPT !.outcome = "overtaken"]
    BY <1>4 DEF Overtaken
  <2>2. /\ signed'[s] \in Transaction \ {NoTx} /\ signed'[s].kind = tx.kind
        /\ signed'[s].address = o /\ signed'[s].outcome = "overtaken"
    <3>1. "overtaken" \in Outcomes
      BY DEF Outcomes
    <3> HIDE DEF tx
    <3> QED BY <1>1, <2>1, <3>1, OutcomeKept
  <2>3. /\ tx.kind = "Fund" => Rank(offer'[o].status) >= 1 /\ offer'[o].funder = Me
        /\ tx.kind = "Repay" => Rank(offer'[o].status) >= 3
    BY <1>1, <1>2, <1>3, <1>4 DEF Done
  <2> HIDE DEF tx, o
  <2> QED BY <2>2, <2>3 DEF Done
<1>5. CASE ~(tx.outcome = "executed" /\ o \in Changed)
  <2>1. signed'[s] = tx
    BY <1>5 DEF Overtaken
  <2>2. tx.outcome = "executed" => offer'[o] = offer[o]
    BY <1>1, <1>5 DEF Changed
  <2>3. tx.outcome = "overtaken" =>
        /\ tx.kind = "Fund" => Rank(offer'[o].status) >= 1 /\ offer'[o].funder = Me
        /\ tx.kind = "Repay" => Rank(offer'[o].status) >= 3
    BY <1>1, <1>2, <1>3 DEF Done
  <2>4. tx.outcome = "executed" => tx.outcome # "overtaken"
    OBVIOUS
  <2> QED BY <1>1, <2>1, <2>2, <2>3 DEF Done
<1> QED BY <1>4, <1>5

\* A step of the deck leaves answers and screen as right as they are said to be.
LEMMA AgesKeeps ==
    ASSUME ScreenInv, [Next]_vars, Ages
    PROVE  /\ DeckInv' /\ \A answer \in answers' : Honest(answer)'
           /\ shown' \subseteq Item /\ ScreenKeepsUp'
<1>1. DeckInv' /\ DeckInv
  BY DeckNext DEF ScreenInv
<1>2. ASSUME NEW item \in Item, item.address \notin Changed, UpToDate(item)
      PROVE  UpToDate(item)'
  BY <1>2 DEF Item, Changed, UpToDate
<1>3. ASSUME NEW answer \in answers' PROVE Honest(answer)'
  <2>1. PICK was \in answers :
            answer = [was EXCEPT !.old = @ \cup (Changed \cap {item.address : item \in was.items})]
    BY DEF Ages
  <2>2. Honest(was)
    BY DEF ScreenInv
  <2>3. /\ answer.items = was.items
        /\ answer.old = was.old \cup (Changed \cap {item.address : item \in was.items})
        /\ answer \in [items : SUBSET Item, old : SUBSET Offers]
    BY <2>1, <2>2 DEF Honest, Changed
  <2>4. ASSUME NEW item \in answer.items
        PROVE  Real(item)' /\ (item.address \notin answer.old => UpToDate(item)')
    <3>1. item \in Item /\ Real(item) /\ (item.address \notin was.old => UpToDate(item))
      BY <2>2, <2>3 DEF Honest
    <3>2. item.address \notin answer.old => item.address \notin was.old /\ item.address \notin Changed
      BY <2>3
    <3> QED BY <1>1, <1>2, <3>1, <3>2, RealStays
  <2> QED BY <2>3, <2>4 DEF Honest
<1>4. shown' = shown /\ shown \subseteq Item /\ ScreenKeepsUp
  BY DEF Ages, ScreenInv
<1>5. ASSUME NEW item \in shown
      PROVE  /\ word'[item.address] # "guess" => Real(item)'
             /\ word'[item.address] = "sure" => UpToDate(item)'
  <2>1. item \in Item /\ item.address \in Offers
    BY <1>4 DEF Item
  <2>2. word'[item.address] =
            IF word[item.address] = "sure" /\ item.address \in Changed THEN "old"
            ELSE word[item.address]
    BY <2>1 DEF Ages
  <2>3. /\ word[item.address] # "guess" => Real(item)
        /\ word[item.address] = "sure" => UpToDate(item)
    BY <1>4 DEF ScreenKeepsUp, UpToDate
  <2> QED BY <1>1, <1>2, <2>1, <2>2, <2>3, RealStays
<1> QED BY <1>1, <1>3, <1>4, <1>5 DEF ScreenKeepsUp, UpToDate

-----------------------------------------------------------------------------
(* The phone alone: the deck stands still.                                 *)

LEMMA Still ==
    ASSUME UNCHANGED vars
    PROVE  /\ DeckInv => DeckInv'
           /\ \A item : (Real(item) <=> Real(item)') /\ (UpToDate(item) <=> UpToDate(item)')
           /\ \A answer : Honest(answer) => Honest(answer)'
           /\ \A tx : Done(tx) => Done(tx)'
<1>1. DeckInv => DeckInv'
  BY DeckNext
<1>2. offer' = offer
  BY DEF vars
<1> QED BY <1>1, <1>2 DEF Real, UpToDate, Honest, Done

\* Signing, a refusal and giving up write one transaction.
LEMMA SignedStays ==
    ASSUME ScreenInv, UNCHANGED <<vars, answers, shown, word>>,
           NEW s \in Slots, NEW tx \in Transaction, signed' = [signed EXCEPT ![s] = tx],
           tx.outcome \notin {"executed", "overtaken"}
    PROVE  ScreenInv'
<1>0. UNCHANGED vars /\ UNCHANGED <<answers, shown, word>>
  OBVIOUS
<1>1. signed' \in [Slots -> Transaction] /\ Done(tx)'
  BY DEF ScreenInv, Done
<1>2. SignedInv'
  BY <1>0, <1>1, Still DEF ScreenInv, SignedInv
<1>3. ScreenKeepsUp'
  BY <1>0, Still DEF ScreenInv, ScreenKeepsUp, UpToDate
<1> QED BY <1>0, <1>1, <1>2, <1>3, Still DEF ScreenInv

\* What is noted of an item is what the step gave it.
LEMMA Noted ==
    ASSUME NEW worth, word' = OnScreen(worth), NEW item \in shown', item.address \in Offers
    PROVE  word'[item.address] = worth[item.address]
BY DEF OnScreen

\* What a confirmed transaction puts on the screen is right about the offer it
\* was about; other offers of the same id are noted as guesses.
LEMMA MarkedItems ==
    ASSUME ScreenInv, NEW tx \in Transaction \ {NoTx}, Done(tx),
           tx.outcome \in {"executed", "overtaken", "refused"},
           NEW item \in Marked(shown, tx)
    PROVE  /\ item \in Item
           /\ Worth(tx, item.address) # "guess" => Real(item)
           /\ Worth(tx, item.address) = "sure" => UpToDate(item)
<1> DEFINE o == item.address
           account == offer[tx.address]
<1>0. /\ Me \in Users /\ tx.address \in Offers /\ shown \subseteq Item
      /\ tx.kind \in {"List", "Fund", "Repay", "Cancel"}
  BY AppAssumption DEF Transaction, Dealing, NewListing, ScreenInv
<1>1. /\ Rank("Open") = 0 /\ Rank("Funded") = 1 /\ Rank("Repaid") = 3
      /\ \A status : Rank(status) \in Nat
  BY DEF Rank
<1>2. /\ Id(item) = o[2]
      /\ Id(item) # tx.address[2] => Worth(tx, o) = word[o]
      /\ Id(item) = tx.address[2] /\ Worth(tx, o) # "guess" =>
            o = tx.address /\ tx.outcome \in {"executed", "overtaken"}
      /\ Id(item) = tx.address[2] /\ Worth(tx, o) = "sure" => tx.outcome = "executed"
  BY DEF Worth, Id
<1>3. CASE item \in shown /\ Id(item) # tx.address[2]
  BY <1>0, <1>2, <1>3 DEF ScreenInv, ScreenKeepsUp, UpToDate
<1>4. CASE tx.kind = "List" /\ item = [address |-> tx.address, account |-> tx.terms]
  <2>1. tx.terms \in P2POffer /\ tx.terms.status = "Open"
    BY <1>4 DEF Transaction, Dealing, NewListing, Listing
  <2>2. item \in Item /\ o = tx.address /\ item.account.status = "Open"
    BY <1>0, <1>4, <2>1 DEF Item
  <2>3. Real(item)
    BY <1>1, <2>2 DEF Real
  <2>4. tx.outcome = "executed" => UpToDate(item)
    BY <1>4, <2>2 DEF Done, UpToDate
  <2> QED BY <1>2, <2>2, <2>3, <2>4
<1>5. CASE tx.kind = "Fund" /\ Id(item) = tx.address[2]
  <2>1. PICK was \in shown :
            /\ Id(was) = tx.address[2]
            /\ item = [was EXCEPT !.account.status = "Funded", !.account.funder = Me]
    BY <1>5 DEF Marked, Id
  <2>2. was.account \in P2POffer /\ was.address \in Offers
    BY <1>0 DEF Item
  <2>3. [was.account EXCEPT !.status = "Funded", !.funder = Me] \in P2POffer
    BY <1>0, <2>2 DEF P2POffer
  <2>4. item = [was EXCEPT !.account = [was.account EXCEPT !.status = "Funded", !.funder = Me]]
    BY <1>0, <2>1, <2>2 DEF Item
  <2>5. /\ item \in Item /\ item.account.status = "Funded" /\ item.account.funder = Me
    BY <1>0, <2>2, <2>3, <2>4 DEF Item, P2POffer
  <2>6. o = tx.address /\ tx.outcome \in {"executed", "overtaken"} => Real(item)
    BY <1>1, <1>5, <2>5 DEF Done, Real
  <2>7. o = tx.address /\ tx.outcome = "executed" => UpToDate(item)
    BY <1>5, <2>5 DEF Done, UpToDate
  <2> QED BY <1>2, <1>5, <2>5, <2>6, <2>7
<1>6. CASE tx.kind = "Repay" /\ Id(item) = tx.address[2]
  <2>1. PICK was \in shown :
            Id(was) = tx.address[2] /\ item = [was EXCEPT !.account.status = "Repaid"]
    BY <1>6 DEF Marked, Id
  <2>2. was.account \in P2POffer /\ was.address \in Offers
    BY <1>0 DEF Item
  <2>3. [was.account EXCEPT !.status = "Repaid"] \in P2POffer
    BY <2>2 DEF P2POffer
  <2>4. item = [was EXCEPT !.account = [was.account EXCEPT !.status = "Repaid"]]
    BY <1>0, <2>1, <2>2 DEF Item
  <2>5. item \in Item /\ item.account.status = "Repaid"
    BY <1>0, <2>2, <2>3, <2>4 DEF Item, P2POffer
  <2>6. o = tx.address /\ tx.outcome \in {"executed", "overtaken"} => Real(item)
    BY <1>1, <1>6, <2>5 DEF Done, Real
  <2>7. o = tx.address /\ tx.outcome = "executed" => UpToDate(item)
    BY <1>6, <2>5 DEF Done, UpToDate
  <2> QED BY <1>2, <1>6, <2>5, <2>6, <2>7
<1>7. \/ item \in shown /\ Id(item) # tx.address[2]
      \/ tx.kind = "List" /\ item = [address |-> tx.address, account |-> tx.terms]
      \/ tx.kind \in {"Fund", "Repay"} /\ Id(item) = tx.address[2]
  <2>1. \A was \in shown :
            /\ [was EXCEPT !.account.status = "Funded", !.account.funder = Me].address
                    = was.address
            /\ [was EXCEPT !.account.status = "Repaid"].address = was.address
    BY <1>0 DEF Item
  <2> QED BY <1>0, <2>1 DEF Marked, Id
<1> QED BY <1>3, <1>4, <1>5, <1>6, <1>7

-----------------------------------------------------------------------------
(* The invariant.                                                          *)

LEMMA ScreenInit == AppInit => ScreenInv
BY DeckInit DEF AppInit, ScreenInv, SignedInv, ScreenKeepsUp, Transaction

LEMMA ScreenNext == ScreenInv /\ [AppNext]_allVars => ScreenInv'
<1> SUFFICES ASSUME ScreenInv, [AppNext]_allVars PROVE ScreenInv'
  OBVIOUS
<1>0. /\ DeckInv /\ \A answer \in answers : Honest(answer)
      /\ shown \subseteq Item /\ ScreenKeepsUp
      /\ signed \in [Slots -> Transaction] /\ SignedInv
  BY DEF ScreenInv
<1>1. CASE UNCHANGED allVars
  <2>1. UNCHANGED vars /\ UNCHANGED <<answers, shown, signed, word>>
    BY <1>1 DEF allVars, appVars
  <2>2. ScreenKeepsUp' /\ SignedInv'
    BY <1>0, <2>1, Still DEF ScreenKeepsUp, UpToDate, SignedInv
  <2> QED BY <1>0, <2>1, <2>2, Still DEF ScreenInv
<1>2. CASE Chain
  <2>1. Next /\ Ages /\ signed' = Overtaken
    BY <1>2 DEF Chain
  <2>2. ASSUME NEW s \in Slots
        PROVE  signed'[s] \in Transaction /\ (signed'[s] # NoTx => Done(signed[s])')
    <3>1. signed'[s] = Overtaken[s]
      BY <2>1
    <3>2. signed[s] = NoTx => signed'[s] = NoTx
      BY <3>1 DEF Overtaken, NoTx
    <3> QED BY <1>0, <2>1, <3>1, <3>2, DealsAge DEF Transaction
  <2>3. signed' \in [Slots -> Transaction] /\ SignedInv'
    BY <2>1, <2>2 DEF Overtaken, SignedInv
  <2> QED BY <2>1, <2>3, AgesKeeps DEF ScreenInv
<1>3. CASE Scan
  <2>1. PICK kept \in SUBSET answers :
            answers' = kept \cup {[items |-> OnChain, old |-> {}]}
    BY <1>3 DEF Scan
  <2>2. UNCHANGED vars /\ UNCHANGED <<shown, signed, word>>
    BY <1>3 DEF Scan
  <2>3. Honest([items |-> OnChain, old |-> {}])
    BY <1>0, ChainIsHonest DEF Honest
  <2>4. \A answer \in answers' : Honest(answer)'
    BY <1>0, <2>1, <2>2, <2>3, Still
  <2>5. ScreenKeepsUp' /\ SignedInv'
    BY <1>0, <2>2, Still DEF ScreenKeepsUp, UpToDate, SignedInv
  <2> QED BY <1>0, <2>2, <2>4, <2>5, Still DEF ScreenInv
<1>4. ASSUME NEW answer \in answers, LoadOffers(answer) PROVE ScreenInv'
  <2> DEFINE told == {item.address : item \in answer.items}
             worth == [o \in Offers |-> IF o \notin told THEN word[o]
                                        ELSE IF o \in answer.old THEN "old" ELSE "sure"]
  <2>1. /\ UNCHANGED vars /\ UNCHANGED <<answers, signed>>
        /\ shown' = Merged(shown, answer.items) /\ word' = OnScreen(worth)
    BY <1>4 DEF LoadOffers
  <2>2. Honest(answer)
    BY <1>0
  <2>3. ASSUME NEW item \in shown'
        PROVE  /\ item \in Item
               /\ word'[item.address] # "guess" => Real(item)
               /\ word'[item.address] = "sure" => UpToDate(item)
    <3>1. CASE item \in answer.items
      <4>1. item \in Item /\ Real(item) /\ (item.address \notin answer.old => UpToDate(item))
        BY <2>2, <3>1 DEF Honest
      <4>2. item.address \in Offers /\ item.address \in told
        BY <3>1, <4>1 DEF Item
      <4>3. word'[item.address] = IF item.address \in answer.old THEN "old" ELSE "sure"
        BY <2>1, <4>2, Noted
      <4> QED BY <4>1, <4>3
    <3>2. CASE item \in shown /\ \A c \in answer.items : Id(c) # Id(item)
      <4>1. item \in Item /\ item.address \in Offers
        BY <1>0, <3>2 DEF Item
      <4>2. item.address \notin told
        BY <3>2 DEF Id
      <4>3. word'[item.address] = word[item.address]
        BY <2>1, <4>1, <4>2, Noted
      <4> QED BY <1>0, <3>2, <4>1, <4>3 DEF ScreenKeepsUp, UpToDate
    <3> QED BY <2>1, <3>1, <3>2 DEF Merged
  <2>4. ScreenKeepsUp' /\ SignedInv'
    BY <1>0, <2>1, <2>3, Still DEF ScreenKeepsUp, UpToDate, SignedInv
  <2> QED BY <1>0, <2>1, <2>3, <2>4, Still DEF ScreenInv
<1>5. ASSUME NEW s \in Slots, Lands(s) PROVE ScreenInv'
  <2>1. /\ signed[s].outcome = "sent" /\ Executes(signed[s]) /\ Ages
        /\ signed' = [Overtaken EXCEPT ![s].outcome = "executed"]
    BY <1>5 DEF Lands
  <2>2. signed[s] # NoTx
    BY <2>1 DEF NoTx
  <2>3. signed[s] \in Transaction \ {NoTx} /\ signed[s].address \in Offers
    BY <2>2, SignedTx
  <2>4. Next
    BY <2>1, <2>3, LandingIsADeckStep
  <2>5. Overtaken[s] = signed[s] /\ Overtaken = [k \in Slots |-> Overtaken[k]]
    BY <2>1 DEF Overtaken
  <2>6. /\ signed'[s] = [signed[s] EXCEPT !.outcome = "executed"]
        /\ \A k \in Slots : k # s => signed'[k] = Overtaken[k]
        /\ signed' = [k \in Slots |-> signed'[k]]
    BY <2>1, <2>5
  <2>7. /\ signed'[s] \in Transaction \ {NoTx} /\ signed'[s].kind = signed[s].kind
        /\ signed'[s].address = signed[s].address /\ signed'[s].outcome = "executed"
    <3>1. "executed" \in Outcomes
      BY DEF Outcomes
    <3> DEFINE tx == signed[s]
    <3>2. tx \in Transaction \ {NoTx} /\ signed'[s] = [tx EXCEPT !.outcome = "executed"]
      BY <2>3, <2>6
    <3>3. signed'[s].kind = tx.kind /\ signed'[s].address = tx.address
      <4> HIDE DEF tx
      <4> QED BY <3>1, <3>2, OutcomeKept
    <3>4. signed'[s] \in Transaction \ {NoTx} /\ signed'[s].outcome = "executed"
      <4> HIDE DEF tx
      <4> QED BY <3>1, <3>2, OutcomeKept
    <3> QED BY <3>3, <3>4
  <2>8. Done(signed[s])'
    BY <1>0, <2>1, <2>3, <2>7, Landed DEF Done
  <2>9. ASSUME NEW k \in Slots, k # s
        PROVE  signed'[k] \in Transaction /\ (signed'[k] # NoTx => Done(signed[k])')
    <3>1. signed'[k] = Overtaken[k]
      BY <2>6, <2>9
    <3>2. signed[k] = NoTx => signed'[k] = NoTx
      BY <3>1 DEF Overtaken, NoTx
    <3> QED BY <1>0, <2>4, <3>1, <3>2, DealsAge DEF Transaction
  <2>10. signed' \in [Slots -> Transaction] /\ SignedInv'
    BY <2>6, <2>7, <2>8, <2>9 DEF SignedInv
  <2> QED BY <2>1, <2>4, <2>10, AgesKeeps DEF ScreenInv
<1>6. ASSUME NEW s \in Slots, Reverts(s) PROVE ScreenInv'
  <2>1. /\ signed[s].outcome = "sent" /\ UNCHANGED <<vars, answers, shown, word>>
        /\ signed' = [signed EXCEPT ![s] = [signed[s] EXCEPT !.outcome = "refused"]]
    BY <1>6 DEF Reverts
  <2>2. signed[s] # NoTx
    BY <2>1 DEF NoTx
  <2>3. /\ [signed[s] EXCEPT !.outcome = "refused"] \in Transaction
        /\ [signed[s] EXCEPT !.outcome = "refused"].outcome = "refused"
    BY <2>2, SignedTx, OutcomeKept DEF Outcomes
  <2> QED BY <2>1, <2>3, SignedStays
<1>7. ASSUME NEW s \in Slots, Report(s) PROVE ScreenInv'
  <2> DEFINE tx == signed[s]
             worth == [o \in Offers |-> Worth(tx, o)]
  <2>1. /\ tx.outcome \in {"executed", "overtaken", "refused"}
        /\ UNCHANGED vars /\ UNCHANGED answers /\ shown' = Marked(shown, tx)
        /\ word' = OnScreen(worth) /\ signed' = [signed EXCEPT ![s] = NoTx]
    BY <1>7 DEF Report
  <2>2. tx # NoTx
    BY <2>1 DEF NoTx
  <2>3. tx \in Transaction \ {NoTx} /\ Done(tx)
    BY <2>2, SignedTx
  <2>4. ASSUME NEW item \in shown'
        PROVE  /\ item \in Item
               /\ word'[item.address] # "guess" => Real(item)
               /\ word'[item.address] = "sure" => UpToDate(item)
    <3>1. /\ item \in Item
          /\ Worth(tx, item.address) # "guess" => Real(item)
          /\ Worth(tx, item.address) = "sure" => UpToDate(item)
      BY <2>1, <2>3, MarkedItems
    <3>2. item.address \in Offers
      BY <3>1 DEF Item
    <3>3. word'[item.address] = Worth(tx, item.address)
      BY <2>1, <3>2, Noted
    <3> QED BY <3>1, <3>3
  <2>5. ScreenKeepsUp'
    BY <2>1, <2>4, Still DEF ScreenKeepsUp, UpToDate
  <2>6. signed' \in [Slots -> Transaction] /\ SignedInv'
    BY <1>0, <2>1, Still DEF SignedInv, Transaction
  <2> QED BY <1>0, <2>1, <2>4, <2>5, <2>6, Still DEF ScreenInv
<1>8. ASSUME NEW s \in Slots, GiveUp(s) PROVE ScreenInv'
  <2>1. NoTx \in Transaction /\ NoTx.outcome = "unused"
    BY DEF Transaction, NoTx
  <2> QED BY <1>8, <2>1, SignedStays DEF GiveUp
<1>9. ASSUME NEW s \in Slots, TapList(s) PROVE ScreenInv'
  <2>1. PICK id \in OfferIds, x \in Requests, c \in CollateralAmounts, m \in PawnMints,
             lm \in LiquidityMints, i \in Interests, d \in Durations :
          ListPawn(s, id, [NoOffer EXCEPT !.status = "Open", !.requested_amount = x,
                               !.collateral_amount = c, !.collateral_mint = m,
                               !.liquidity_mint = lm, !.interest_offered = i,
                               !.duration = d])
    BY <1>9 DEF TapList
  <2>2. PICK terms \in Listing : ListPawn(s, id, terms)
    BY <2>1, FormTerms
  <2> DEFINE tx == [kind |-> "List", address |-> <<Me, id>>, terms |-> terms,
                    outcome |-> "sent"]
  <2>3. <<Me, id>> \in Offers
    BY AppAssumption DEF Offers
  <2>4. tx \in Transaction /\ tx.outcome = "sent"
    BY <2>3 DEF Transaction, NewListing, Outcomes
  <2>5. signed' = [signed EXCEPT ![s] = tx] /\ UNCHANGED <<vars, answers, shown, word>>
    BY <2>2 DEF ListPawn
  <2> HIDE DEF tx
  <2> QED BY <2>4, <2>5, SignedStays
<1>10. ASSUME NEW s \in Slots, NEW item \in shown,
              TapFund(s, item) \/ TapRepay(s, item) \/ TapCancel(s, item)
       PROVE  ScreenInv'
  <2>1. PICK kind \in {"Fund", "Repay", "Cancel"}, i \in shown : Sign(s, kind, i.address)
    BY <1>10 DEF TapFund, TapRepay, TapCancel
  <2> DEFINE tx == [kind |-> kind, address |-> i.address, outcome |-> "sent"]
  <2>2. tx \in Transaction /\ tx.outcome = "sent"
    BY <1>0 DEF Item, Transaction, Dealing, Outcomes
  <2>3. signed' = [signed EXCEPT ![s] = tx] /\ UNCHANGED <<vars, answers, shown, word>>
    BY <2>1 DEF Sign
  <2> HIDE DEF tx
  <2> QED BY <2>2, <2>3, SignedStays
<1> QED
  BY <1>1, <1>2, <1>3, <1>4, <1>5, <1>6, <1>7, <1>8, <1>9, <1>10 DEF AppNext, App

\* Whatever the order of answers, marks, other wallets' steps and transactions
\* refused or overtaken, for any number of offers, answers and transactions in
\* flight: short of a guess the screen says of a debt what the chain has been
\* through, and what was told since the offer last changed is what it shows.
THEOREM ScreenKeepsItsWord == AppSpec => []ScreenKeepsUp
<1>1. AppInit => ScreenInv
  BY ScreenInit
<1>2. ScreenInv /\ [AppNext]_allVars => ScreenInv'
  BY ScreenNext
<1>3. ScreenInv => ScreenKeepsUp
  BY DEF ScreenInv
<1> QED BY <1>1, <1>2, <1>3, PTL DEF AppSpec
=============================================================================
