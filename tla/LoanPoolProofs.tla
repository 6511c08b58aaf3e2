--------------------------- MODULE LoanPoolProofs ---------------------------
(***************************************************************************)
(* What is proved of LoanPool for every set of users and loan ids, every   *)
(* grace period, tier, price scale and every input: the inductive          *)
(* invariant PoolInv, the safety properties it contains, that settled      *)
(* loans stay settled, and that the pool implements PawnPromise.           *)
(*                                                                         *)
(* Order of the argument: amounts the handlers compute; TypeOK action by   *)
(* action; the four shapes a step can have for a loan order (LoanSteps);   *)
(* one preservation lemma per conjunct of PoolInv; the theorems.  Then     *)
(* what LoanPool counts, loans, bonds and principal: a sum over the loans  *)
(* is the cardinality of a set of units (UnitSums).  No assumption says    *)
(* that there are finitely many users; only finitely many loans are taken. *)
(***************************************************************************)
EXTENDS LoanPoolPawn, UnitSums, FiniteSetTheorems, TLAPS

\* Integer division of naturals by a positive divisor is a natural (u64 division).
LEMMA DivNat == ASSUME NEW x \in Nat, NEW y \in Nat \ {0} PROVE x \div y \in Nat
OBVIOUS

\* The three parts into which process_borrow splits the principal (net to the
\* borrower, treasury fee, stakers' share) never add up to more than the principal.
LEMMA FeeBounds ==
    ASSUME NEW x \in Nat, NEW m, NEW r
    PROVE  /\ OriginationFee(m, x) \in Nat
           /\ OriginationFee(m, x) <= x
           /\ TreasuryFee(OriginationFee(m, x), r) \in Nat
           /\ YieldPaid(OriginationFee(m, x), r) \in Nat
           /\ Monus(x, OriginationFee(m, x)) \in Nat
           /\ Monus(x, OriginationFee(m, x))
                + TreasuryFee(OriginationFee(m, x), r)
                + YieldPaid(OriginationFee(m, x), r) <= x
BY DEF OriginationFee, TreasuryFee, YieldPaid, YieldDividend, Monus

\* The interest of process_borrow is a natural number.
LEMMA InterestNat ==
    ASSUME NEW x \in Nat, NEW r \in Nat, NEW d \in Nat
    PROVE  InterestDue(x, r, d) \in Nat
<1>1. x * r * d \in Nat
  OBVIOUS
<1>2. 10000 * Year \in Nat \ {0}
  BY ParameterAssumption
<1>3. QED
  BY <1>1, <1>2, DivNat DEF InterestDue

\* The discounted rate of process_borrow is a natural number.
LEMMA RateNat ==
    ASSUME TypeOK, NEW u \in Users, NEW w
    PROVE  EffectiveRate(u, w) \in Nat
BY DEF TypeOK, Terms, EffectiveRate, Monus

\* The bond process_borrow locks is a natural number.
LEMMA BondNat ==
    ASSUME TypeOK, NEW u \in Users, NEW w
    PROVE  BondToLock(u, w) \in Nat
BY ParameterAssumption DEF BondToLock

\* A loan account that does not exist yet reads as a well-typed order.
LEMMA NoLoanType == NoLoan \in LoanOrder
BY DEF NoLoan, LoanOrder, Mints

\* The initial state is well typed.
LEMMA InitType == Init => TypeOK
<1> SUFFICES ASSUME Init PROVE TypeOK
  OBVIOUS
<1>1. liq \in [Holders -> Nat]
  BY InputAssumption DEF Init
<1>2. coll \in [Mints -> [Holders -> Nat]]
  BY InputAssumption DEF Init
<1>3. loan \in [Loans -> LoanOrder]
  BY NoLoanType DEF Init
<1>4. profile \in [Users -> UserProfile]
  BY DEF Init, NoProfile, UserProfile
<1>5. terms \in Terms
  BY DEF Init, NoPool, Terms
<1> QED
  BY <1>1, <1>2, <1>3, <1>4, <1>5 DEF Init, TypeOK

\* process_initialize_pool, process_deposit_liquidity and
\* process_withdraw_liquidity keep every field in its range.
LEMMA LendType ==
    ASSUME TypeOK, Lend
    PROVE  TypeOK'
<1> USE DEF TypeOK, Holders
<1>1. ASSUME NEW t \in PoolTerms, InitializePool(t) PROVE TypeOK'
  BY <1>1, InputAssumption DEF InitializePool
<1>2. ASSUME NEW x \in LiquidityAmounts, DepositLiquidity(x) PROVE TypeOK'
  BY <1>2, InputAssumption, ActorAssumption DEF DepositLiquidity
<1>3. ASSUME NEW x \in LiquidityAmounts, WithdrawLiquidity(x) PROVE TypeOK'
  BY <1>3, InputAssumption, ActorAssumption DEF WithdrawLiquidity, Monus
<1> QED
  BY <1>1, <1>2, <1>3 DEF Lend

\* A profile with one field overwritten by a value of its type is a profile.
LEMMA ProfileUpdate ==
    ASSUME NEW p \in UserProfile, NEW n \in Nat
    PROVE  /\ [p EXCEPT !.staked_skr = n] \in UserProfile
           /\ [p EXCEPT !.locked_skr = n] \in UserProfile
           /\ [p EXCEPT !.reputation_score = n] \in UserProfile
           /\ [p EXCEPT !.total_loans_completed = n] \in UserProfile
           /\ [p EXCEPT !.total_loans_defaulted = n] \in UserProfile
           /\ [p EXCEPT !.is_initialized = TRUE] \in UserProfile
BY DEF UserProfile

\* The profile process_stake_skr creates is well typed.
LEMMA NewProfileType == NewProfile \in UserProfile
<1> DEFINE q == [NoProfile EXCEPT !.is_initialized = TRUE]
<1>1. NoProfile \in UserProfile
  BY DEF NoProfile, UserProfile
<1>2. q \in UserProfile
  BY <1>1, ProfileUpdate
<1> DEFINE score == 10000
<1>3. NewProfile = [q EXCEPT !.reputation_score = score] /\ score \in Nat
  BY DEF NewProfile
<1> HIDE DEF q, score
<1> QED
  BY <1>2, <1>3, ProfileUpdate

\* process_stake_skr and process_unstake_skr keep every field in its range.
LEMMA StakeType ==
    ASSUME TypeOK, Stake
    PROVE  TypeOK'
<1> USE DEF TypeOK, Holders
<1>1. ASSUME NEW u \in Users, NEW x \in StakeAmounts, NEW w \in BOOLEAN,
             StakeSkr(u, x, w)
      PROVE  TypeOK'
  <2>1. x \in Nat
    BY InputAssumption
  <2>2. coll' \in [Mints -> [Holders -> Nat]]
    BY <1>1, <2>1 DEF StakeSkr, Mints
  <2>3. profile' \in [Users -> UserProfile]
    <3> DEFINE p == IF profile[u].is_initialized THEN profile[u] ELSE NewProfile
    <3>1. NewProfile \in UserProfile
      BY NewProfileType
    <3>2. p \in UserProfile
      BY <3>1
    <3>3. p.staked_skr + x \in Nat
      BY <2>1, <3>2 DEF UserProfile
    <3>4. profile' = [profile EXCEPT ![u] = [p EXCEPT !.staked_skr = @ + x]]
      BY <1>1 DEF StakeSkr
    <3> HIDE DEF p
    <3>5. [p EXCEPT !.staked_skr = @ + x] \in UserProfile
      BY <3>2, <3>3, ProfileUpdate
    <3> QED
      BY <3>4, <3>5
  <2>4. staked_skr_amount' \in Nat /\ skr_escrow' \in [Users -> Nat]
    BY <1>1, <2>1 DEF StakeSkr
  <2>5. UNCHANGED <<now, terms, total_liquidity, total_borrowed,
                    loans_originated, loans_repaid, loan, liq, escrow>>
    BY <1>1 DEF StakeSkr
  <2> QED
    BY <2>2, <2>3, <2>4, <2>5
<1>2. ASSUME NEW u \in Users, NEW x \in StakeAmounts, NEW w \in BOOLEAN,
             UnstakeSkr(u, x, w)
      PROVE  TypeOK'
  <2>1. x \in Nat
    BY InputAssumption
  <2>2. coll' \in [Mints -> [Holders -> Nat]]
    BY <1>2, <2>1 DEF UnstakeSkr, Mints
  <2>3. profile' \in [Users -> UserProfile]
    BY <1>2, <2>1 DEF UnstakeSkr, UserProfile
  <2>4. staked_skr_amount' \in Nat /\ skr_escrow' \in [Users -> Nat]
    BY <1>2, <2>1 DEF UnstakeSkr, Monus
  <2>5. UNCHANGED <<now, terms, total_liquidity, total_borrowed,
                    loans_originated, loans_repaid, loan, liq, escrow>>
    BY <1>2 DEF UnstakeSkr
  <2> QED
    BY <2>2, <2>3, <2>4, <2>5
<1> QED
  BY <1>1, <1>2 DEF Stake

\* process_borrow keeps every field in its range.
LEMMA BorrowType ==
    ASSUME TypeOK, NEW l \in Loans, NEW x \in BorrowAmounts, NEW m \in Mints,
           NEW c \in CollateralAmounts, NEW d \in Durations,
           NEW p \in Prices, NEW w \in BOOLEAN, NEW r \in YieldRoutes,
           Borrow(l, x, m, c, d, p, w, r)
    PROVE  TypeOK'
<1> USE DEF TypeOK, Holders
<1> DEFINE u == Borrower(l)
           fee == OriginationFee(m, x)
           tfee == TreasuryFee(fee, r)
           paid == YieldPaid(fee, r)
           net == Monus(x, fee)
           bond == BondToLock(u, w)
           interest == InterestDue(x, EffectiveRate(u, w), d)
<1>1. x \in Nat /\ c \in Nat /\ d \in Nat
  BY InputAssumption
<1>2. u \in Users
  BY DEF Loans, Borrower
<1>3. /\ net \in Nat /\ tfee \in Nat /\ paid \in Nat
      /\ net + tfee + paid <= x
  BY <1>1, FeeBounds
<1>4. bond \in Nat /\ interest \in Nat
  BY <1>1, <1>2, BondNat, RateNat, InterestNat
<1>5. liq["vault"] >= x /\ coll[m][u] >= c
  BY DEF Borrow, BorrowGuard
<1> HIDE DEF u, fee, tfee, paid, net, bond, interest
<1>6. coll' = [coll EXCEPT ![m][u] = @ - c]
  BY DEF Borrow, u
<1>7. coll' \in [Mints -> [Holders -> Nat]]
  BY <1>6, <1>1, <1>2, <1>5
<1>8. escrow' \in [Loans -> Nat]
  BY <1>1 DEF Borrow
<1>9. liq' = [liq EXCEPT !["vault"] = @ - (net + tfee + paid), ![u] = @ + net,
                         !["treasury"] = @ + tfee, !["yield"] = @ + paid]
  BY DEF Borrow, u, fee, tfee, paid, net
<1>10. liq' \in [Holders -> Nat]
  BY <1>9, <1>2, <1>3, <1>5, <1>1, ActorAssumption
<1>11. profile' = [profile EXCEPT ![u].locked_skr = @ + bond]
  BY DEF Borrow, u, bond
<1>12. profile' \in [Users -> UserProfile]
  BY <1>11, <1>2, <1>4 DEF UserProfile
<1>13. NewLoan(l, x, m, c, d, w) \in LoanOrder
  BY <1>1, <1>4 DEF NewLoan, LoanOrder, u, bond, interest
<1>14. loan' \in [Loans -> LoanOrder]
  BY <1>13 DEF Borrow
<1>15. total_liquidity' \in Nat /\ total_borrowed' \in Nat
          /\ loans_originated' \in Nat
  BY <1>1 DEF Borrow, Monus
<1>16. UNCHANGED <<now, terms, loans_repaid, staked_skr_amount, skr_escrow>>
  BY DEF Borrow
<1> QED
  BY <1>7, <1>8, <1>10, <1>12, <1>14, <1>15, <1>16

\* What process_repay_loan and process_claim_default compute: lender share and
\* protocol fee add up to the debt, and the 5% margin is part of the collateral.
LEMMA SettleAmounts ==
    ASSUME TypeOK, NEW l \in Loans
    PROVE  /\ TotalDue(l) \in Nat
           /\ LenderRepay(l) \in Nat
           /\ ProtocolFee(loan[l].interest_due) \in Nat
           /\ LenderRepay(l) + ProtocolFee(loan[l].interest_due) = TotalDue(l)
           /\ LiquidationMargin(loan[l].collateral_amount) \in Nat
           /\ LiquidationMargin(loan[l].collateral_amount)
                <= loan[l].collateral_amount
           /\ Monus(loan[l].collateral_amount,
                    LiquidationMargin(loan[l].collateral_amount)) \in Nat
<1>1. /\ loan[l].principal_amount \in Nat
      /\ loan[l].interest_due \in Nat
      /\ loan[l].collateral_amount \in Nat
  BY DEF TypeOK, LoanOrder
<1>2. /\ ProtocolFee(loan[l].interest_due) \in Nat
      /\ ProtocolFee(loan[l].interest_due) <= loan[l].interest_due
  BY <1>1 DEF ProtocolFee
<1>3. /\ LiquidationMargin(loan[l].collateral_amount) \in Nat
      /\ LiquidationMargin(loan[l].collateral_amount)
           <= loan[l].collateral_amount
  BY <1>1 DEF LiquidationMargin
<1> QED
  BY <1>1, <1>2, <1>3 DEF TotalDue, LenderRepay, Monus

\* A token transfer keeps balances natural.
LEMMA CreditType ==
    ASSUME NEW c \in [Mints -> [Holders -> Nat]], NEW m \in Mints,
           NEW h \in Holders, NEW x \in Nat
    PROVE  Credit(c, m, h, x) \in [Mints -> [Holders -> Nat]]
BY DEF Credit

\* The profile update of a repayment yields a profile.
LEMMA CreditedType ==
    ASSUME NEW p \in UserProfile, NEW bond \in Nat
    PROVE  CreditedProfile(p, bond) \in UserProfile
<1> DEFINE n == p.total_loans_completed + 1
           score == Least(p.reputation_score + 50, 10000)
           lock == Monus(p.locked_skr, bond)
           q1 == [p EXCEPT !.total_loans_completed = n]
           q2 == [q1 EXCEPT !.reputation_score = score]
           q3 == [q2 EXCEPT !.locked_skr = lock]
<1>1. CreditedProfile(p, bond) = q3
  BY DEF CreditedProfile
<1>2. n \in Nat /\ score \in Nat /\ lock \in Nat
  BY DEF UserProfile, Monus, Least
<1> HIDE DEF n, score, lock
<1>3. q1 \in UserProfile
  BY <1>2, ProfileUpdate
<1>4. q2 \in UserProfile
  <2> HIDE DEF q1
  <2> QED BY <1>2, <1>3, ProfileUpdate
<1>5. q3 \in UserProfile
  <2> HIDE DEF q2
  <2> QED BY <1>2, <1>4, ProfileUpdate
<1> QED
  BY <1>1, <1>5

\* The slash of process_claim_default never exceeds the stake.
LEMMA SlashBounds ==
    ASSUME NEW p \in UserProfile, NEW bond \in Nat
    PROVE  SlashAmount(p, bond) \in Nat /\ SlashAmount(p, bond) <= p.staked_skr
BY DEF SlashAmount, UserProfile, Monus, Least, Greatest

\* The profile update of a default yields a profile.
LEMMA DebitedType ==
    ASSUME NEW p \in UserProfile, NEW bond \in Nat
    PROVE  DebitedProfile(p, bond) \in UserProfile
<1> DEFINE n == p.total_loans_defaulted + 1
           score == Monus(p.reputation_score, 1000)
           left == Monus(p.staked_skr, SlashAmount(p, bond))
           lock == Monus(p.locked_skr, bond)
           q1 == [p EXCEPT !.total_loans_defaulted = n]
           q2 == [q1 EXCEPT !.reputation_score = score]
           q3 == [q2 EXCEPT !.staked_skr = left]
           q4 == [q3 EXCEPT !.locked_skr = lock]
<1>1. DebitedProfile(p, bond) = q4
  BY DEF DebitedProfile
<1>2. n \in Nat /\ score \in Nat /\ left \in Nat /\ lock \in Nat
  BY SlashBounds DEF UserProfile, Monus
<1> HIDE DEF n, score, left, lock
<1>3. q1 \in UserProfile
  BY <1>2, ProfileUpdate
<1>4. q2 \in UserProfile
  <2> HIDE DEF q1
  <2> QED BY <1>2, <1>3, ProfileUpdate
<1>5. q3 \in UserProfile
  <2> HIDE DEF q2
  <2> QED BY <1>2, <1>4, ProfileUpdate
<1>6. q4 \in UserProfile
  <2> HIDE DEF q3
  <2> QED BY <1>2, <1>5, ProfileUpdate
<1> QED
  BY <1>1, <1>6

\* process_repay_loan keeps every field in its range.
LEMMA RepayType ==
    ASSUME TypeOK, NEW l \in Loans, NEW w \in BOOLEAN, RepayLoan(l, w)
    PROVE  TypeOK'
<1> USE DEF TypeOK, Holders
<1> DEFINE u == Borrower(l)
           lo == loan[l]
           due == TotalDue(l)
           back == LenderRepay(l)
           fee == ProtocolFee(lo.interest_due)
<1>1. u \in Users /\ lo \in LoanOrder
  BY DEF Loans, Borrower
<1>2. /\ lo.collateral_mint \in Mints /\ lo.collateral_amount \in Nat
      /\ lo.principal_amount \in Nat /\ lo.locked_skr \in Nat
  BY <1>1 DEF LoanOrder
<1>3. due \in Nat /\ back \in Nat /\ fee \in Nat
  BY SettleAmounts
<1>4. liq[u] >= due /\ escrow[l] >= lo.collateral_amount
  BY DEF RepayLoan
<1>5. loan' = [loan EXCEPT ![l].status = "Repaid", ![l].is_active = FALSE,
                           ![l].locked_skr = 0]
  BY DEF RepayLoan
<1>6. liq' = [liq EXCEPT ![u] = @ - due, !["vault"] = @ + back,
                         !["treasury"] = @ + fee]
  BY DEF RepayLoan
<1>7. /\ escrow' = [escrow EXCEPT ![l] = @ - lo.collateral_amount]
      /\ coll' = [coll EXCEPT ![lo.collateral_mint][u] = @ + lo.collateral_amount]
  BY DEF RepayLoan
<1>8. profile' = IF w THEN [profile EXCEPT ![u] = CreditedProfile(@, lo.locked_skr)]
                 ELSE profile
  BY DEF RepayLoan
<1>9. /\ total_liquidity' = total_liquidity + back
      /\ total_borrowed' = Monus(total_borrowed, lo.principal_amount)
      /\ loans_repaid' = loans_repaid + 1
  BY DEF RepayLoan
<1>10. UNCHANGED <<now, terms, loans_originated, staked_skr_amount, skr_escrow>>
  BY DEF RepayLoan
<1>11. CreditedProfile(profile[u], lo.locked_skr) \in UserProfile
  BY <1>1, <1>2, CreditedType
<1> HIDE DEF u, due, back, fee
<1>12. loan' \in [Loans -> LoanOrder]
  BY <1>1, <1>5 DEF LoanOrder
<1>13. liq' \in [Holders -> Nat]
  BY <1>1, <1>3, <1>4, <1>6, ActorAssumption
<1>14. escrow' \in [Loans -> Nat] /\ coll' \in [Mints -> [Holders -> Nat]]
  BY <1>1, <1>2, <1>4, <1>7
<1>15. profile' \in [Users -> UserProfile]
  BY <1>1, <1>8, <1>11
<1>16. total_liquidity' \in Nat /\ total_borrowed' \in Nat /\ loans_repaid' \in Nat
  BY <1>2, <1>3, <1>9 DEF Monus
<1> QED
  BY <1>10, <1>12, <1>13, <1>14, <1>15, <1>16

\* process_trigger_grace_period keeps every field in its range.
LEMMA TriggerType ==
    ASSUME TypeOK, NEW l \in Loans, NEW caller, TriggerGracePeriod(caller, l)
    PROVE  TypeOK'
<1>1. loan' = [loan EXCEPT ![l].status = "InGracePeriod",
                           ![l].grace_period_expires = now + GracePeriod]
  BY DEF TriggerGracePeriod, MayTriggerGrace
<1>2. now + GracePeriod \in Nat /\ loan[l] \in LoanOrder
  BY ParameterAssumption DEF TypeOK
<1>3. loan' \in [Loans -> LoanOrder]
  BY <1>1, <1>2 DEF TypeOK, LoanOrder
<1> QED
  BY <1>3 DEF TypeOK, TriggerGracePeriod, MayTriggerGrace, poolVars

\* process_claim_default keeps every field in its range.
LEMMA ClaimType ==
    ASSUME TypeOK, NEW l \in Loans, NEW w \in BOOLEAN,
           NEW dest \in Holders, NEW sd \in Holders, ClaimDefault(l, w, dest, sd)
    PROVE  TypeOK'
<1> USE DEF TypeOK
<1> DEFINE u == Borrower(l)
           lo == loan[l]
           m == lo.collateral_mint
           margin == LiquidationMargin(lo.collateral_amount)
           net == Monus(lo.collateral_amount, margin)
           slash == IF w THEN SlashAmount(profile[u], lo.locked_skr) ELSE 0
<1>1. u \in Users /\ lo \in LoanOrder
  BY DEF Loans, Borrower
<1>2. /\ m \in Mints /\ lo.collateral_amount \in Nat
      /\ lo.principal_amount \in Nat /\ lo.locked_skr \in Nat
  BY <1>1 DEF LoanOrder
<1>3. margin \in Nat /\ net \in Nat
  BY SettleAmounts
<1>4. slash \in Nat
  BY <1>1, <1>2, SlashBounds
<1>5. escrow[l] >= lo.collateral_amount /\ skr_escrow[u] >= slash
  BY DEF ClaimDefault, MayClaim, Slashed
<1>6. /\ escrow' = [escrow EXCEPT ![l] = @ - lo.collateral_amount]
      /\ skr_escrow' = [skr_escrow EXCEPT ![u] = @ - slash]
  BY DEF ClaimDefault, MayClaim, Slashed
<1>7. coll' = Credit(Credit(Credit(coll, m, dest, net), m, "treasury", margin),
                     "SKR", sd, slash)
  BY DEF ClaimDefault, MayClaim, Slashed
<1>8. profile' = IF w THEN [profile EXCEPT ![u] = DebitedProfile(@, lo.locked_skr)]
                 ELSE profile
  BY DEF ClaimDefault, MayClaim, Slashed
<1>9. loan' = [loan EXCEPT ![l].status = "Defaulted", ![l].is_active = FALSE,
                           ![l].locked_skr = 0]
  BY DEF ClaimDefault, MayClaim, Slashed
<1>10. /\ total_borrowed' = Monus(total_borrowed, lo.principal_amount)
       /\ UNCHANGED <<now, terms, total_liquidity, loans_originated, loans_repaid,
                      staked_skr_amount, liq>>
  BY DEF ClaimDefault, MayClaim, Slashed
<1>11. DebitedProfile(profile[u], lo.locked_skr) \in UserProfile
  BY <1>1, <1>2, DebitedType
<1> HIDE DEF u, m, margin, net, slash
<1>12. loan' \in [Loans -> LoanOrder]
  BY <1>1, <1>9 DEF LoanOrder
<1>13. escrow' \in [Loans -> Nat] /\ skr_escrow' \in [Users -> Nat]
  BY <1>1, <1>2, <1>4, <1>5, <1>6
<1>14. "treasury" \in Holders /\ "SKR" \in Mints
  BY DEF Holders, Mints
<1>15. coll' \in [Mints -> [Holders -> Nat]]
  <2>1. Credit(coll, m, dest, net) \in [Mints -> [Holders -> Nat]]
    BY <1>2, <1>3, CreditType
  <2>2. Credit(Credit(coll, m, dest, net), m, "treasury", margin)
           \in [Mints -> [Holders -> Nat]]
    BY <1>2, <1>3, <1>14, <2>1, CreditType
  <2> QED
    BY <1>4, <1>7, <1>14, <2>2, CreditType
<1>16. profile' \in [Users -> UserProfile]
  BY <1>1, <1>8, <1>11
<1>17. total_borrowed' \in Nat
  BY <1>2, <1>10 DEF Monus
<1> QED
  BY <1>10, <1>12, <1>13, <1>15, <1>16, <1>17

\* A donation to the vault or to a stake escrow keeps balances natural.
LEMMA DonateType ==
    ASSUME TypeOK, Donate
    PROVE  TypeOK'
<1> USE DEF TypeOK, Holders
<1>1. ASSUME NEW u \in Donors, NEW x \in LiquidityAmounts, DonateToVault(u, x)
      PROVE  TypeOK'
  BY <1>1, InputAssumption, ActorAssumption DEF DonateToVault, poolVars
<1>2. ASSUME NEW u \in Donors, NEW x \in StakeAmounts, NEW v \in Users,
             DonateToStakeEscrow(u, v, x)
      PROVE  TypeOK'
  <2>1. x \in Nat /\ u \in Users
    BY InputAssumption
  <2>2. coll' \in [Mints -> [Holders -> Nat]]
    BY <1>2, <2>1 DEF DonateToStakeEscrow, Mints
  <2> QED
    BY <1>2, <2>1, <2>2 DEF DonateToStakeEscrow, poolVars
<1> QED
  BY <1>1, <1>2 DEF Donate

\* Every step keeps every field in its range.
LEMMA NextType ==
    ASSUME TypeOK, [Next]_vars
    PROVE  TypeOK'
<1>1. CASE Lend
  BY <1>1, LendType
<1>2. CASE Stake
  BY <1>2, StakeType
<1>3. CASE TakeLoan
  BY <1>3, BorrowType DEF TakeLoan
<1>4. CASE Settle
  BY <1>4, RepayType, TriggerType, ClaimType DEF Settle
<1>5. CASE Donate
  BY <1>5, DonateType
<1>6. CASE Tick
  BY <1>6 DEF TypeOK, Tick, poolVars
<1>7. CASE UNCHANGED vars
  BY <1>7 DEF TypeOK, vars, poolVars
<1> QED
  BY <1>1, <1>2, <1>3, <1>4, <1>5, <1>6, <1>7 DEF Next

\* In every reachable state every account field is in the range of its Rust
\* type, so no checked_sub of the handlers can fail for want of tokens.
THEOREM TypeCorrect == Spec => []TypeOK
<1>1. Init => TypeOK
  BY InitType
<1>2. TypeOK /\ [Next]_vars => TypeOK'
  BY NextType
<1> QED
  BY <1>1, <1>2, PTL DEF Spec

-----------------------------------------------------------------------------
(* What a step does to the loan orders and their escrows. *)

\* The three ways a step changes an order, and that it changes no other.
Opened(l) ==
    /\ loan[l].status = "None" /\ loan'[l].status = "Active"
    /\ loan'[l].is_active = TRUE
    /\ loan'[l].collateral_amount > 0
    /\ escrow'[l] >= loan'[l].collateral_amount
    /\ loan'[l].due_time >= now
Graced(l) ==
    /\ loan[l].status = "Active" /\ loan'[l].status = "InGracePeriod"
    /\ now >= loan[l].due_time
    /\ loan'[l].is_active = loan[l].is_active
    /\ loan'[l].collateral_amount = loan[l].collateral_amount
    /\ loan'[l].due_time = loan[l].due_time
    /\ loan'[l].grace_period_expires = now + GracePeriod
    /\ escrow'[l] = escrow[l]
Closed(l) ==
    /\ \/ loan[l].is_active /\ loan'[l].status = "Repaid"
       \/ /\ loan[l].status = "InGracePeriod"
          /\ now >= loan[l].grace_period_expires
          /\ loan'[l].status = "Defaulted"
    /\ loan'[l].is_active = FALSE
    /\ loan'[l].locked_skr = 0
    /\ loan'[l].due_time = loan[l].due_time
OnlyLoan(l) ==
    /\ l \in Loans
    /\ loan' = [loan EXCEPT ![l] = loan'[l]]
    /\ escrow' = [escrow EXCEPT ![l] = escrow'[l]]

\* process_borrow writes only its own, new order and fills only its escrow.
LEMMA BorrowOpens ==
    ASSUME TypeOK, NEW l \in Loans, NEW x \in BorrowAmounts, NEW m \in Mints,
           NEW c \in CollateralAmounts, NEW d \in Durations,
           NEW p \in Prices, NEW w \in BOOLEAN, NEW r \in YieldRoutes,
           Borrow(l, x, m, c, d, p, w, r)
    PROVE  OnlyLoan(l) /\ Opened(l) /\ now' = now
<1>1. c \in Nat /\ d \in Nat /\ now \in Nat /\ escrow[l] \in Nat
  BY InputAssumption DEF TypeOK
<1>2. loan' = [loan EXCEPT ![l] = NewLoan(l, x, m, c, d, w)]
  BY DEF Borrow
<1>3. escrow' = [escrow EXCEPT ![l] = @ + c]
  BY DEF Borrow
<1>4. c > 0 /\ loan[l].status = "None" /\ now' = now
  BY DEF Borrow, BorrowGuard
<1>5. OnlyLoan(l)
  BY <1>2, <1>3 DEF OnlyLoan, TypeOK
<1>6. loan'[l] = NewLoan(l, x, m, c, d, w) /\ escrow'[l] = escrow[l] + c
  BY <1>2, <1>3 DEF TypeOK
<1>7. Opened(l)
  BY <1>1, <1>4, <1>6 DEF Opened, NewLoan
<1> QED
  BY <1>4, <1>5, <1>7

\* process_trigger_grace_period touches only its order and moves no collateral.
LEMMA TriggerGraces ==
    ASSUME TypeOK, NEW l \in Loans, NEW caller, TriggerGracePeriod(caller, l)
    PROVE  OnlyLoan(l) /\ Graced(l) /\ now' = now
<1>1. loan' = [loan EXCEPT ![l].status = "InGracePeriod",
                           ![l].grace_period_expires = now + GracePeriod]
  BY DEF TriggerGracePeriod, MayTriggerGrace
<1>2. /\ loan[l].status = "Active" /\ now >= loan[l].due_time
      /\ UNCHANGED <<now, escrow>>
  BY DEF TriggerGracePeriod, MayTriggerGrace
<1>3. loan[l] \in LoanOrder
  BY DEF TypeOK
<1>4. Graced(l)
  BY <1>1, <1>2, <1>3 DEF Graced, TypeOK, LoanOrder
<1>5. OnlyLoan(l)
  BY <1>1, <1>2 DEF OnlyLoan, TypeOK
<1> QED
  BY <1>2, <1>4, <1>5

\* process_repay_loan closes only its order.
LEMMA RepayCloses ==
    ASSUME TypeOK, NEW l \in Loans, NEW w \in BOOLEAN, RepayLoan(l, w)
    PROVE  OnlyLoan(l) /\ Closed(l) /\ now' = now
<1>1. loan' = [loan EXCEPT ![l].status = "Repaid", ![l].is_active = FALSE,
                           ![l].locked_skr = 0]
  BY DEF RepayLoan
<1>2. /\ loan[l].is_active /\ now' = now
      /\ escrow' = [escrow EXCEPT ![l] = @ - loan[l].collateral_amount]
  BY DEF RepayLoan
<1>3. loan[l] \in LoanOrder
  BY DEF TypeOK
<1>4. Closed(l)
  BY <1>1, <1>2, <1>3 DEF Closed, TypeOK, LoanOrder
<1>5. OnlyLoan(l)
  BY <1>1, <1>2 DEF OnlyLoan, TypeOK
<1> QED
  BY <1>2, <1>4, <1>5

\* process_claim_default closes only its order, after grace has run out.
LEMMA ClaimCloses ==
    ASSUME TypeOK, NEW l \in Loans, NEW w \in BOOLEAN,
           NEW dest \in Holders, NEW sd \in Holders, ClaimDefault(l, w, dest, sd)
    PROVE  OnlyLoan(l) /\ Closed(l) /\ now' = now
<1>1. loan' = [loan EXCEPT ![l].status = "Defaulted", ![l].is_active = FALSE,
                           ![l].locked_skr = 0]
  BY DEF ClaimDefault, MayClaim, Slashed
<1>2. /\ loan[l].status = "InGracePeriod" /\ now >= loan[l].grace_period_expires
      /\ escrow' = [escrow EXCEPT ![l] = @ - loan[l].collateral_amount]
      /\ now' = now
  BY DEF ClaimDefault, MayClaim, Slashed
<1>3. loan[l] \in LoanOrder
  BY DEF TypeOK
<1>4. Closed(l)
  BY <1>1, <1>2, <1>3 DEF Closed, TypeOK, LoanOrder
<1>5. OnlyLoan(l)
  BY <1>1, <1>2 DEF OnlyLoan, TypeOK
<1> QED
  BY <1>2, <1>4, <1>5

\* Every step leaves all orders and escrows alone, or opens, graces or closes
\* exactly one of them.
LEMMA LoanSteps ==
    ASSUME TypeOK, [Next]_vars
    PROVE  \/ UNCHANGED <<loan, escrow>> /\ (now' = now \/ now' = now + 1)
           \/ /\ now' = now
              /\ \E l \in Loans :
                    OnlyLoan(l) /\ (Opened(l) \/ Graced(l) \/ Closed(l))
<1>1. CASE Lend
  BY <1>1 DEF Lend, InitializePool, DepositLiquidity, WithdrawLiquidity
<1>2. CASE Stake
  BY <1>2 DEF Stake, StakeSkr, UnstakeSkr
<1>3. CASE TakeLoan
  BY <1>3, BorrowOpens DEF TakeLoan
<1>4. CASE Settle
  BY <1>4, RepayCloses, TriggerGraces, ClaimCloses DEF Settle
<1>5. CASE Donate
  BY <1>5 DEF Donate, DonateToVault, DonateToStakeEscrow
<1>6. CASE Tick
  BY <1>6 DEF Tick
<1>7. CASE UNCHANGED vars
  BY <1>7 DEF vars
<1> QED
  BY <1>1, <1>2, <1>3, <1>4, <1>5, <1>6, <1>7 DEF Next

\* No step leaves a live loan short of collateral or its flags in disagreement.
LEMMA LoansStayBacked ==
    ASSUME TypeOK, TypeOK', LoansBacked, [Next]_vars
    PROVE  LoansBacked'
<1> SUFFICES ASSUME NEW k \in Loans PROVE LoanBacked(k)'
  BY DEF LoansBacked
<1>1. LoanBacked(k)
  BY DEF LoansBacked
<1>2. CASE UNCHANGED <<loan, escrow>>
  BY <1>1, <1>2 DEF LoanBacked, Live
<1>3. ASSUME NEW l \in Loans, OnlyLoan(l), Opened(l) \/ Graced(l) \/ Closed(l)
      PROVE  LoanBacked(k)'
  <2>1. CASE k # l
    <3>1. loan'[k] = loan[k] /\ escrow'[k] = escrow[k]
      BY <1>3, <2>1 DEF OnlyLoan, TypeOK
    <3> QED
      BY <1>1, <3>1 DEF LoanBacked, Live
  <2>2. CASE k = l
    BY <1>1, <1>3, <2>2 DEF LoanBacked, Live, Opened, Graced, Closed
  <2> QED
    BY <2>1, <2>2
<1> QED
  BY <1>2, <1>3, LoanSteps

\* No step starts a grace period that ends too early.
LEMMA GraceStaysAfterDue ==
    ASSUME TypeOK, GraceFollowsDue, [Next]_vars
    PROVE  GraceFollowsDue'
<1> SUFFICES ASSUME NEW k \in Loans, loan'[k].status = "InGracePeriod"
             PROVE  loan'[k].grace_period_expires
                        >= loan'[k].due_time + GracePeriod
  BY DEF GraceFollowsDue
<1>1. CASE UNCHANGED <<loan, escrow>>
  BY <1>1 DEF GraceFollowsDue
<1>2. ASSUME NEW l \in Loans, OnlyLoan(l), Opened(l) \/ Graced(l) \/ Closed(l)
      PROVE  loan'[k].grace_period_expires >= loan'[k].due_time + GracePeriod
  <2>1. CASE k # l
    <3>1. loan'[k] = loan[k]
      BY <1>2, <2>1 DEF OnlyLoan, TypeOK
    <3> QED
      BY <3>1 DEF GraceFollowsDue
  <2>2. CASE k = l
    <3>1. Graced(l)
      BY <1>2, <2>2 DEF Opened, Closed
    <3>2. now \in Nat /\ loan[l].due_time \in Nat
      BY DEF TypeOK, LoanOrder
    <3> QED
      BY <2>2, <3>1, <3>2, ParameterAssumption DEF Graced
  <2> QED
    BY <2>1, <2>2
<1> QED
  BY <1>1, <1>2, LoanSteps

-----------------------------------------------------------------------------
(* The vault pays for every change of total_liquidity. *)

\* No step takes more out of the vault than it subtracts from total_liquidity.
LEMMA VaultStaysCovered ==
    ASSUME TypeOK, VaultCoversLiquidity, [Next]_vars
    PROVE  VaultCoversLiquidity'
<1> USE DEF TypeOK, VaultCoversLiquidity, Holders
<1>0. ASSUME NEW u \in Users PROVE u # "vault" /\ u # "treasury" /\ u # "yield"
  BY ActorAssumption
<1>1. CASE Lend
  <2>1. ASSUME NEW t \in PoolTerms, InitializePool(t) PROVE VaultCoversLiquidity'
    BY <2>1 DEF InitializePool
  <2>2. ASSUME NEW x \in LiquidityAmounts, DepositLiquidity(x)
        PROVE  VaultCoversLiquidity'
    BY <2>2, <1>0, InputAssumption, ActorAssumption DEF DepositLiquidity
  <2>3. ASSUME NEW x \in LiquidityAmounts, WithdrawLiquidity(x)
        PROVE  VaultCoversLiquidity'
    BY <2>3, <1>0, InputAssumption, ActorAssumption DEF WithdrawLiquidity, Monus
  <2> QED
    BY <1>1, <2>1, <2>2, <2>3 DEF Lend
<1>2. CASE Stake
  BY <1>2 DEF Stake, StakeSkr, UnstakeSkr
<1>3. ASSUME NEW l \in Loans, NEW x \in BorrowAmounts, NEW m \in Mints,
             NEW c \in CollateralAmounts, NEW d \in Durations,
             NEW p \in Prices, NEW w \in BOOLEAN, NEW r \in YieldRoutes,
             Borrow(l, x, m, c, d, p, w, r)
      PROVE  VaultCoversLiquidity'
  <2> DEFINE u == Borrower(l)
             fee == OriginationFee(m, x)
             tfee == TreasuryFee(fee, r)
             paid == YieldPaid(fee, r)
             net == Monus(x, fee)
  <2>1. u \in Users /\ x \in Nat
    BY InputAssumption DEF Loans, Borrower
  <2>2. /\ net \in Nat /\ tfee \in Nat /\ paid \in Nat
        /\ net + tfee + paid <= x
    BY <2>1, FeeBounds
  <2>3. liq' = [liq EXCEPT !["vault"] = @ - (net + tfee + paid), ![u] = @ + net,
                           !["treasury"] = @ + tfee, !["yield"] = @ + paid]
    BY <1>3 DEF Borrow
  <2>4. total_liquidity' = Monus(total_liquidity, x) /\ total_liquidity >= x
    BY <1>3 DEF Borrow, BorrowGuard
  <2> HIDE DEF u, fee, tfee, paid, net
  <2>5. liq'["vault"] = liq["vault"] - (net + tfee + paid)
    BY <1>0, <2>1, <2>3
  <2> QED
    BY <2>1, <2>2, <2>4, <2>5 DEF Monus
<1>4. ASSUME NEW l \in Loans, NEW w \in BOOLEAN, RepayLoan(l, w)
      PROVE  VaultCoversLiquidity'
  <2> DEFINE u == Borrower(l)
             due == TotalDue(l)
             back == LenderRepay(l)
             fee == ProtocolFee(loan[l].interest_due)
  <2>1. u \in Users /\ back \in Nat
    BY SettleAmounts DEF Loans, Borrower
  <2>2. /\ liq' = [liq EXCEPT ![u] = @ - due, !["vault"] = @ + back,
                              !["treasury"] = @ + fee]
        /\ total_liquidity' = total_liquidity + back
    BY <1>4 DEF RepayLoan
  <2> HIDE DEF u, due, back, fee
  <2>3. liq'["vault"] = liq["vault"] + back
    BY <1>0, <2>1, <2>2
  <2> QED
    BY <2>1, <2>2, <2>3
<1>5. ASSUME NEW l \in Loans, NEW caller, TriggerGracePeriod(caller, l)
      PROVE  VaultCoversLiquidity'
  BY <1>5 DEF TriggerGracePeriod, MayTriggerGrace, poolVars
<1>6. ASSUME NEW l \in Loans, NEW w \in BOOLEAN, NEW dest \in Holders,
             NEW sd \in Holders, ClaimDefault(l, w, dest, sd)
      PROVE  VaultCoversLiquidity'
  BY <1>6 DEF ClaimDefault, MayClaim, Slashed
<1>7. CASE Donate
  <2>1. ASSUME NEW u \in Donors, NEW x \in LiquidityAmounts, DonateToVault(u, x)
        PROVE  VaultCoversLiquidity'
    BY <2>1, <1>0, InputAssumption DEF DonateToVault, poolVars
  <2>2. ASSUME NEW u, NEW v, NEW x, DonateToStakeEscrow(u, v, x)
        PROVE  VaultCoversLiquidity'
    BY <2>2 DEF DonateToStakeEscrow, poolVars
  <2> QED
    BY <1>7, <2>1, <2>2 DEF Donate
<1>8. CASE Tick
  BY <1>8 DEF Tick, poolVars
<1>9. CASE UNCHANGED vars
  BY <1>9 DEF vars, poolVars
<1> QED
  BY <1>1, <1>2, <1>3, <1>4, <1>5, <1>6, <1>7, <1>8, <1>9
     DEF Next, TakeLoan, Settle

-----------------------------------------------------------------------------
(* Stake and bonds. *)

\* After a slash the stake still covers the bonds of the other loans
\* (process_claim_default, the max_slashable clamp).
LEMMA SlashLeavesBonds ==
    ASSUME NEW p \in UserProfile, NEW bond \in Nat, p.locked_skr <= p.staked_skr
    PROVE  Monus(p.locked_skr, bond) <= p.staked_skr - SlashAmount(p, bond)
<1>1. p.locked_skr \in Nat /\ p.staked_skr \in Nat
  BY DEF UserProfile
<1> QED
  BY <1>1 DEF SlashAmount, Monus, Least, Greatest

\* The fields of a profile after a default.
LEMMA DebitedFields ==
    ASSUME NEW p \in UserProfile, NEW bond \in Nat
    PROVE  /\ DebitedProfile(p, bond).staked_skr
                = p.staked_skr - SlashAmount(p, bond)
           /\ DebitedProfile(p, bond).locked_skr = Monus(p.locked_skr, bond)
<1>1. Monus(p.staked_skr, SlashAmount(p, bond)) = p.staked_skr - SlashAmount(p, bond)
  BY SlashBounds DEF Monus, UserProfile
<1> QED
  BY <1>1 DEF DebitedProfile, UserProfile

\* The fields of a profile after a repayment.
LEMMA CreditedFields ==
    ASSUME NEW p \in UserProfile, NEW bond \in Nat
    PROVE  /\ CreditedProfile(p, bond).staked_skr = p.staked_skr
           /\ CreditedProfile(p, bond).locked_skr = Monus(p.locked_skr, bond)
BY DEF CreditedProfile, UserProfile

\* process_borrow locks only stake that is not locked yet.
LEMMA BondAvailable ==
    ASSUME TypeOK, StakeBacked, NEW u \in Users, NEW w
    PROVE  profile[u].locked_skr + BondToLock(u, w) <= profile[u].staked_skr
<1>1. profile[u].locked_skr \in Nat /\ profile[u].staked_skr \in Nat
  BY DEF TypeOK, UserProfile
<1> QED
  BY <1>1, ParameterAssumption DEF BondToLock, AvailableSkr, Monus, StakeBacked

\* No step lets bonds outgrow the stake or the stake outgrow its escrow.
LEMMA StakeStaysBacked ==
    ASSUME TypeOK, TypeOK', StakeBacked, [Next]_vars
    PROVE  StakeBacked'
<1> SUFFICES ASSUME NEW v \in Users
             PROVE  /\ profile'[v].locked_skr <= profile'[v].staked_skr
                    /\ profile'[v].staked_skr <= skr_escrow'[v]
  BY DEF StakeBacked
<1>a. /\ profile[v].locked_skr <= profile[v].staked_skr
      /\ profile[v].staked_skr <= skr_escrow[v]
  BY DEF StakeBacked
<1>b. /\ profile[v] \in UserProfile /\ profile'[v] \in UserProfile
      /\ profile[v].staked_skr \in Nat /\ profile[v].locked_skr \in Nat
      /\ skr_escrow[v] \in Nat /\ skr_escrow'[v] \in Nat
  BY DEF TypeOK, UserProfile
<1>1. CASE UNCHANGED <<profile, skr_escrow>>
  BY <1>1, <1>a
<1>2. ASSUME NEW u \in Users, NEW x \in StakeAmounts, NEW w \in BOOLEAN,
             StakeSkr(u, x, w)
      PROVE  /\ profile'[v].locked_skr <= profile'[v].staked_skr
             /\ profile'[v].staked_skr <= skr_escrow'[v]
  <2> DEFINE p == IF profile[u].is_initialized THEN profile[u] ELSE NewProfile
  <2>1. x \in Nat
    BY InputAssumption
  <2>2. /\ profile' = [profile EXCEPT ![u] = [p EXCEPT !.staked_skr = @ + x]]
        /\ skr_escrow' = [skr_escrow EXCEPT ![u] = @ + x]
    BY <1>2 DEF StakeSkr
  <2>3. CASE u = v
    <3>1. p \in UserProfile /\ p.locked_skr <= p.staked_skr
             /\ p.staked_skr <= skr_escrow[v]
      BY <1>a, <1>b, <2>3, NewProfileType DEF NewProfile, NoProfile
    <3> HIDE DEF p
    <3>2. profile'[v] = [p EXCEPT !.staked_skr = @ + x]
             /\ skr_escrow'[v] = skr_escrow[v] + x
      BY <2>2, <2>3 DEF TypeOK
    <3>3. profile'[v].staked_skr = p.staked_skr + x
             /\ profile'[v].locked_skr = p.locked_skr
      BY <3>1, <3>2 DEF UserProfile
    <3>4. p.staked_skr \in Nat /\ p.locked_skr \in Nat
      BY <3>1 DEF UserProfile
    <3> QED
      BY <1>b, <2>1, <3>1, <3>2, <3>3, <3>4
  <2>4. CASE u # v
    <3>1. profile'[v] = profile[v] /\ skr_escrow'[v] = skr_escrow[v]
      BY <2>2, <2>4 DEF TypeOK
    <3> QED
      BY <1>a, <3>1
  <2> QED
    BY <2>3, <2>4
<1>3. ASSUME NEW u \in Users, NEW x \in StakeAmounts, NEW w \in BOOLEAN,
             UnstakeSkr(u, x, w)
      PROVE  /\ profile'[v].locked_skr <= profile'[v].staked_skr
             /\ profile'[v].staked_skr <= skr_escrow'[v]
  <2>1. x \in Nat
    BY InputAssumption
  <2>2. /\ profile' = [profile EXCEPT ![u].staked_skr = @ - x]
        /\ skr_escrow' = [skr_escrow EXCEPT ![u] = @ - x]
        /\ Monus(profile[u].staked_skr, profile[u].locked_skr) >= x
    BY <1>3 DEF UnstakeSkr
  <2>3. CASE u = v
    <3>1. profile'[v].staked_skr = profile[v].staked_skr - x
             /\ profile'[v].locked_skr = profile[v].locked_skr
             /\ skr_escrow'[v] = skr_escrow[v] - x
      BY <1>b, <2>2, <2>3 DEF TypeOK, UserProfile
    <3> QED
      BY <1>a, <1>b, <2>1, <2>2, <2>3, <3>1 DEF Monus
  <2>4. CASE u # v
    <3>1. profile'[v] = profile[v] /\ skr_escrow'[v] = skr_escrow[v]
      BY <2>2, <2>4 DEF TypeOK
    <3> QED
      BY <1>a, <3>1
  <2> QED
    BY <2>3, <2>4
<1>4. ASSUME NEW l \in Loans, NEW x \in BorrowAmounts, NEW m \in Mints,
             NEW c \in CollateralAmounts, NEW d \in Durations,
             NEW p \in Prices, NEW w \in BOOLEAN, NEW r \in YieldRoutes,
             Borrow(l, x, m, c, d, p, w, r)
      PROVE  /\ profile'[v].locked_skr <= profile'[v].staked_skr
             /\ profile'[v].staked_skr <= skr_escrow'[v]
  <2> DEFINE u == Borrower(l)
             bond == BondToLock(u, w)
  <2>1. u \in Users /\ bond \in Nat
    BY BondNat DEF Loans, Borrower
  <2>2. profile' = [profile EXCEPT ![u].locked_skr = @ + bond]
           /\ skr_escrow' = skr_escrow
    BY <1>4 DEF Borrow
  <2>3. CASE u = v
    <3>1. profile[v].locked_skr + bond <= profile[v].staked_skr
      BY <2>1, <2>3, BondAvailable
    <3> HIDE DEF bond
    <3>2. profile'[v].locked_skr = profile[v].locked_skr + bond
             /\ profile'[v].staked_skr = profile[v].staked_skr
      BY <1>b, <2>2, <2>3 DEF TypeOK, UserProfile
    <3> QED
      BY <1>a, <2>2, <3>1, <3>2
  <2>4. CASE u # v
    <3>1. profile'[v] = profile[v] /\ skr_escrow'[v] = skr_escrow[v]
      BY <2>2, <2>4 DEF TypeOK
    <3> QED
      BY <1>a, <3>1
  <2> QED
    BY <2>3, <2>4
<1>5. ASSUME NEW l \in Loans, NEW w \in BOOLEAN, RepayLoan(l, w)
      PROVE  /\ profile'[v].locked_skr <= profile'[v].staked_skr
             /\ profile'[v].staked_skr <= skr_escrow'[v]
  <2> DEFINE u == Borrower(l)
             bond == loan[l].locked_skr
  <2>1. u \in Users /\ bond \in Nat
    BY DEF Loans, Borrower, TypeOK, LoanOrder
  <2>2. skr_escrow' = skr_escrow
           /\ profile' = IF w THEN [profile EXCEPT ![u] = CreditedProfile(@, bond)]
                         ELSE profile
    BY <1>5 DEF RepayLoan
  <2> HIDE DEF bond
  <2>3. CASE u = v /\ w
    <3>1. profile'[v] = CreditedProfile(profile[v], bond)
      BY <2>2, <2>3 DEF TypeOK
    <3>2. profile'[v].staked_skr = profile[v].staked_skr
             /\ profile'[v].locked_skr = Monus(profile[v].locked_skr, bond)
      BY <1>b, <2>1, <3>1, CreditedFields
    <3> QED
      BY <1>a, <1>b, <2>1, <2>2, <3>2 DEF Monus
  <2>4. CASE ~(u = v /\ w)
    <3>1. profile'[v] = profile[v] /\ skr_escrow'[v] = skr_escrow[v]
      BY <2>2, <2>4 DEF TypeOK
    <3> QED
      BY <1>a, <3>1
  <2> QED
    BY <2>3, <2>4
<1>6. ASSUME NEW l \in Loans, NEW w \in BOOLEAN, NEW dest \in Holders,
             NEW sd \in Holders, ClaimDefault(l, w, dest, sd)
      PROVE  /\ profile'[v].locked_skr <= profile'[v].staked_skr
             /\ profile'[v].staked_skr <= skr_escrow'[v]
  <2> DEFINE u == Borrower(l)
             bond == loan[l].locked_skr
             slash == IF w THEN SlashAmount(profile[u], bond) ELSE 0
  <2>1. u \in Users /\ bond \in Nat
    BY DEF Loans, Borrower, TypeOK, LoanOrder
  <2>2. /\ skr_escrow' = [skr_escrow EXCEPT ![u] = @ - slash]
        /\ profile' = IF w THEN [profile EXCEPT ![u] = DebitedProfile(@, bond)]
                      ELSE profile
    BY <1>6 DEF ClaimDefault, MayClaim, Slashed
  <2> HIDE DEF bond
  <2>3. CASE u = v /\ w
    <3> DEFINE amount == SlashAmount(profile[v], bond)
    <3>1. /\ profile'[v] = DebitedProfile(profile[v], bond)
          /\ skr_escrow'[v] = skr_escrow[v] - amount
      BY <2>2, <2>3 DEF TypeOK
    <3>2. profile'[v].staked_skr = profile[v].staked_skr - amount
             /\ profile'[v].locked_skr = Monus(profile[v].locked_skr, bond)
      BY <1>b, <2>1, <3>1, DebitedFields
    <3>3. amount \in Nat
             /\ Monus(profile[v].locked_skr, bond) <= profile[v].staked_skr - amount
      BY <1>a, <1>b, <2>1, SlashLeavesBonds, SlashBounds
    <3> HIDE DEF amount
    <3> QED
      BY <1>a, <1>b, <3>1, <3>2, <3>3
  <2>4. CASE ~(u = v /\ w)
    <3>1. profile'[v] = profile[v] /\ skr_escrow'[v] = skr_escrow[v]
      BY <1>b, <2>2, <2>4 DEF TypeOK
    <3> QED
      BY <1>a, <3>1
  <2> QED
    BY <2>3, <2>4
<1>7. ASSUME NEW u \in Donors, NEW y \in Users, NEW x \in StakeAmounts,
             DonateToStakeEscrow(u, y, x)
      PROVE  /\ profile'[v].locked_skr <= profile'[v].staked_skr
             /\ profile'[v].staked_skr <= skr_escrow'[v]
  <2>1. x \in Nat /\ profile' = profile
           /\ skr_escrow' = [skr_escrow EXCEPT ![y] = @ + x]
    BY <1>7, InputAssumption DEF DonateToStakeEscrow
  <2>2. skr_escrow'[v] >= skr_escrow[v]
    BY <1>b, <2>1 DEF TypeOK
  <2> QED
    BY <1>a, <1>b, <2>1, <2>2
<1>8. Lend \/ Tick \/ UNCHANGED vars => UNCHANGED <<profile, skr_escrow>>
  BY DEF Lend, InitializePool, DepositLiquidity, WithdrawLiquidity, Tick, vars
<1>9. ASSUME NEW l \in Loans, NEW c, TriggerGracePeriod(c, l)
      PROVE  UNCHANGED <<profile, skr_escrow>>
  BY <1>9 DEF TriggerGracePeriod, MayTriggerGrace
<1>10. ASSUME NEW u, NEW x, DonateToVault(u, x)
       PROVE  UNCHANGED <<profile, skr_escrow>>
  BY <1>10 DEF DonateToVault
<1> QED
  BY <1>1, <1>2, <1>3, <1>4, <1>5, <1>6, <1>7, <1>8, <1>9, <1>10
     DEF Next, Stake, TakeLoan, Settle, Donate

-----------------------------------------------------------------------------
(* The inductive invariant and what follows from it. *)

\* The inductive invariant holds initially.
LEMMA InitInv == Init => PoolInv
<1> SUFFICES ASSUME Init PROVE PoolInv
  OBVIOUS
<1>1. TypeOK
  BY InitType
<1>2. VaultCoversLiquidity
  BY ActorAssumption DEF Init, VaultCoversLiquidity, Holders
<1>3. LoansBacked
  BY DEF Init, LoansBacked, LoanBacked, Live, NoLoan
<1>4. StakeBacked
  BY DEF Init, StakeBacked, NoProfile
<1>5. GraceFollowsDue
  BY DEF Init, GraceFollowsDue, NoLoan
<1> QED
  BY <1>1, <1>2, <1>3, <1>4, <1>5 DEF PoolInv

\* Every step preserves the inductive invariant.
LEMMA NextInv ==
    ASSUME PoolInv, [Next]_vars
    PROVE  PoolInv'
<1>1. TypeOK'
  BY NextType DEF PoolInv
<1> QED
  BY <1>1, VaultStaysCovered, LoansStayBacked, StakeStaysBacked,
     GraceStaysAfterDue DEF PoolInv

\* The conjunction the safety arguments rest on holds in every reachable state
\* of the pool handlers of processor.rs, for every value of the constants.
THEOREM PoolInvariant == Spec => []PoolInv
<1>1. Init => PoolInv
  BY InitInv
<1>2. PoolInv /\ [Next]_vars => PoolInv'
  BY NextInv
<1> QED
  BY <1>1, <1>2, PTL DEF Spec

\* The vault always holds at least total_liquidity, so an authority withdrawal
\* or a loan within the pool record never fails for want of tokens.
THEOREM VaultSolvent == Spec => []VaultCoversLiquidity
<1>1. PoolInv => VaultCoversLiquidity
  BY DEF PoolInv
<1> QED
  BY <1>1, PoolInvariant, PTL

\* The escrow of a live loan always holds its whole collateral, and is_active,
\* status and locked_skr of an order never disagree.
THEOREM CollateralInEscrow == Spec => []LoansBacked
<1>1. PoolInv => LoansBacked
  BY DEF PoolInv
<1> QED
  BY <1>1, PoolInvariant, PTL

\* Bonds never exceed stake and stake never exceeds the escrow, across several
\* bonded loans that are slashed one after another.
THEOREM StakeInEscrow == Spec => []StakeBacked
<1>1. PoolInv => StakeBacked
  BY DEF PoolInv
<1> QED
  BY <1>1, PoolInvariant, PTL

\* No instruction changes an order that was repaid or defaulted; its id is
\* never borrowed on again (process_borrow, the loan PDA check).
THEOREM SettledStaysSettled == Spec => SettledForever
<1>1. ASSUME PoolInv, [Next]_vars, NEW k \in Loans,
             loan[k].status \in {"Repaid", "Defaulted"}
      PROVE  loan'[k] = loan[k]
  <2>1. ~loan[k].is_active
    BY <1>1 DEF PoolInv, LoansBacked, LoanBacked, Live
  <2>2. TypeOK
    BY <1>1 DEF PoolInv
  <2>3. CASE UNCHANGED <<loan, escrow>>
    BY <2>3
  <2>4. ASSUME NEW l \in Loans, OnlyLoan(l), Opened(l) \/ Graced(l) \/ Closed(l)
        PROVE  loan'[k] = loan[k]
    <3>1. k # l
      BY <1>1, <2>1, <2>4 DEF Opened, Graced, Closed
    <3> QED
      BY <2>2, <2>4, <3>1 DEF OnlyLoan, TypeOK
  <2> QED
    BY <1>1, <2>2, <2>3, <2>4, LoanSteps
<1>2. PoolInv /\ [Next]_vars =>
          [\A l \in Loans : loan[l].status \in {"Repaid", "Defaulted"}
                              => loan'[l] = loan[l]]_vars
  BY <1>1
<1> QED
  BY <1>2, PoolInvariant, PTL DEF Spec, SettledForever

-----------------------------------------------------------------------------
(* Collateral leaves once, and to the right party. *)

LEMMA CreditAdds ==
    ASSUME NEW c \in [Mints -> [Holders -> Nat]], NEW m \in Mints, NEW n \in Mints,
           NEW h \in Holders, NEW x \in Nat
    PROVE  /\ Credit(c, n, h, x) \in [Mints -> [Holders -> Nat]]
           /\ Credit(c, n, h, x)[n][h] = c[n][h] + x
           /\ \A g \in Holders : Credit(c, n, h, x)[m][g] >= c[m][g]
<1>1. Credit(c, n, h, x)[n] = [c[n] EXCEPT ![h] = @ + x]
  BY DEF Credit
<1>2. m # n => Credit(c, n, h, x)[m] = c[m]
  BY DEF Credit
<1>3. c[m] \in [Holders -> Nat] /\ c[n] \in [Holders -> Nat]
  OBVIOUS
<1>4. Credit(c, n, h, x)[n][h] = c[n][h] + x
  BY <1>1, <1>3
<1>5. ASSUME NEW g \in Holders PROVE Credit(c, n, h, x)[m][g] >= c[m][g]
  <2>1. CASE m = n
    <3>1. Credit(c, n, h, x)[m] = [c[m] EXCEPT ![h] = @ + x]
      BY <1>1, <2>1
    <3>2. [c[m] EXCEPT ![h] = @ + x][g] >= c[m][g]
      BY <1>3
    <3> QED BY <3>1, <3>2
  <2>2. CASE m # n
    BY <1>2, <1>3, <2>2
  <2> QED BY <2>1, <2>2
<1> QED BY <1>4, <1>5, CreditType

\* The three credits of a claimed default: whoever they go to, nobody loses,
\* and the first two arrive in full.
LEMMA CreditsAdd ==
    ASSUME NEW c \in [Mints -> [Holders -> Nat]], NEW m \in Mints, NEW n \in Mints,
           NEW d \in Holders, NEW t \in Holders, NEW sd \in Holders,
           NEW net \in Nat, NEW margin \in Nat, NEW slash \in Nat
    PROVE  LET after == Credit(Credit(Credit(c, m, d, net), m, t, margin), n, sd, slash)
           IN  /\ after \in [Mints -> [Holders -> Nat]]
               /\ \A h \in Holders : after[m][h] >= c[m][h]
               /\ after[m][d] >= c[m][d] + net
               /\ after[m][t] >= c[m][t] + margin
<1> DEFINE c1 == Credit(c, m, d, net)
           c2 == Credit(c1, m, t, margin)
           after == Credit(c2, n, sd, slash)
<1>1. c1 \in [Mints -> [Holders -> Nat]] /\ c2 \in [Mints -> [Holders -> Nat]]
      /\ after \in [Mints -> [Holders -> Nat]]
  BY CreditType
<1>2. c1[m][d] = c[m][d] + net /\ \A h \in Holders : c1[m][h] >= c[m][h]
  BY DEF Credit
<1> HIDE DEF c1
<1>3. c2[m][t] = c1[m][t] + margin /\ \A h \in Holders : c2[m][h] >= c1[m][h]
  BY <1>1 DEF Credit
<1> HIDE DEF c2
<1>4. \A h \in Holders : after[m][h] >= c2[m][h]
  BY <1>1, CreditAdds
<1> HIDE DEF after
<1>5. \A h \in Holders : c[m][h] \in Nat /\ c1[m][h] \in Nat /\ c2[m][h] \in Nat
                         /\ after[m][h] \in Nat
  BY <1>1
<1>6. \A h \in Holders : after[m][h] >= c[m][h]
  BY <1>2, <1>3, <1>4, <1>5
<1>7. after[m][d] >= c[m][d] + net
  BY <1>2, <1>3, <1>4, <1>5
<1>8. after[m][t] >= c[m][t] + margin
  BY <1>2, <1>3, <1>4, <1>5
<1> QED BY <1>1, <1>6, <1>7, <1>8 DEF after, c2, c1

LEMMA RepayReleases ==
    ASSUME PoolInv, NEW l \in Loans, NEW w \in BOOLEAN, RepayLoan(l, w), NEW k \in Loans
    PROVE  CollateralRelease(k)
<1> USE DEF Holders
<1> DEFINE u == Borrower(l)
           lo == loan[l]
           due == TotalDue(l)
           back == LenderRepay(l)
           fee == ProtocolFee(lo.interest_due)
<1>1. TypeOK /\ LoanBacked(l)
  BY DEF PoolInv, LoansBacked
<1>2. /\ u \in Users /\ lo.collateral_mint \in Mints /\ lo.collateral_amount \in Nat
      /\ escrow \in [Loans -> Nat] /\ liq \in [Holders -> Nat]
      /\ coll \in [Mints -> [Holders -> Nat]] /\ loan \in [Loans -> LoanOrder]
  BY <1>1 DEF TypeOK, Loans, Borrower, LoanOrder
<1>3. back \in Nat /\ fee \in Nat /\ due \in Nat /\ back + fee = due
  BY <1>1, SettleAmounts
<1>4. /\ escrow' = [escrow EXCEPT ![l] = @ - lo.collateral_amount]
      /\ coll' = [coll EXCEPT ![lo.collateral_mint][u] = @ + lo.collateral_amount]
      /\ liq' = [liq EXCEPT ![u] = @ - due, !["vault"] = @ + back, !["treasury"] = @ + fee]
      /\ loan' = [loan EXCEPT ![l].status = "Repaid", ![l].is_active = FALSE,
                              ![l].locked_skr = 0]
      /\ lo.is_active
  BY DEF RepayLoan
<1>5. Live(l)
  BY <1>1, <1>4 DEF LoanBacked
<1>6. loan'[l].status = "Repaid"
  BY <1>2, <1>4 DEF LoanOrder
<1> HIDE DEF u, due, back, fee
<1>7. CASE k # l
  <2>1. escrow'[k] = escrow[k]
    BY <1>2, <1>4, <1>7
  <2> QED BY <1>2, <2>1 DEF CollateralRelease
<1>8. CASE k = l
  <2>1. escrow[l] - escrow'[l] = lo.collateral_amount
    BY <1>2, <1>4
  <2>2. coll'[lo.collateral_mint][u] - coll[lo.collateral_mint][u] = lo.collateral_amount
    BY <1>2, <1>4
  <2>3. liq'["vault"] = liq["vault"] + back /\ liq'["treasury"] = liq["treasury"] + fee
    BY <1>2, <1>3, <1>4, ActorAssumption
  <2>4. (liq'["vault"] - liq["vault"]) + (liq'["treasury"] - liq["treasury"]) = due
    <3>1. liq["vault"] \in Nat /\ liq["treasury"] \in Nat
      BY <1>2
    <3> QED BY <1>3, <2>3, <3>1
  <2> QED BY <1>5, <1>6, <1>8, <2>1, <2>2, <2>4 DEF CollateralRelease, u, due
<1> QED BY <1>7, <1>8

LEMMA ClaimReleases ==
    ASSUME PoolInv, NEW l \in Loans, NEW w \in BOOLEAN,
           NEW dest \in Holders, NEW sd \in Holders, ClaimDefault(l, w, dest, sd),
           NEW k \in Loans
    PROVE  CollateralRelease(k)
<1> DEFINE u == Borrower(l)
           lo == loan[l]
           m == lo.collateral_mint
           margin == LiquidationMargin(lo.collateral_amount)
           net == Monus(lo.collateral_amount, margin)
           slash == IF w THEN SlashAmount(profile[u], lo.locked_skr) ELSE 0
<1>1. TypeOK /\ LoanBacked(l) /\ GraceFollowsDue
  BY DEF PoolInv, LoansBacked
<1>2. /\ u \in Users /\ m \in Mints /\ lo.collateral_amount \in Nat /\ lo.locked_skr \in Nat
      /\ lo.due_time \in Nat /\ lo.grace_period_expires \in Nat /\ now \in Nat
      /\ escrow \in [Loans -> Nat] /\ profile \in [Users -> UserProfile]
      /\ coll \in [Mints -> [Holders -> Nat]] /\ loan \in [Loans -> LoanOrder]
  BY <1>1 DEF TypeOK, Loans, Borrower, LoanOrder
<1>3. margin \in Nat /\ net \in Nat /\ net + margin = lo.collateral_amount
  <2>1. margin \in Nat /\ margin <= lo.collateral_amount
    BY <1>1, SettleAmounts
  <2> HIDE DEF margin
  <2> QED BY <1>2, <2>1 DEF Monus
<1>4. slash \in Nat
  BY <1>2, SlashBounds
<1>5. /\ lo.status = "InGracePeriod" /\ now >= lo.grace_period_expires
      /\ dest \in LiquidationDestinations(m)
      /\ escrow' = [escrow EXCEPT ![l] = @ - lo.collateral_amount]
      /\ coll' = Credit(Credit(Credit(coll, m, dest, net), m, "treasury", margin),
                        "SKR", sd, slash)
      /\ loan' = [loan EXCEPT ![l].status = "Defaulted", ![l].is_active = FALSE,
                              ![l].locked_skr = 0]
  BY DEF ClaimDefault, MayClaim, Slashed
<1>6. Live(l) /\ loan'[l].status = "Defaulted"
  BY <1>2, <1>5 DEF Live, LoanOrder
<1>7. now >= lo.due_time + GracePeriod
  BY <1>1, <1>2, <1>5, ParameterAssumption DEF GraceFollowsDue
<1> HIDE DEF u, m, margin, net, slash
<1>8. CASE k # l
  <2>1. escrow'[k] = escrow[k]
    BY <1>2, <1>5, <1>8
  <2> QED BY <1>2, <2>1 DEF CollateralRelease
<1>9. CASE k = l
  <2>1. escrow[l] - escrow'[l] = lo.collateral_amount
    BY <1>2, <1>5
  <2>2. dest \in {Authority, "vault"} /\ dest # "treasury" /\ Authority # "vault"
        /\ {Authority, "vault", "treasury"} \subseteq Holders
    BY <1>5, ActorAssumption DEF LiquidationDestinations, Holders
  <2>3. /\ coll' \in [Mints -> [Holders -> Nat]]
        /\ \A h \in Holders : coll'[m][h] >= coll[m][h]
        /\ coll'[m][dest] >= coll[m][dest] + net
        /\ coll'[m]["treasury"] >= coll[m]["treasury"] + margin
    <3>1. "treasury" \in Holders /\ "SKR" \in Mints
      BY DEF Holders, Mints
    <3> QED BY <1>2, <1>3, <1>4, <1>5, <2>2, <3>1, CreditsAdd, Zenon
  <2>4. \A h \in Holders : coll'[m][h] \in Nat /\ coll[m][h] \in Nat
    BY <1>2, <2>3
  <2>5. (coll'[m][Authority] - coll[m][Authority]) + (coll'[m]["vault"] - coll[m]["vault"])
          + (coll'[m]["treasury"] - coll[m]["treasury"]) >= lo.collateral_amount
    BY <1>2, <1>3, <2>2, <2>3, <2>4
  <2> QED BY <1>6, <1>7, <1>9, <2>1, <2>5 DEF CollateralRelease, m
<1> QED BY <1>8, <1>9

\* Whoever signs what and in whichever order, collateral leaves an escrow in
\* full, in the step that settles its loan: to the borrower against principal
\* and interest, or a whole grace period after the due time to the lender's side.
THEOREM CollateralLeavesRight == Spec => CollateralReleasedOnlyAtSettlement
<1>1. ASSUME PoolInv, [Next]_vars, NEW k \in Loans PROVE CollateralRelease(k)
  <2>1. TypeOK /\ escrow[k] \in Nat
    BY <1>1 DEF PoolInv, TypeOK
  <2>2. ASSUME escrow'[k] >= escrow[k] PROVE CollateralRelease(k)
    <3>1. escrow'[k] \in Nat
      BY <1>1, NextInv DEF PoolInv, TypeOK
    <3> QED BY <2>1, <2>2, <3>1 DEF CollateralRelease
  <2>3. CASE UNCHANGED escrow
    BY <2>1, <2>2, <2>3
  <2>4. CASE Lend \/ Stake \/ Donate \/ Tick \/ UNCHANGED vars
    BY <2>3, <2>4 DEF Lend, InitializePool, DepositLiquidity, WithdrawLiquidity, Stake, StakeSkr,
       UnstakeSkr, Donate, DonateToVault, DonateToStakeEscrow, Tick, vars
  <2>5. ASSUME NEW l \in Loans, NEW x \in BorrowAmounts, NEW m \in Mints,
               NEW c \in CollateralAmounts, NEW d \in Durations,
               NEW p \in Prices, NEW w \in BOOLEAN, NEW r \in YieldRoutes,
               Borrow(l, x, m, c, d, p, w, r)
        PROVE  CollateralRelease(k)
    <3>1. escrow' = [escrow EXCEPT ![l] = @ + c] /\ c \in Nat
      BY <2>5, InputAssumption DEF Borrow
    <3>2. escrow'[k] >= escrow[k]
      BY <2>1, <3>1 DEF TypeOK
    <3> QED BY <2>2, <3>2
  <2>6. CASE Settle
    <3>1. ASSUME NEW l \in Loans, NEW caller, TriggerGracePeriod(caller, l)
          PROVE  CollateralRelease(k)
      BY <2>3, <3>1 DEF TriggerGracePeriod, MayTriggerGrace
    <3> QED BY <1>1, <2>6, <3>1, RepayReleases, ClaimReleases DEF Settle
  <2> QED BY <1>1, <2>4, <2>5, <2>6 DEF Next, TakeLoan
<1>2. PoolInv /\ [Next]_vars => [\A l \in Loans : CollateralRelease(l)]_vars
  BY <1>1
<1> QED
  BY <1>2, PoolInvariant, PTL DEF Spec, CollateralReleasedOnlyAtSettlement

-----------------------------------------------------------------------------
(* The pool implements the pawn promise. *)

\* An empty pool is a pawn shop with no pawns.
LEMMA PawnStart == Init => Pawn!PawnInit
BY DEF Init, NoLoan, Pawn!PawnInit, PawnState

\* Every pool step is a step of the promise or invisible to it.
LEMMA PawnStep ==
    ASSUME PoolInv, [Next]_vars
    PROVE  [Pawn!PawnNext]_(Pawn!pawnVars)
<1> DEFINE st == [l \in Loans |-> PawnState(loan[l].status)]
           due == [l \in Loans |-> loan[l].due_time]
<1>0. TypeOK
  BY DEF PoolInv
<1>1. CASE UNCHANGED <<loan, escrow>> /\ now' = now
  BY <1>1 DEF Pawn!pawnVars
<1>2. CASE UNCHANGED <<loan, escrow>> /\ now' = now + 1
  BY <1>2 DEF Pawn!PawnNext, Pawn!Pass
<1>3. ASSUME NEW k \in Loans, now' = now, OnlyLoan(k),
             Opened(k) \/ Graced(k) \/ Closed(k)
      PROVE  [Pawn!PawnNext]_(Pawn!pawnVars)
  <2>1. \A l \in Loans : l # k => loan'[l] = loan[l]
    BY <1>0, <1>3 DEF OnlyLoan, TypeOK
  <2>2. st' = [st EXCEPT ![k] = PawnState(loan'[k].status)]
    BY <2>1
  <2>3. due' = [due EXCEPT ![k] = loan'[k].due_time]
    BY <2>1
  <2>4. CASE Opened(k)
    <3>1. Pawn!Open(k)
      BY <1>3, <2>2, <2>3, <2>4 DEF Pawn!Open, Opened, PawnState
    <3> QED
      BY <3>1 DEF Pawn!PawnNext
  <2>5. CASE Graced(k)
    <3>1. st' = st
      BY <2>2, <2>5 DEF Graced, PawnState
    <3>2. due' = due
      BY <2>3, <2>5 DEF Graced
    <3> QED
      BY <1>3, <3>1, <3>2 DEF Pawn!pawnVars
  <2>6. CASE Closed(k)
    <3>1. due' = due
      BY <2>3, <2>6 DEF Closed
    <3>2. Live(k)
      BY <2>6 DEF Closed, PoolInv, LoansBacked, LoanBacked, Live
    <3>3. st[k] = "open"
      BY <3>2 DEF Live, PawnState
    <3>4. CASE loan'[k].status = "Repaid"
      <4>1. Pawn!Return(k)
        BY <1>3, <2>2, <3>1, <3>3, <3>4 DEF Pawn!Return, PawnState
      <4> QED
        BY <4>1 DEF Pawn!PawnNext
    <3>5. CASE loan'[k].status = "Defaulted"
      <4>1. /\ loan[k].status = "InGracePeriod"
            /\ now >= loan[k].grace_period_expires
        BY <2>6, <3>5 DEF Closed
      <4>2. /\ now \in Nat /\ loan[k].grace_period_expires \in Nat
            /\ loan[k].due_time \in Nat
        BY <1>0 DEF TypeOK, LoanOrder
      <4>3. now >= due[k] + GracePeriod
        BY <4>1, <4>2, ParameterAssumption DEF PoolInv, GraceFollowsDue
      <4>4. Pawn!Seize(k)
        BY <1>3, <2>2, <3>1, <3>3, <3>5, <4>3 DEF Pawn!Seize, PawnState
      <4> QED
        BY <4>4 DEF Pawn!PawnNext
    <3> QED
      BY <2>6, <3>4, <3>5 DEF Closed
  <2> QED
    BY <1>3, <2>4, <2>5, <2>6
<1> QED
  BY <1>0, <1>1, <1>2, <1>3, LoanSteps

\* The pool implements PawnPromise: collateral goes out once, to the borrower
\* or, not before due_time + GracePeriod, to the lender's side.
THEOREM PoolRefinesPawn == Spec => KeepsPawnPromise
<1>1. Init => Pawn!PawnInit
  BY PawnStart
<1>2. PoolInv /\ [Next]_vars => [Pawn!PawnNext]_(Pawn!pawnVars)
  BY PawnStep
<1> QED
  BY <1>1, <1>2, PoolInvariant, PTL DEF Spec, KeepsPawnPromise, Pawn!PawnSpec

-----------------------------------------------------------------------------
(* The invariant.                                                          *)

Used == {l \in Loans : loan[l].status # "None"}
Repaid == {l \in Loans : loan[l].status = "Repaid"}

\* What each loan adds to its borrower's bond, and to what the pool has lent.
Bonds(u) == [l \in Loans |-> IF Borrower(l) = u THEN loan[l].locked_skr ELSE 0]
Lent == [l \in Loans |-> IF Live(l) THEN loan[l].principal_amount ELSE 0]

LoansCounted ==
    /\ IsFiniteSet(Used)
    /\ loans_originated = Cardinality(Used)
    /\ loans_repaid = Cardinality(Repaid)
ProfilesCounted ==
    \A u \in Users :
        /\ profile[u].total_loans_completed <= Cardinality(LoansWith(u, "Repaid"))
        /\ profile[u].total_loans_defaulted <= Cardinality(LoansWith(u, "Defaulted"))
BondsCounted ==
    /\ \A u \in Users :
          /\ IsFiniteSet(Units(Loans, Bonds(u)))
          /\ profile[u].locked_skr = Cardinality(Units(Loans, Bonds(u)))
          /\ ~profile[u].is_initialized => profile[u].locked_skr = 0
    /\ \A l \in Loans : loan[l].locked_skr <= Greatest(Tier1Bond, Tier2Bond)
LentCounted ==
    IsFiniteSet(Units(Loans, Lent)) /\ total_borrowed = Cardinality(Units(Loans, Lent))
\* Nothing is lent or deposited before the pool is created.
PoolComesFirst ==
    ~PoolInitialized => total_liquidity = 0 /\ \A l \in Loans : loan[l].status = "None"

CountInv ==
    PoolInv /\ LoansCounted /\ ProfilesCounted /\ BondsCounted /\ LentCounted /\ PoolComesFirst

LEMMA WeightsType ==
    ASSUME TypeOK, NEW u
    PROVE  Bonds(u) \in [Loans -> Nat] /\ Lent \in [Loans -> Nat]
BY DEF TypeOK, LoanOrder, Bonds, Lent

\* The loans with a status that are borrower u's, and those with it at all.
LEMMA StatusCounts ==
    ASSUME IsFiniteSet(Used)
    PROVE  /\ IsFiniteSet(Repaid)
           /\ \A u : /\ IsFiniteSet(LoansWith(u, "Repaid"))
                     /\ IsFiniteSet(LoansWith(u, "Defaulted"))
                     /\ Cardinality(LoansWith(u, "Repaid")) \in Nat
                     /\ Cardinality(LoansWith(u, "Defaulted")) \in Nat
<1>1. Repaid \in SUBSET Used
  BY DEF Repaid, Used
<1>2. ASSUME NEW u PROVE LoansWith(u, "Repaid") \in SUBSET Used
                         /\ LoansWith(u, "Defaulted") \in SUBSET Used
  BY DEF LoansWith, Used
<1> QED BY <1>1, <1>2, FS_Subset, FS_CardinalityType

LEMMA CountInit == Init => CountInv
<1> SUFFICES ASSUME Init PROVE CountInv
  OBVIOUS
<1>1. PoolInv
  BY InitInv
<1>2. \A l \in Loans : loan[l].status = "None" /\ loan[l].locked_skr = 0
  BY DEF Init, NoLoan
<1>3. Used = {} /\ Repaid = {}
  BY <1>2 DEF Used, Repaid
<1>4. LoansCounted
  BY <1>3, FS_EmptySet DEF LoansCounted, Init
<1>5. \A u \in Users : /\ profile[u].total_loans_completed = 0
                       /\ profile[u].total_loans_defaulted = 0
                       /\ profile[u].locked_skr = 0
  BY DEF Init, NoProfile
<1>6. ProfilesCounted
  <2>1. IsFiniteSet(Used)
    BY <1>4 DEF LoansCounted
  <2> QED BY <1>5, <2>1, StatusCounts DEF ProfilesCounted
<1>7. BondsCounted
  <2>1. ASSUME NEW u \in Users
        PROVE  IsFiniteSet(Units(Loans, Bonds(u))) /\ Cardinality(Units(Loans, Bonds(u))) = 0
    <3>1. Bonds(u) \in [Loans -> Nat]
      BY <1>1, WeightsType DEF PoolInv
    <3>2. \A l \in Loans : Bonds(u)[l] = 0
      BY <1>2 DEF Bonds
    <3> QED BY <3>1, <3>2, NothingWeighs
  <2> QED BY <1>2, <1>5, <2>1, ParameterAssumption DEF BondsCounted, Greatest
<1>8. LentCounted
  <2>1. Lent \in [Loans -> Nat]
    BY <1>1, WeightsType DEF PoolInv
  <2>2. \A l \in Loans : Lent[l] = 0
    BY <1>2 DEF Lent, Live
  <2>3. IsFiniteSet(Units(Loans, Lent)) /\ Cardinality(Units(Loans, Lent)) = 0
    BY <2>1, <2>2, NothingWeighs
  <2> QED BY <2>3 DEF LentCounted, Init
<1>9. PoolComesFirst
  BY <1>2 DEF PoolComesFirst, Init
<1> QED BY <1>1, <1>4, <1>6, <1>7, <1>8, <1>9 DEF CountInv

-----------------------------------------------------------------------------
(* Steps that leave every count and every weight as they are.              *)

SetsKept ==
    /\ Used' = Used /\ Repaid' = Repaid
    /\ \A u \in Users : /\ LoansWith(u, "Repaid")' = LoansWith(u, "Repaid")
                        /\ LoansWith(u, "Defaulted")' = LoansWith(u, "Defaulted")
                        /\ Bonds(u)' = Bonds(u)
    /\ Lent' = Lent
    /\ \A l \in Loans : loan'[l].locked_skr = loan[l].locked_skr
ProfilesKept ==
    \A u \in Users :
        /\ profile'[u].total_loans_completed <= profile[u].total_loans_completed
        /\ profile'[u].total_loans_defaulted <= profile[u].total_loans_defaulted
        /\ profile'[u].locked_skr = profile[u].locked_skr
        /\ ~profile'[u].is_initialized => ~profile[u].is_initialized

LEMMA KeptCounts ==
    ASSUME CountInv, PoolInv', SetsKept, ProfilesKept, PoolComesFirst',
           UNCHANGED <<loans_originated, loans_repaid, total_borrowed>>
    PROVE  CountInv'
<1>1. LoansCounted'
  BY DEF CountInv, LoansCounted, SetsKept
<1>2. ProfilesCounted'
  <2> SUFFICES ASSUME NEW u \in Users
               PROVE  /\ profile'[u].total_loans_completed
                             <= Cardinality(LoansWith(u, "Repaid"))
                      /\ profile'[u].total_loans_defaulted
                             <= Cardinality(LoansWith(u, "Defaulted"))
    BY DEF ProfilesCounted, SetsKept
  <2>1. /\ profile[u].total_loans_completed <= Cardinality(LoansWith(u, "Repaid"))
        /\ profile[u].total_loans_defaulted <= Cardinality(LoansWith(u, "Defaulted"))
        /\ Cardinality(LoansWith(u, "Repaid")) \in Nat
        /\ Cardinality(LoansWith(u, "Defaulted")) \in Nat
    BY StatusCounts DEF CountInv, LoansCounted, ProfilesCounted
  <2>2. profile[u] \in UserProfile /\ profile'[u] \in UserProfile
    BY DEF CountInv, PoolInv, TypeOK
  <2>3. /\ profile'[u].total_loans_completed <= profile[u].total_loans_completed
        /\ profile'[u].total_loans_defaulted <= profile[u].total_loans_defaulted
    BY DEF ProfilesKept
  <2> QED BY <2>1, <2>2, <2>3 DEF UserProfile
<1>3. BondsCounted'
  BY DEF CountInv, BondsCounted, SetsKept, ProfilesKept
<1>4. LentCounted'
  BY DEF CountInv, LentCounted, SetsKept
<1> QED BY <1>1, <1>2, <1>3, <1>4 DEF CountInv

LEMMA SameLoans == ASSUME loan' = loan PROVE SetsKept
BY DEF SetsKept, Used, Repaid, LoansWith, Bonds, Lent, Live

\* The pool is created while there are no loans: its counters start again at
\* what they are.
LEMMA InitializeCounts ==
    ASSUME CountInv, PoolInv', NEW t, InitializePool(t)
    PROVE  CountInv'
<1>1. loan' = loan /\ profile' = profile /\ total_liquidity' = 0
  BY DEF InitializePool
<1>2. \A l \in Loans : loan[l].status = "None"
  BY DEF InitializePool, CountInv, PoolComesFirst
<1>3. Used = {} /\ Repaid = {}
  BY <1>2 DEF Used, Repaid
<1>4. Cardinality(Used) = 0 /\ Cardinality(Repaid) = 0
  BY <1>3, FS_EmptySet
<1>5. Cardinality(Units(Loans, Lent)) = 0
  <2>1. Lent \in [Loans -> Nat]
    BY WeightsType DEF CountInv, PoolInv
  <2>2. \A l \in Loans : Lent[l] = 0
    BY <1>2 DEF Lent, Live
  <2> QED BY <2>1, <2>2, NothingWeighs
<1>6. UNCHANGED <<loans_originated, loans_repaid, total_borrowed>>
  BY <1>4, <1>5 DEF InitializePool, CountInv, LoansCounted, LentCounted
<1>7. ProfilesKept
  BY <1>1 DEF CountInv, PoolInv, TypeOK, UserProfile, ProfilesKept
<1>8. PoolComesFirst'
  BY <1>1, <1>2 DEF PoolComesFirst
<1> QED BY <1>1, <1>6, <1>7, <1>8, SameLoans, KeptCounts

LEMMA LiquidityCounts ==
    ASSUME CountInv, PoolInv', NEW x, DepositLiquidity(x) \/ WithdrawLiquidity(x)
    PROVE  CountInv'
<1>1. /\ UNCHANGED <<loan, profile, terms, loans_originated, loans_repaid, total_borrowed>>
      /\ PoolInitialized
  BY DEF DepositLiquidity, WithdrawLiquidity
<1>2. ProfilesKept
  BY <1>1 DEF CountInv, PoolInv, TypeOK, UserProfile, ProfilesKept
<1>3. PoolComesFirst'
  BY <1>1 DEF PoolComesFirst, PoolInitialized
<1> QED BY <1>1, <1>2, <1>3, SameLoans, KeptCounts

\* A first stake creates a profile that counts nothing.
LEMMA StakeCounts ==
    ASSUME CountInv, PoolInv', NEW u \in Users, NEW x \in StakeAmounts, NEW w \in BOOLEAN,
           StakeSkr(u, x, w) \/ UnstakeSkr(u, x, w)
    PROVE  CountInv'
<1>1. /\ UNCHANGED <<loan, terms, total_liquidity, loans_originated, loans_repaid,
                     total_borrowed>>
  BY DEF StakeSkr, UnstakeSkr
<1>2. PoolComesFirst'
  BY <1>1 DEF CountInv, PoolComesFirst, PoolInitialized
<1>t. profile \in [Users -> UserProfile] /\ x \in Nat
  BY InputAssumption DEF CountInv, PoolInv, TypeOK
<1>3. ProfilesKept
  <2>1. CASE StakeSkr(u, x, w)
    <3> DEFINE p == IF profile[u].is_initialized THEN profile[u] ELSE NewProfile
    <3>1. profile' = [profile EXCEPT ![u] = [p EXCEPT !.staked_skr = @ + x]]
      BY <2>1 DEF StakeSkr
    <3>2. /\ p \in UserProfile /\ p.is_initialized
          /\ p.total_loans_completed <= profile[u].total_loans_completed
          /\ p.total_loans_defaulted <= profile[u].total_loans_defaulted
          /\ p.locked_skr = profile[u].locked_skr
      <4>1. CASE profile[u].is_initialized
        BY <1>t, <4>1 DEF UserProfile
      <4>2. CASE ~profile[u].is_initialized
        <5>1. p = NewProfile
          BY <4>2
        <5>2. profile[u].locked_skr = 0
          BY <4>2 DEF CountInv, BondsCounted
        <5>3. /\ NewProfile.is_initialized /\ NewProfile.locked_skr = 0
              /\ NewProfile.total_loans_completed = 0
              /\ NewProfile.total_loans_defaulted = 0
          BY DEF NewProfile, NoProfile
        <5>4. /\ profile[u].total_loans_completed \in Nat
              /\ profile[u].total_loans_defaulted \in Nat
          BY <1>t DEF UserProfile
        <5> HIDE DEF p
        <5> QED BY <5>1, <5>2, <5>3, <5>4, NewProfileType
      <4> QED BY <4>1, <4>2
    <3> HIDE DEF p
    <3> SUFFICES ASSUME NEW v \in Users
                 PROVE  /\ profile'[v].total_loans_completed <= profile[v].total_loans_completed
                        /\ profile'[v].total_loans_defaulted <= profile[v].total_loans_defaulted
                        /\ profile'[v].locked_skr = profile[v].locked_skr
                        /\ ~profile'[v].is_initialized => ~profile[v].is_initialized
      BY DEF ProfilesKept
    <3>3. CASE v = u
      <4>1. profile'[v] = [p EXCEPT !.staked_skr = @ + x]
        BY <1>t, <3>1, <3>3
      <4>2. /\ profile'[v].total_loans_completed = p.total_loans_completed
            /\ profile'[v].total_loans_defaulted = p.total_loans_defaulted
            /\ profile'[v].locked_skr = p.locked_skr
            /\ profile'[v].is_initialized = p.is_initialized
        BY <3>2, <4>1 DEF UserProfile
      <4> QED BY <3>2, <3>3, <4>2
    <3>4. CASE v # u
      <4>1. profile'[v] = profile[v]
        BY <1>t, <3>1, <3>4
      <4> QED BY <1>t, <4>1 DEF UserProfile
    <3> QED BY <3>3, <3>4
  <2>2. CASE UnstakeSkr(u, x, w)
    <3>1. profile' = [profile EXCEPT ![u].staked_skr = @ - x]
      BY <2>2 DEF UnstakeSkr
    <3> QED BY <1>t, <3>1 DEF ProfilesKept, UserProfile
  <2> QED BY <2>1, <2>2
<1> QED BY <1>1, <1>2, <1>3, SameLoans, KeptCounts

\* Gifts, the clock and nothing at all.
LEMMA OutsideCounts ==
    ASSUME CountInv, PoolInv', Donate \/ Tick \/ UNCHANGED vars
    PROVE  CountInv'
<1>1. UNCHANGED <<loan, profile, terms, total_liquidity, loans_originated, loans_repaid,
                  total_borrowed>>
  BY DEF Donate, DonateToVault, DonateToStakeEscrow, Tick, vars, poolVars
<1>2. ProfilesKept
  BY <1>1 DEF CountInv, PoolInv, TypeOK, UserProfile, ProfilesKept
<1>3. PoolComesFirst'
  BY <1>1 DEF CountInv, PoolComesFirst, PoolInitialized
<1> QED BY <1>1, <1>2, <1>3, SameLoans, KeptCounts

\* A loan in grace counts and weighs what it did.
LEMMA TriggerCounts ==
    ASSUME CountInv, PoolInv', NEW l \in Loans, NEW caller, TriggerGracePeriod(caller, l)
    PROVE  CountInv'
<1>1. /\ UNCHANGED <<profile, terms, total_liquidity, loans_originated, loans_repaid,
                     total_borrowed>>
      /\ loan' = [loan EXCEPT ![l].status = "InGracePeriod",
                              ![l].grace_period_expires = now + GracePeriod]
      /\ loan[l].status = "Active"
  BY DEF TriggerGracePeriod, MayTriggerGrace, poolVars
<1>2. loan \in [Loans -> LoanOrder]
  BY DEF CountInv, PoolInv, TypeOK
<1>3. \A k \in Loans :
         /\ loan'[k].status
              = IF k = l THEN "InGracePeriod" ELSE loan[k].status
         /\ loan'[k].locked_skr = loan[k].locked_skr
         /\ loan'[k].principal_amount = loan[k].principal_amount
  BY <1>1, <1>2 DEF LoanOrder
<1>4. SetsKept
  <2>0. \A k \in Loans :
           /\ loan'[k].status = "None" <=> loan[k].status = "None"
           /\ loan'[k].status = "Repaid" <=> loan[k].status = "Repaid"
           /\ loan'[k].status = "Defaulted" <=> loan[k].status = "Defaulted"
    <3> SUFFICES ASSUME NEW k \in Loans
                 PROVE  loan'[k].status = loan[k].status
                        \/ (loan'[k].status = "InGracePeriod" /\ loan[k].status = "Active")
      OBVIOUS
    <3>1. loan'[k].status = IF k = l THEN "InGracePeriod" ELSE loan[k].status
      BY <1>3, Zenon
    <3>2. loan[l].status = "Active"
      BY <1>1
    <3> QED BY <3>1, <3>2
  <2>1. Used' = Used /\ Repaid' = Repaid
    BY <2>0, Zenon DEF Used, Repaid
  <2>2. ASSUME NEW u \in Users
        PROVE  /\ LoansWith(u, "Repaid")' = LoansWith(u, "Repaid")
               /\ LoansWith(u, "Defaulted")' = LoansWith(u, "Defaulted")
    BY <2>0, Zenon DEF LoansWith
  <2>3. ASSUME NEW u \in Users PROVE Bonds(u)' = Bonds(u)
    BY <1>3 DEF Bonds
  <2>4. Lent' = Lent
    <3>1. \A k \in Loans : Live(k)' <=> Live(k)
      BY <1>1, <1>3 DEF Live
    <3> QED BY <1>3, <3>1 DEF Lent
  <2> QED BY <1>3, <2>1, <2>2, <2>3, <2>4 DEF SetsKept
<1>5. ProfilesKept
  BY <1>1 DEF CountInv, PoolInv, TypeOK, UserProfile, ProfilesKept
<1>6. PoolComesFirst'
  <2>1. PoolInitialized
    BY <1>1 DEF CountInv, PoolComesFirst
  <2> QED BY <1>1, <2>1 DEF PoolComesFirst, PoolInitialized
<1> QED BY <1>1, <1>4, <1>5, <1>6, KeptCounts

-----------------------------------------------------------------------------
(* Steps that open or close a loan.                                        *)

OthersKept(l) == \A k \in Loans : k # l => loan'[k] = loan[k]

LEMMA BondsChange ==
    ASSUME CountInv, PoolInv', NEW l \in Loans, OthersKept(l), NEW u \in Users
    PROVE  LET before == IF Borrower(l) = u THEN loan[l].locked_skr ELSE 0
               after  == IF Borrower(l) = u THEN loan'[l].locked_skr ELSE 0
           IN  /\ IsFiniteSet(Units(Loans, Bonds(u)'))
               /\ Cardinality(Units(Loans, Bonds(u)'))
                      = profile[u].locked_skr - before + after
               /\ before <= profile[u].locked_skr
<1>1. Bonds(u) \in [Loans -> Nat] /\ Bonds(u)' \in [Loans -> Nat]
  <2>1. TypeOK /\ TypeOK'
    BY DEF CountInv, PoolInv
  <2>2. Bonds(u) \in [Loans -> Nat]
    BY <2>1, WeightsType
  <2>3. Bonds(u)' \in [Loans -> Nat]
    BY <2>1 DEF TypeOK, LoanOrder, Bonds
  <2> QED BY <2>2, <2>3
<1>2. \A k \in Loans : k # l => Bonds(u)'[k] = Bonds(u)[k]
  BY DEF OthersKept, Bonds
<1>3. /\ Bonds(u)[l] = IF Borrower(l) = u THEN loan[l].locked_skr ELSE 0
      /\ Bonds(u)'[l] = IF Borrower(l) = u THEN loan'[l].locked_skr ELSE 0
  BY DEF Bonds
<1>4. IsFiniteSet(Units(Loans, Bonds(u))) /\ profile[u].locked_skr = Cardinality(Units(Loans, Bonds(u)))
  BY DEF CountInv, BondsCounted
<1>5. /\ IsFiniteSet(Units(Loans, Bonds(u)'))
      /\ Cardinality(Units(Loans, Bonds(u)'))
             = Cardinality(Units(Loans, Bonds(u))) - Bonds(u)[l] + Bonds(u)'[l]
      /\ Bonds(u)[l] <= Cardinality(Units(Loans, Bonds(u)))
  BY <1>1, <1>2, <1>4, UnitsChange
<1> QED BY <1>3, <1>4, <1>5

LEMMA LentChange ==
    ASSUME CountInv, PoolInv', NEW l \in Loans, OthersKept(l)
    PROVE  LET before == IF Live(l) THEN loan[l].principal_amount ELSE 0
               after  == IF Live(l)' THEN loan'[l].principal_amount ELSE 0
           IN  /\ IsFiniteSet(Units(Loans, Lent'))
               /\ Cardinality(Units(Loans, Lent')) = total_borrowed - before + after
               /\ before <= total_borrowed
<1>1. Lent \in [Loans -> Nat] /\ Lent' \in [Loans -> Nat]
  <2>1. TypeOK /\ TypeOK'
    BY DEF CountInv, PoolInv
  <2>2. Lent \in [Loans -> Nat]
    BY <2>1, WeightsType
  <2>3. Lent' \in [Loans -> Nat]
    BY <2>1 DEF TypeOK, LoanOrder, Lent
  <2> QED BY <2>2, <2>3
<1>2. \A k \in Loans : k # l => Lent'[k] = Lent[k]
  BY DEF OthersKept, Lent, Live
<1>3. /\ Lent[l] = IF Live(l) THEN loan[l].principal_amount ELSE 0
      /\ Lent'[l] = IF Live(l)' THEN loan'[l].principal_amount ELSE 0
  BY DEF Lent
<1>4. IsFiniteSet(Units(Loans, Lent)) /\ total_borrowed = Cardinality(Units(Loans, Lent))
  BY DEF CountInv, LentCounted
<1>5. /\ IsFiniteSet(Units(Loans, Lent'))
      /\ Cardinality(Units(Loans, Lent')) = Cardinality(Units(Loans, Lent)) - Lent[l] + Lent'[l]
      /\ Lent[l] <= Cardinality(Units(Loans, Lent))
  BY <1>1, <1>2, <1>4, UnitsChange
<1> QED BY <1>3, <1>4, <1>5

\* A set of loans told apart by their status gains the loan that comes to have
\* it, and stays as it is otherwise.
LEMMA StatusMoves ==
    ASSUME IsFiniteSet(Used), NEW l \in Loans, OthersKept(l),
           NEW s \in {"Repaid", "Defaulted"}, loan[l].status \notin {"Repaid", "Defaulted"},
           NEW u
    PROVE  /\ loan'[l].status # s \/ Borrower(l) # u
                  => LoansWith(u, s)' = LoansWith(u, s)
           /\ loan'[l].status = s /\ Borrower(l) = u
                  => Cardinality(LoansWith(u, s)') = Cardinality(LoansWith(u, s)) + 1
<1>1. loan[l].status # s
  OBVIOUS
<1>2. ASSUME loan'[l].status # s \/ Borrower(l) # u
      PROVE  LoansWith(u, s)' = LoansWith(u, s)
  BY <1>1, <1>2 DEF LoansWith, OthersKept
<1>3. ASSUME loan'[l].status = s, Borrower(l) = u
      PROVE  Cardinality(LoansWith(u, s)') = Cardinality(LoansWith(u, s)) + 1
  <2>1. LoansWith(u, s)' = LoansWith(u, s) \cup {l} /\ l \notin LoansWith(u, s)
    BY <1>1, <1>3 DEF LoansWith, OthersKept
  <2>2. IsFiniteSet(LoansWith(u, s))
    BY StatusCounts
  <2> QED BY <2>1, <2>2, FS_AddElement
<1> QED BY <1>2, <1>3

LEMMA BorrowCounts ==
    ASSUME CountInv, PoolInv', NEW l \in Loans, NEW x \in BorrowAmounts, NEW m \in Mints,
           NEW c \in CollateralAmounts, NEW d \in Durations,
           NEW p \in Prices, NEW w \in BOOLEAN, NEW r \in YieldRoutes,
           Borrow(l, x, m, c, d, p, w, r)
    PROVE  CountInv'
<1> DEFINE u == Borrower(l)
           bond == BondToLock(u, w)
<1>1. /\ loan' = [loan EXCEPT ![l] = NewLoan(l, x, m, c, d, w)]
      /\ profile' = [profile EXCEPT ![u].locked_skr = @ + bond]
      /\ total_borrowed' = total_borrowed + x
      /\ loans_originated' = loans_originated + 1
      /\ UNCHANGED <<terms, loans_repaid>>
      /\ loan[l].status = "None" /\ PoolInitialized
  BY DEF Borrow, BorrowGuard
<1>2. /\ loan \in [Loans -> LoanOrder] /\ profile \in [Users -> UserProfile]
      /\ u \in Users /\ x \in Nat /\ bond \in Nat
      /\ loan[l].locked_skr = 0
  <2>1. bond \in Nat /\ u \in Users
    BY BondNat DEF CountInv, PoolInv, Loans, Borrower
  <2>2. loan[l].locked_skr = 0
    BY <1>1 DEF CountInv, PoolInv, LoansBacked, LoanBacked, Live
  <2> HIDE DEF bond
  <2> QED BY <2>1, <2>2, InputAssumption DEF CountInv, PoolInv, TypeOK
<1>3. OthersKept(l) /\ loan'[l] = NewLoan(l, x, m, c, d, w)
  BY <1>1, <1>2 DEF OthersKept
<1>4. /\ loan'[l].status = "Active" /\ loan'[l].principal_amount = x
      /\ loan'[l].locked_skr = bond
  BY <1>3 DEF NewLoan
<1>5. bond <= Greatest(Tier1Bond, Tier2Bond)
  BY ParameterAssumption DEF BondToLock, Greatest
<1> HIDE DEF bond
<1>6. \A v \in Users :
         /\ profile'[v].total_loans_completed = profile[v].total_loans_completed
         /\ profile'[v].total_loans_defaulted = profile[v].total_loans_defaulted
         /\ profile'[v].is_initialized = profile[v].is_initialized
         /\ profile'[v].locked_skr = profile[v].locked_skr + (IF v = u THEN bond ELSE 0)
  BY <1>1, <1>2 DEF UserProfile
<1>7. LoansCounted'
  <2>1. Used' = Used \cup {l} /\ l \notin Used
    BY <1>1, <1>3, <1>4 DEF Used, OthersKept
  <2>2. Repaid' = Repaid
    BY <1>1, <1>3, <1>4 DEF Repaid, OthersKept
  <2>3. IsFiniteSet(Used) /\ loans_originated = Cardinality(Used)
    BY DEF CountInv, LoansCounted
  <2>4. IsFiniteSet(Used') /\ Cardinality(Used') = loans_originated + 1
    BY <2>1, <2>3, FS_AddElement
  <2> QED BY <1>1, <2>2, <2>4 DEF CountInv, LoansCounted
<1>8. ProfilesCounted'
  <2> SUFFICES ASSUME NEW v \in Users
               PROVE  /\ profile'[v].total_loans_completed
                             <= Cardinality(LoansWith(v, "Repaid")')
                      /\ profile'[v].total_loans_defaulted
                             <= Cardinality(LoansWith(v, "Defaulted")')
    BY DEF ProfilesCounted
  <2>1. /\ LoansWith(v, "Repaid")' = LoansWith(v, "Repaid")
        /\ LoansWith(v, "Defaulted")' = LoansWith(v, "Defaulted")
    BY <1>1, <1>3, <1>4, StatusMoves DEF CountInv, LoansCounted
  <2> QED BY <1>6, <2>1 DEF CountInv, ProfilesCounted
<1>9. BondsCounted'
  <2>1. ASSUME NEW v \in Users
        PROVE  /\ IsFiniteSet(Units(Loans, Bonds(v)'))
               /\ profile'[v].locked_skr = Cardinality(Units(Loans, Bonds(v)'))
               /\ ~profile'[v].is_initialized => profile'[v].locked_skr = 0
    <3>1. /\ IsFiniteSet(Units(Loans, Bonds(v)'))
          /\ Cardinality(Units(Loans, Bonds(v)'))
                 = profile[v].locked_skr + (IF v = u THEN bond ELSE 0)
      BY <1>2, <1>3, <1>4, BondsChange DEF UserProfile
    <3>2. ~profile[u].is_initialized => bond = 0
      BY DEF bond, BondToLock
    <3>3. ~profile[v].is_initialized => profile[v].locked_skr = 0
      BY DEF CountInv, BondsCounted
    <3> QED BY <1>6, <3>1, <3>2, <3>3
  <2>2. ASSUME NEW k \in Loans
        PROVE  loan'[k].locked_skr <= Greatest(Tier1Bond, Tier2Bond)
    BY <1>3, <1>4, <1>5 DEF CountInv, BondsCounted, OthersKept
  <2> QED BY <2>1, <2>2 DEF BondsCounted
<1>10. LentCounted'
  <2>1. ~Live(l) /\ Live(l)'
    BY <1>1, <1>4 DEF Live
  <2>2. /\ IsFiniteSet(Units(Loans, Lent'))
        /\ Cardinality(Units(Loans, Lent')) = total_borrowed - 0 + x
    BY <1>3, <1>4, <2>1, LentChange
  <2>3. total_borrowed \in Nat
    BY DEF CountInv, PoolInv, TypeOK
  <2> QED BY <1>1, <1>2, <2>2, <2>3 DEF LentCounted
<1>11. PoolComesFirst'
  BY <1>1 DEF PoolComesFirst, PoolInitialized
<1> QED BY <1>7, <1>8, <1>9, <1>10, <1>11 DEF CountInv

\* What repayment and claim have in common: the order ends with status s, the
\* principal is no longer lent, and the borrower's profile, if it was passed,
\* counts the loan and loses its bond.
Settled(l, s, w) ==
    /\ OthersKept(l) /\ Live(l)
    /\ loan'[l].status = s /\ loan'[l].locked_skr = 0
    /\ UNCHANGED <<terms, loans_originated>>
    /\ loans_repaid' = loans_repaid + (IF s = "Repaid" THEN 1 ELSE 0)
    /\ total_borrowed' = Monus(total_borrowed, loan[l].principal_amount)
    /\ loan[l].locked_skr > 0 => w
    /\ \A v \in Users :
          LET own == w /\ v = Borrower(l) IN
          /\ profile'[v].total_loans_completed
                = profile[v].total_loans_completed + (IF own /\ s = "Repaid" THEN 1 ELSE 0)
          /\ profile'[v].total_loans_defaulted
                = profile[v].total_loans_defaulted + (IF own /\ s = "Defaulted" THEN 1 ELSE 0)
          /\ profile'[v].locked_skr
                = IF own THEN Monus(profile[v].locked_skr, loan[l].locked_skr)
                  ELSE profile[v].locked_skr
          /\ profile'[v].is_initialized = profile[v].is_initialized

LEMMA SettledCounts ==
    ASSUME CountInv, PoolInv', NEW l \in Loans, NEW s \in {"Repaid", "Defaulted"},
           NEW w \in BOOLEAN, Settled(l, s, w)
    PROVE  CountInv'
<1>t. /\ TypeOK /\ TypeOK' /\ IsFiniteSet(Used)
      /\ loan[l].status \in {"Active", "InGracePeriod"}
  BY DEF CountInv, PoolInv, LoansCounted, Settled, Live
<1>1. LoansCounted'
  <2>1. Used' = Used
    BY <1>t DEF Used, Settled, OthersKept
  <2>2. Cardinality(Repaid') = Cardinality(Repaid) + (IF s = "Repaid" THEN 1 ELSE 0)
    <3>1. CASE s = "Repaid"
      <4>1. Repaid' = Repaid \cup {l} /\ l \notin Repaid
        BY <1>t, <3>1 DEF Repaid, Settled, OthersKept
      <4>2. IsFiniteSet(Repaid)
        BY <1>t, StatusCounts
      <4> QED BY <3>1, <4>1, <4>2, FS_AddElement
    <3>2. CASE s # "Repaid"
      <4>1. Repaid' = Repaid
        BY <1>t, <3>2 DEF Repaid, Settled, OthersKept
      <4>2. Cardinality(Repaid) \in Nat
        BY <1>t, StatusCounts, FS_CardinalityType
      <4> QED BY <3>2, <4>1, <4>2
    <3> QED BY <3>1, <3>2
  <2> QED BY <2>1, <2>2 DEF CountInv, LoansCounted, Settled
<1>2. ProfilesCounted'
  <2> SUFFICES ASSUME NEW v \in Users
               PROVE  /\ profile'[v].total_loans_completed
                             <= Cardinality(LoansWith(v, "Repaid")')
                      /\ profile'[v].total_loans_defaulted
                             <= Cardinality(LoansWith(v, "Defaulted")')
    BY DEF ProfilesCounted
  <2>1. /\ profile[v].total_loans_completed \in Nat
        /\ profile[v].total_loans_defaulted \in Nat
        /\ profile[v].total_loans_completed <= Cardinality(LoansWith(v, "Repaid"))
        /\ profile[v].total_loans_defaulted <= Cardinality(LoansWith(v, "Defaulted"))
        /\ Cardinality(LoansWith(v, "Repaid")) \in Nat
        /\ Cardinality(LoansWith(v, "Defaulted")) \in Nat
    BY <1>t, StatusCounts DEF CountInv, ProfilesCounted, TypeOK, UserProfile
  <2>2. ASSUME NEW q \in {"Repaid", "Defaulted"}
        PROVE  Cardinality(LoansWith(v, q)')
                   = Cardinality(LoansWith(v, q)) + (IF s = q /\ Borrower(l) = v THEN 1 ELSE 0)
    <3>1. loan[l].status \notin {"Repaid", "Defaulted"} /\ OthersKept(l) /\ loan'[l].status = s
      BY <1>t DEF Settled
    <3>2. CASE s = q /\ Borrower(l) = v
      BY <1>t, <3>1, <3>2, StatusMoves
    <3>3. CASE ~(s = q /\ Borrower(l) = v)
      <4>1. LoansWith(v, q)' = LoansWith(v, q)
        BY <1>t, <3>1, <3>3, StatusMoves
      <4>2. Cardinality(LoansWith(v, q)) \in Nat
        BY <2>1
      <4> QED BY <3>3, <4>1, <4>2
    <3> QED BY <3>2, <3>3
  <2>3. /\ profile'[v].total_loans_completed
              <= profile[v].total_loans_completed
                     + (IF s = "Repaid" /\ Borrower(l) = v THEN 1 ELSE 0)
        /\ profile'[v].total_loans_defaulted
              <= profile[v].total_loans_defaulted
                     + (IF s = "Defaulted" /\ Borrower(l) = v THEN 1 ELSE 0)
    BY <2>1 DEF Settled
  <2>4. /\ profile'[v].total_loans_completed \in Nat
        /\ profile'[v].total_loans_defaulted \in Nat
    BY <1>t DEF TypeOK, UserProfile
  <2> QED BY <2>1, <2>2, <2>3, <2>4
<1>3. BondsCounted'
  <2>1. ASSUME NEW v \in Users
        PROVE  /\ IsFiniteSet(Units(Loans, Bonds(v)'))
               /\ profile'[v].locked_skr = Cardinality(Units(Loans, Bonds(v)'))
               /\ ~profile'[v].is_initialized => profile'[v].locked_skr = 0
    <3> DEFINE bond == IF Borrower(l) = v THEN loan[l].locked_skr ELSE 0
    <3>1. OthersKept(l) /\ loan'[l].locked_skr = 0
      BY DEF Settled
    <3>2. bond \in Nat /\ profile[v].locked_skr \in Nat
      BY <1>t DEF TypeOK, LoanOrder, UserProfile
    <3>3. /\ IsFiniteSet(Units(Loans, Bonds(v)'))
          /\ Cardinality(Units(Loans, Bonds(v)')) = profile[v].locked_skr - bond
          /\ bond <= profile[v].locked_skr
      <4>1. /\ IsFiniteSet(Units(Loans, Bonds(v)'))
            /\ Cardinality(Units(Loans, Bonds(v)')) = profile[v].locked_skr - bond
                   + (IF Borrower(l) = v THEN loan'[l].locked_skr ELSE 0)
            /\ bond <= profile[v].locked_skr
        BY <3>1, BondsChange
      <4> QED BY <3>1, <3>2, <4>1
    <3>4. profile'[v].locked_skr = profile[v].locked_skr - bond
      <4>1. loan[l].locked_skr \in Nat /\ (loan[l].locked_skr > 0 => w)
        BY <1>t DEF Settled, TypeOK, LoanOrder
      <4>2. CASE w /\ v = Borrower(l)
        <5>1. profile'[v].locked_skr = Monus(profile[v].locked_skr, loan[l].locked_skr)
          BY <4>2 DEF Settled
        <5> QED BY <3>2, <3>3, <4>2, <5>1 DEF Monus
      <4>3. CASE ~(w /\ v = Borrower(l))
        <5>1. profile'[v].locked_skr = profile[v].locked_skr
          BY <4>3 DEF Settled
        <5>2. bond = 0
          BY <4>1, <4>3
        <5> HIDE DEF bond
        <5> QED BY <3>2, <5>1, <5>2
      <4> QED BY <4>2, <4>3
    <3>5. profile'[v].is_initialized = profile[v].is_initialized
      BY DEF Settled
    <3>6. ~profile[v].is_initialized => profile[v].locked_skr = 0
      BY DEF CountInv, BondsCounted
    <3> HIDE DEF bond
    <3> QED BY <3>2, <3>3, <3>4, <3>5, <3>6
  <2>2. ASSUME NEW k \in Loans
        PROVE  loan'[k].locked_skr <= Greatest(Tier1Bond, Tier2Bond)
    BY ParameterAssumption DEF CountInv, BondsCounted, Settled, OthersKept, Greatest
  <2> QED BY <2>1, <2>2 DEF BondsCounted
<1>4. LentCounted'
  <2>1. OthersKept(l) /\ Live(l) /\ ~Live(l)'
    BY DEF Settled, Live
  <2>2. loan[l].principal_amount \in Nat /\ total_borrowed \in Nat
    BY <1>t DEF TypeOK, LoanOrder
  <2>3. /\ IsFiniteSet(Units(Loans, Lent'))
        /\ Cardinality(Units(Loans, Lent')) = total_borrowed - loan[l].principal_amount + 0
        /\ loan[l].principal_amount <= total_borrowed
    BY <2>1, LentChange
  <2>4. total_borrowed' = Monus(total_borrowed, loan[l].principal_amount)
    BY DEF Settled
  <2> QED BY <2>2, <2>3, <2>4 DEF LentCounted, Monus
<1>5. PoolComesFirst'
  <2>1. PoolInitialized
    BY <1>t DEF CountInv, PoolComesFirst
  <2> QED BY <2>1 DEF PoolComesFirst, PoolInitialized, Settled
<1> QED BY <1>1, <1>2, <1>3, <1>4, <1>5 DEF CountInv

LEMMA RepaySettles ==
    ASSUME CountInv, NEW l \in Loans, NEW w \in BOOLEAN, RepayLoan(l, w)
    PROVE  Settled(l, "Repaid", w)
<1> DEFINE u == Borrower(l)
           bond == loan[l].locked_skr
<1>1. /\ loan' = [loan EXCEPT ![l].status = "Repaid", ![l].is_active = FALSE,
                              ![l].locked_skr = 0]
      /\ profile' = IF w THEN [profile EXCEPT ![u] = CreditedProfile(@, bond)] ELSE profile
      /\ total_borrowed' = Monus(total_borrowed, loan[l].principal_amount)
      /\ loans_repaid' = loans_repaid + 1
      /\ UNCHANGED <<terms, loans_originated>>
      /\ loan[l].is_active /\ (bond > 0 => w)
  BY DEF RepayLoan
<1>2. /\ loan \in [Loans -> LoanOrder] /\ profile \in [Users -> UserProfile]
      /\ u \in Users /\ bond \in Nat
  BY DEF CountInv, PoolInv, TypeOK, LoanOrder, Loans, Borrower
<1>3. OthersKept(l) /\ loan'[l].status = "Repaid" /\ loan'[l].locked_skr = 0
  BY <1>1, <1>2 DEF OthersKept, LoanOrder
<1>4. Live(l)
  BY <1>1 DEF CountInv, PoolInv, LoansBacked, LoanBacked
<1> HIDE DEF bond
<1>5. ASSUME NEW v \in Users
      PROVE  /\ profile'[v].total_loans_completed
                    = profile[v].total_loans_completed + (IF w /\ v = u THEN 1 ELSE 0)
             /\ profile'[v].total_loans_defaulted = profile[v].total_loans_defaulted
             /\ profile'[v].locked_skr
                    = IF w /\ v = u THEN Monus(profile[v].locked_skr, bond)
                      ELSE profile[v].locked_skr
             /\ profile'[v].is_initialized = profile[v].is_initialized
             /\ profile[v].total_loans_defaulted \in Nat
  <2>1. profile[v] \in UserProfile
    BY <1>2
  <2>2. CASE w /\ v = u
    <3>1. profile'[v] = CreditedProfile(profile[v], bond)
      BY <1>1, <1>2, <2>2
    <3> QED BY <2>1, <2>2, <3>1 DEF CreditedProfile, UserProfile
  <2>3. CASE ~(w /\ v = u)
    <3>1. profile'[v] = profile[v]
      BY <1>1, <1>2, <2>3
    <3> QED BY <2>1, <2>3, <3>1 DEF UserProfile
  <2> QED BY <2>2, <2>3
<1> QED BY <1>1, <1>3, <1>4, <1>5 DEF Settled, bond

LEMMA ClaimSettles ==
    ASSUME CountInv, NEW l \in Loans, NEW w \in BOOLEAN,
           NEW dest \in Holders, NEW sd \in Holders, ClaimDefault(l, w, dest, sd)
    PROVE  Settled(l, "Defaulted", w)
<1> DEFINE u == Borrower(l)
           bond == loan[l].locked_skr
<1>1. /\ loan' = [loan EXCEPT ![l].status = "Defaulted", ![l].is_active = FALSE,
                              ![l].locked_skr = 0]
      /\ profile' = IF w THEN [profile EXCEPT ![u] = DebitedProfile(@, bond)] ELSE profile
      /\ total_borrowed' = Monus(total_borrowed, loan[l].principal_amount)
      /\ UNCHANGED <<terms, loans_originated, loans_repaid>>
      /\ loan[l].status = "InGracePeriod" /\ (bond > 0 => w)
  BY DEF ClaimDefault, MayClaim, Slashed
<1>2. /\ loan \in [Loans -> LoanOrder] /\ profile \in [Users -> UserProfile]
      /\ u \in Users /\ bond \in Nat /\ loans_repaid \in Nat
  BY DEF CountInv, PoolInv, TypeOK, LoanOrder, Loans, Borrower
<1>3. OthersKept(l) /\ loan'[l].status = "Defaulted" /\ loan'[l].locked_skr = 0
  BY <1>1, <1>2 DEF OthersKept, LoanOrder
<1>4. Live(l)
  BY <1>1 DEF Live
<1> HIDE DEF bond
<1>5. ASSUME NEW v \in Users
      PROVE  /\ profile'[v].total_loans_completed = profile[v].total_loans_completed
             /\ profile'[v].total_loans_defaulted
                    = profile[v].total_loans_defaulted + (IF w /\ v = u THEN 1 ELSE 0)
             /\ profile'[v].locked_skr
                    = IF w /\ v = u THEN Monus(profile[v].locked_skr, bond)
                      ELSE profile[v].locked_skr
             /\ profile'[v].is_initialized = profile[v].is_initialized
             /\ profile[v].total_loans_completed \in Nat
  <2>1. profile[v] \in UserProfile
    BY <1>2
  <2>2. CASE w /\ v = u
    <3>1. profile'[v] = DebitedProfile(profile[v], bond)
      BY <1>1, <1>2, <2>2
    <3> QED BY <2>1, <2>2, <3>1 DEF DebitedProfile, UserProfile
  <2>3. CASE ~(w /\ v = u)
    <3>1. profile'[v] = profile[v]
      BY <1>1, <1>2, <2>3
    <3> QED BY <2>1, <2>3, <3>1 DEF UserProfile
  <2> QED BY <2>2, <2>3
<1> QED BY <1>1, <1>2, <1>3, <1>4, <1>5 DEF Settled, bond

LEMMA CountNext == ASSUME CountInv, [Next]_vars PROVE CountInv'
<1>0. PoolInv'
  BY NextInv DEF CountInv
<1>1. CASE Lend
  BY <1>0, <1>1, InitializeCounts, LiquidityCounts DEF Lend
<1>2. CASE Stake
  BY <1>0, <1>2, StakeCounts DEF Stake
<1>3. CASE TakeLoan
  BY <1>0, <1>3, BorrowCounts DEF TakeLoan
<1>4. CASE Settle
  <2>1. ASSUME NEW l \in Loans, NEW w \in BOOLEAN, RepayLoan(l, w) PROVE CountInv'
    BY <1>0, <2>1, RepaySettles, SettledCounts
  <2>2. ASSUME NEW l \in Loans, NEW w \in BOOLEAN, NEW dest \in Holders,
               NEW sd \in Holders, ClaimDefault(l, w, dest, sd)
        PROVE  CountInv'
    BY <1>0, <2>2, ClaimSettles, SettledCounts
  <2>3. ASSUME NEW l \in Loans, NEW caller \in Users, TriggerGracePeriod(caller, l)
        PROVE  CountInv'
    BY <1>0, <2>3, TriggerCounts
  <2> QED BY <1>4, <2>1, <2>2, <2>3 DEF Settle
<1>5. CASE Donate \/ Tick \/ UNCHANGED vars
  BY <1>0, <1>5, OutsideCounts
<1> QED BY <1>1, <1>2, <1>3, <1>4, <1>5 DEF Next

LEMMA CountInvariant == Spec => []CountInv
<1>1. Init => CountInv
  BY CountInit
<1>2. CountInv /\ [Next]_vars => CountInv'
  BY CountNext
<1> QED BY <1>1, <1>2, PTL DEF Spec

-----------------------------------------------------------------------------
(* What follows.                                                           *)

\* loans_originated and loans_repaid are the numbers of the orders that exist
\* and that were repaid, and no profile counts a loan that did not end so.
THEOREM CountersAgree == Spec => []CountersMatchLoans
<1>1. CountInv => CountersMatchLoans
  BY DEF CountInv, LoansCounted, ProfilesCounted, CountersMatchLoans, Used, Repaid
<1> QED BY <1>1, CountInvariant, PTL

\* A profile's locked_skr is what its live loans have bonded, in whatever order
\* they were taken, repaid, put in grace and claimed, with or without profile.
THEOREM BondsAgree == Spec => []BondsMatchLoans
<1>1. CountInv => BondsMatchLoans
  <2> SUFFICES ASSUME CountInv, NEW u \in Users
               PROVE  BondUnits(u) = Units(Loans, Bonds(u))
    BY DEF BondsMatchLoans, CountInv, BondsCounted
  <2>1. \A l \in Loans : /\ loan[l].locked_skr \in Nat
                         /\ loan[l].locked_skr <= Greatest(Tier1Bond, Tier2Bond)
    BY DEF CountInv, PoolInv, TypeOK, LoanOrder, BondsCounted
  <2>2. Greatest(Tier1Bond, Tier2Bond) \in Nat
    BY ParameterAssumption DEF Greatest
  <2>3. ASSUME NEW x \in BondUnits(u) PROVE x \in Units(Loans, Bonds(u))
    BY <2>1, <2>2 DEF BondUnits, Units, Bonds
  <2>4. ASSUME NEW x \in Units(Loans, Bonds(u)) PROVE x \in BondUnits(u)
    BY <2>1, <2>2 DEF BondUnits, Units, Bonds
  <2> QED BY <2>3, <2>4
<1> QED BY <1>1, CountInvariant, PTL

\* process_trigger_grace_period and process_claim_default refuse the lender
\* nothing once the times are up: the collateral is there, and so is what is
\* slashed of the stake, whatever the borrower did in the meantime.
THEOREM LenderHasAWay == Spec => []LenderCanAlwaysAct
<1>1. ASSUME CountInv, NEW l \in Loans, loan[l].locked_skr > 0
      PROVE  profile[Borrower(l)].is_initialized
  <2> DEFINE u == Borrower(l)
             units == Units(Loans, Bonds(u))
  <2>1. /\ u \in Users /\ loan[l].locked_skr \in Nat /\ IsFiniteSet(units)
        /\ ~profile[u].is_initialized => Cardinality(units) = 0
    BY <1>1 DEF CountInv, PoolInv, TypeOK, LoanOrder, Loans, Borrower, BondsCounted
  <2>2. <<l, 1>> \in units
    BY <1>1, <2>1 DEF Units, Bonds
  <2> HIDE DEF units
  <2> QED BY <2>1, <2>2, FS_EmptySet
<1>2. CountInv => LenderCanAlwaysAct
  <2> SUFFICES ASSUME CountInv, NEW l \in Loans
               PROVE  /\ (loan[l].status = "Active" /\ now >= loan[l].due_time)
                           => MayTriggerGrace(Authority, l)
                      /\ (loan[l].status = "InGracePeriod"
                              /\ now >= loan[l].grace_period_expires)
                           => \E w \in BOOLEAN, dest \in Holders, sd \in Holders :
                                  MayClaim(l, w, dest, sd)
    BY DEF LenderCanAlwaysAct
  <2>1. TypeOK /\ LoanBacked(l) /\ StakeBacked
    BY DEF CountInv, PoolInv, LoansBacked
  <2>2. (loan[l].status = "Active" /\ now >= loan[l].due_time) => MayTriggerGrace(Authority, l)
    BY <2>1 DEF LoanBacked, Live, MayTriggerGrace
  <2>3. ASSUME loan[l].status = "InGracePeriod", now >= loan[l].grace_period_expires
        PROVE  \E w \in BOOLEAN, dest \in Holders, sd \in Holders : MayClaim(l, w, dest, sd)
    <3> DEFINE u == Borrower(l)
               w == profile[u].is_initialized
    <3>1. /\ u \in Users /\ profile[u] \in UserProfile /\ loan[l].locked_skr \in Nat
          /\ w \in BOOLEAN /\ skr_escrow[u] \in Nat
          /\ profile[u].staked_skr \in Nat /\ profile[u].staked_skr <= skr_escrow[u]
      BY <2>1 DEF Loans, Borrower, TypeOK, UserProfile, LoanOrder, StakeBacked
    <3>2. skr_escrow[u] >= Slashed(l, w)
      <4>1. CASE w
        <5>1. Slashed(l, w) = SlashAmount(profile[u], loan[l].locked_skr)
          BY <4>1 DEF Slashed
        <5> QED BY <3>1, <5>1, SlashBounds
      <4>2. CASE ~w
        BY <3>1, <4>2 DEF Slashed
      <4> QED BY <4>1, <4>2
    <3>3. escrow[l] >= loan[l].collateral_amount
      BY <2>1, <2>3 DEF LoanBacked, Live
    <3>4. loan[l].locked_skr > 0 => w
      BY <1>1
    <3>5. Authority \in LiquidationDestinations(loan[l].collateral_mint) /\ Authority \in Holders
      BY ActorAssumption DEF LiquidationDestinations, Holders
    <3>6. MayClaim(l, w, Authority, Authority)
      BY <2>3, <3>2, <3>3, <3>4, <3>5 DEF MayClaim
    <3> HIDE DEF w
    <3> QED BY <3>1, <3>5, <3>6
  <2> QED BY <2>2, <2>3
<1> QED BY <1>2, CountInvariant, PTL

\* total_borrowed is what the live loans owe in principal, so a repayment or a
\* claim never takes it below zero, where saturating_sub would hide the slip.
THEOREM PrincipalAgrees == Spec => []BorrowedMatchesLoans
<1>1. CountInv => BorrowedMatchesLoans
  <2> SUFFICES ASSUME CountInv PROVE LentUnits = Units(Loans, Lent)
    BY DEF BorrowedMatchesLoans, CountInv, LentCounted
  <2>1. \A l \in Loans : loan[l].principal_amount \in Nat
    BY DEF CountInv, PoolInv, TypeOK, LoanOrder
  <2>2. ASSUME NEW x \in LentUnits PROVE x \in Units(Loans, Lent)
    <3>1. PICK l \in Loans : Live(l) /\ x \in {l} \X (1..loan[l].principal_amount)
      BY DEF LentUnits
    <3>2. x[1] = l /\ x[2] \in 1..loan[l].principal_amount /\ x \in Loans \X Nat
      BY <2>1, <3>1
    <3> QED BY <2>1, <3>1, <3>2 DEF Units, Lent
  <2>3. ASSUME NEW x \in Units(Loans, Lent) PROVE x \in LentUnits
    <3>1. x = <<x[1], x[2]>> /\ x[1] \in Loans /\ x[2] \in Nat /\ x[2] # 0
      BY DEF Units
    <3>2. x[2] <= Lent[x[1]]
      BY DEF Units
    <3>3. Live(x[1]) /\ x[2] <= loan[x[1]].principal_amount
      BY <3>1, <3>2 DEF Lent
    <3>4. x \in {x[1]} \X (1..loan[x[1]].principal_amount)
      BY <2>1, <3>1, <3>3
    <3> QED BY <3>1, <3>3, <3>4 DEF LentUnits
  <2> QED BY <2>2, <2>3
<1> QED BY <1>1, CountInvariant, PTL

-----------------------------------------------------------------------------
(* The lender's book value.                                                *)

LEMMA NatSum == ASSUME NEW x \in Nat, NEW y \in Nat PROVE x + y \in Nat
OBVIOUS

\* Nobody's deposit, loan or repayment makes the pool worth less.
LEMMA AssetsKept ==
    ASSUME CountInv, PoolInv', PoolAssets' >= PoolAssets
    PROVE  LossIsExplained
<1>t. /\ total_liquidity \in Nat /\ total_borrowed \in Nat
      /\ total_liquidity' \in Nat /\ total_borrowed' \in Nat
  BY DEF CountInv, PoolInv, TypeOK
<1>1. PoolAssets \in Nat
  BY <1>t DEF PoolAssets
<1>2. PoolAssets' \in Nat
  <2>1. PoolAssets' = total_liquidity' + total_borrowed'
    BY DEF PoolAssets
  <2> QED BY <1>t, <2>1, NatSum
<1> QED BY <1>1, <1>2 DEF LossIsExplained

LEMMA LendExplained ==
    ASSUME CountInv, PoolInv', Lend
    PROVE  LossIsExplained
<1>t. /\ total_liquidity \in Nat /\ total_borrowed \in Nat /\ liq \in [Holders -> Nat]
      /\ total_liquidity' \in Nat /\ total_borrowed' \in Nat
      /\ Authority \in Holders /\ "vault" \in Holders /\ Authority # "vault"
  BY ActorAssumption DEF CountInv, PoolInv, TypeOK, Holders
<1>1. ASSUME NEW t, InitializePool(t) PROVE LossIsExplained
  <2>1. total_liquidity = 0 /\ \A l \in Loans : loan[l].status = "None"
    BY <1>1 DEF InitializePool, CountInv, PoolComesFirst
  <2>2. total_borrowed = 0
    <3>1. Lent \in [Loans -> Nat]
      BY WeightsType DEF CountInv, PoolInv
    <3>2. \A l \in Loans : Lent[l] = 0
      BY <2>1 DEF Lent, Live
    <3> QED BY <3>1, <3>2, NothingWeighs DEF CountInv, LentCounted
  <2>3. PoolAssets' >= PoolAssets
    <3>1. PoolAssets = 0
      BY <2>1, <2>2 DEF PoolAssets
    <3>2. PoolAssets' = total_liquidity' + total_borrowed'
      BY DEF PoolAssets
    <3>3. PoolAssets' \in Nat
      BY <1>t, <3>2, NatSum
    <3> QED BY <3>1, <3>3
  <2> QED BY <2>3, AssetsKept
<1>2. ASSUME NEW x \in LiquidityAmounts, DepositLiquidity(x) PROVE LossIsExplained
  <2>1. PoolAssets' >= PoolAssets
    BY <1>2, <1>t, InputAssumption DEF DepositLiquidity, PoolAssets
  <2> QED BY <2>1, AssetsKept
<1>3. ASSUME NEW x \in LiquidityAmounts, WithdrawLiquidity(x) PROVE LossIsExplained
  <2>1. /\ x \in Nat /\ total_liquidity >= x
        /\ total_liquidity' = Monus(total_liquidity, x)
        /\ total_borrowed' = total_borrowed
        /\ liq' = [liq EXCEPT !["vault"] = @ - x, ![Authority] = @ + x]
    BY <1>3, InputAssumption DEF WithdrawLiquidity
  <2>2. PoolAssets - PoolAssets' = x
    BY <1>t, <2>1 DEF PoolAssets, Monus
  <2>3. liq'[Authority] - liq[Authority] = x
    BY <1>t, <2>1
  <2> QED BY <2>2, <2>3 DEF LossIsExplained
<1> QED BY <1>1, <1>2, <1>3 DEF Lend

LEMMA SettleExplained ==
    ASSUME CountInv, PoolInv', NEW l \in Loans, NEW w \in BOOLEAN
    PROVE  /\ RepayLoan(l, w) => LossIsExplained
           /\ \A dest, sd \in Holders : ClaimDefault(l, w, dest, sd) => LossIsExplained
<1>t. /\ TypeOK /\ total_liquidity \in Nat /\ total_borrowed \in Nat
      /\ loan[l].principal_amount \in Nat /\ loan[l].interest_due \in Nat
  BY DEF CountInv, PoolInv, TypeOK, LoanOrder
<1>1. ASSUME NEW s \in {"Repaid", "Defaulted"}, Settled(l, s, w)
      PROVE  total_borrowed' = total_borrowed - loan[l].principal_amount
  <2>1. /\ OthersKept(l) /\ Live(l)
        /\ total_borrowed' = Monus(total_borrowed, loan[l].principal_amount)
    BY <1>1 DEF Settled
  <2>2. loan[l].principal_amount <= total_borrowed
    BY <2>1, LentChange
  <2> QED BY <1>t, <2>1, <2>2 DEF Monus
<1>2. ASSUME RepayLoan(l, w) PROVE LossIsExplained
  <2>1. total_borrowed' = total_borrowed - loan[l].principal_amount
    BY <1>1, <1>2, RepaySettles
  <2>2. total_liquidity' = total_liquidity + LenderRepay(l)
    BY <1>2 DEF RepayLoan
  <2>3. LenderRepay(l) \in Nat /\ LenderRepay(l) >= loan[l].principal_amount
    <3>1. LenderRepay(l) \in Nat
      BY <1>t, SettleAmounts
    <3>2. Monus(loan[l].interest_due, ProtocolFee(loan[l].interest_due)) \in Nat
      BY <1>t, SettleAmounts DEF Monus
    <3> QED BY <1>t, <3>1, <3>2 DEF LenderRepay
  <2>4. PoolAssets' >= PoolAssets
    BY <1>t, <2>1, <2>2, <2>3 DEF PoolAssets
  <2> QED BY <2>4, AssetsKept
<1>3. ASSUME NEW dest \in Holders, NEW sd \in Holders, ClaimDefault(l, w, dest, sd)
      PROVE  LossIsExplained
  <2>1. Settled(l, "Defaulted", w)
    BY <1>3, ClaimSettles
  <2>2. total_borrowed' = total_borrowed - loan[l].principal_amount
    BY <1>1, <2>1
  <2>3. total_liquidity' = total_liquidity
    BY <1>3 DEF ClaimDefault, MayClaim, Slashed
  <2>4. PoolAssets - PoolAssets' = loan[l].principal_amount
    BY <1>t, <2>2, <2>3 DEF PoolAssets
  <2>5. loan'[l].status = "Defaulted" /\ Live(l)
    BY <2>1 DEF Settled
  <2> QED BY <2>4, <2>5 DEF LossIsExplained
<1> QED BY <1>2, <1>3

\* The lender's assets fall only by what the lender takes out or by the
\* principal of one live loan that defaults in that step; rounding, fees, gifts
\* and the borrower's choice of accounts never cost the lender anything.
THEOREM LossesExplained == Spec => LossesAreExplained
<1>1. ASSUME CountInv, CountInv', [Next]_vars PROVE [LossIsExplained]_vars
  <2>t. /\ total_liquidity \in Nat /\ total_borrowed \in Nat
        /\ PoolInv'
    BY <1>1 DEF CountInv, PoolInv, TypeOK
  <2>1. CASE Lend
    BY <1>1, <2>1, <2>t, LendExplained
  <2>2. CASE TakeLoan
    <3>1. PICK l \in Loans, x \in BorrowAmounts, m \in Mints, c \in CollateralAmounts,
               d \in Durations, p \in Prices, w \in BOOLEAN, r \in YieldRoutes :
                   Borrow(l, x, m, c, d, p, w, r)
      BY <2>2 DEF TakeLoan
    <3>2. /\ x \in Nat /\ total_liquidity >= x
          /\ total_liquidity' = Monus(total_liquidity, x)
          /\ total_borrowed' = total_borrowed + x
      BY <3>1, InputAssumption DEF Borrow, BorrowGuard
    <3>3. PoolAssets' >= PoolAssets
      BY <2>t, <3>2 DEF PoolAssets, Monus
    <3> QED BY <1>1, <2>t, <3>3, AssetsKept
  <2>3. CASE Settle
    <3>1. ASSUME NEW l \in Loans, NEW w \in BOOLEAN,
                 \/ RepayLoan(l, w)
                 \/ \E dest \in Holders, sd \in Holders : ClaimDefault(l, w, dest, sd)
          PROVE  LossIsExplained
      BY <1>1, <2>t, <3>1, SettleExplained
    <3>2. ASSUME NEW l \in Loans, NEW caller \in Users, TriggerGracePeriod(caller, l)
          PROVE  LossIsExplained
      <4>1. PoolAssets' >= PoolAssets
        BY <2>t, <3>2 DEF TriggerGracePeriod, MayTriggerGrace, poolVars, PoolAssets
      <4> QED BY <1>1, <2>t, <4>1, AssetsKept
    <3> QED BY <2>3, <3>1, <3>2 DEF Settle
  <2>4. CASE Stake \/ Donate \/ Tick
    <3>1. PoolAssets' >= PoolAssets
      BY <2>t, <2>4 DEF Stake, StakeSkr, UnstakeSkr, Donate, DonateToVault,
         DonateToStakeEscrow, Tick, poolVars, PoolAssets
    <3> QED BY <1>1, <2>t, <3>1, AssetsKept
  <2> QED BY <1>1, <2>1, <2>2, <2>3, <2>4 DEF Next
<1> QED BY <1>1, CountInvariant, PTL DEF Spec, LossesAreExplained
=============================================================================
