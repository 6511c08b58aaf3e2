---------------------------- MODULE MCLoanPool ----------------------------
(* LoanPool on small instances: one lender, one or two borrowers. *)
EXTENDS LoanPoolPawn, TLC

CONSTANTS a, b      \* the pool authority and a borrower

MCUsers == {a, b}
MCTerms == {[interest_rate_bps |-> 1000, max_ltv_bps |-> 5000,
             min_duration |-> 1, max_duration |-> 2, is_oracle_free |-> FALSE]}
MCLiquidity == (a :> 800) @@ (b :> 60)
\* SOL collateral for one loan, SKR stake for both bond tiers.
SolAndStake == [SOL |-> (a :> 0) @@ (b :> 40), SKR |-> (a :> 0) @@ (b :> 10)]

\* SOL collateral only, for the runs that follow loans over time.
SolOnly == [SOL |-> (a :> 0) @@ (b :> 40), SKR |-> (a :> 0) @@ (b :> 2)]

\* Fees: both sides hold both kinds of collateral, so the lender may borrow
\* from its own pool, and a donor has tokens to spare.
MCLiquidityFees == (a :> 1600) @@ (b :> 85)
BothMints == [SOL |-> (a :> 0) @@ (b :> 20), SKR |-> (a :> 20) @@ (b :> 29)]

-----------------------------------------------------------------------------
(* Liveness.  The clock goes on, and a diligent lender starts grace periods *)
(* and claims; nothing is assumed of the borrower.  To fit the bounded      *)
(* clock, every due time leaves room for a grace period before the horizon, *)
(* and the last GracePeriod ticks wait for the grace periods to be started. *)

WithinHorizon ==
    /\ \A l \in Loans : loan'[l].due_time + GracePeriod <= Horizon
    /\ now' > Horizon - GracePeriod
          => \A l \in Loans : loan[l].status # "Active"

DiligentLender ==
    \A l \in Loans :
        /\ WF_vars(TriggerGracePeriod(Authority, l) /\ WithinHorizon)
        /\ WF_vars(\E w \in BOOLEAN, dest \in Holders, sd \in Holders :
                       ClaimDefault(l, w, dest, sd))

LiveSpec == /\ Init /\ [][Next /\ WithinHorizon]_vars
            /\ WF_vars(Tick /\ WithinHorizon)
            /\ DiligentLender

\* No loan stays open for ever, and no bond stays locked for ever: the
\* collateral and the stake behind it always end up with one of the parties.
EveryLoanSettles ==
    \A l \in Loans : loan[l].is_active ~> (~Live(l) /\ loan[l].locked_skr = 0)

-----------------------------------------------------------------------------
(* What processor.rs says and the program does not do.                     *)

\* On the origination fee: when the yield account is of another
\* mint, fail open to the treasury, so that every fee leaves the vault.
FeeLeavesVault(l) ==
    (loan[l].status = "None" /\ loan'[l].status = "Active") =>
        (liq'["treasury"] - liq["treasury"]) + (liq'["yield"] - liq["yield"])
            = OriginationFee(loan'[l].collateral_mint, loan'[l].principal_amount)
FeeFailsOpenToTreasury == [][\A l \in Loans : FeeLeavesVault(l)]_vars
=============================================================================
