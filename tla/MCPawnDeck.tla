----------------------------- MODULE MCPawnDeck -----------------------------
(* PawnDeck on small instances: a creator and two peers who may fund. *)
EXTENDS PawnDeckPawn, TLC

CONSTANTS a, b, c       \* a creator and two peers

MCUsers == {a, b, c}
Usdc(x, y, z) == [m \in LiquidityMints |-> (a :> x) @@ (b :> y) @@ (c :> z)]
Wallets(x, y, z) == (a :> x) @@ (b :> y) @@ (c :> z)

\* Collateral for two offers; the interest must come from elsewhere.
MCLiquidity == Usdc(4, 9, 9)
MCCollateral == [SOL |-> Wallets(20, 0, 0), SKR |-> Wallets(10, 0, 0)]
\* Everybody can fund; one wallet lists, the others hold dust for its escrows.
MCLiquidityMutual == Usdc(9, 9, 9)
MCCollateralDust == [SOL |-> Wallets(10, 1, 0), SKR |-> Wallets(10, 0, 1)]

\* The peers are interchangeable in the instance without them as creators.
Peers == Permutations({b, c})

-----------------------------------------------------------------------------
(* Liveness: time passes and every funder is diligent; nothing is assumed  *)
(* of the creator.  The clock is bounded as in MCLoanPool.                 *)

WithinHorizon ==
    /\ \A o \in Offers : offer'[o].due_time + GracePeriod <= Horizon
    /\ now' > Horizon - GracePeriod
          => \A o \in Offers : offer[o].status # "Funded"

LiveSpec ==
    /\ Init /\ [][Next /\ WithinHorizon]_vars
    /\ WF_vars(Tick /\ WithinHorizon)
    /\ \A o \in Offers :
          /\ WF_vars(TriggerGracePeriod(offer[o].funder, o) /\ WithinHorizon)
          /\ WF_vars(ClaimDefault(o))

\* A funder never waits for ever: a funded offer ends repaid or defaulted.
EveryPawnSettles == \A o \in Offers : Taken(o) ~> Settled(o)
=============================================================================
