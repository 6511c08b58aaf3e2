--------------------------- MODULE MCPawnDeckApp ---------------------------
(* PawnDeckApp on small instances: this wallet, a creator and a rival. *)
EXTENDS PawnDeckApp, MCPawnDeck

\* This wallet and the rival can fund one offer, the creator repay one.
MCLiquidityApp == Usdc(1, 2, 2)
MCCollateralApp == [SOL |-> Wallets(1, 1, 0), SKR |-> Wallets(0, 0, 0)]
=============================================================================
