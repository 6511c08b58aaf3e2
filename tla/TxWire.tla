------------------------------- MODULE TxWire -------------------------------
(***************************************************************************)
(* What the app's transaction builders (the build...Tx functions of        *)
(* onChainService.ts) list, and what the program (processor.rs) makes of   *)
(* it.  The program takes its first accounts by position and looks for     *)
(* optional ones among the rest, by address, owner and size: so what it    *)
(* finds depends on the accounts that exist where and when it runs, which  *)
(* need not be where and when the builder looked.                          *)
(*                                                                         *)
(* An account is named for the role it is listed for.  For SOL collateral  *)
(* the account of a wallet's collateral is the wallet itself.              *)
(***************************************************************************)
EXTENDS Naturals, Sequences, SequencesExt

CONSTANTS
    Clusters,       \* mainnet-beta, devnet
    DefaultCluster  \* where builders look that are not told the cluster

ASSUME WireAssumption == DefaultCluster \in Clusters

VARIABLES
    cluster,    \* selectedNetwork, where transactions are sent
    world,      \* [Clusters -> the accounts below that exist there]
    tx          \* the latest transaction, and what the program took from it

wireVars == <<cluster, world, tx>>

\* Accounts that may or may not exist when a transaction lists them.
Optional == {"profile", "stake_escrow", "yield_vault", "position", "treasury_tokens", "usdc_mint"}

None == "none"
Unbuilt == [op |-> None, keys |-> <<>>, amount |-> None,
            unread |-> FALSE, taken |-> <<>>]

WireInit ==
    /\ cluster \in Clusters
    /\ world = [n \in Clusters |-> {}]
    /\ tx = Unbuilt

\* None of them is ever closed; a position is one in a vault that exists.
\* Of a cluster that is not selected only its yield vault is ever looked at.
\* What the last transaction took is past.
Create(n, account) ==
    /\ account \notin world[n]
    /\ n = cluster \/ account = "yield_vault"
    /\ account = "position" => "yield_vault" \in world[n]
    /\ world' = [world EXCEPT ![n] = @ \cup {account}]
    /\ tx' = IF tx.taken = <<>> THEN tx ELSE Unbuilt
    /\ UNCHANGED cluster

-----------------------------------------------------------------------------
(* The builders.                                                           *)

Lists(op, keys) ==
    /\ tx' = [Unbuilt EXCEPT !.op = op, !.keys = keys]
    /\ UNCHANGED <<cluster, world>>

\* The handlers of App.tsx name no cluster; a vault that cannot be read, or was
\* not there when the cached answer was made, is left out.
WithYield(accounts) ==
    {<<>>} \cup IF "yield_vault" \in world[DefaultCluster] THEN {accounts} ELSE {}

BuildCreatePool ==
    Lists("InitializePool",
        <<"authority", "pool", "mint", "vault", "system_program", "rent", "token_program">>)

BuildDepositLiquidity ==
    Lists("DepositLiquidity", <<"authority", "pool", "tokens", "vault", "token_program">>)

BuildWithdrawLiquidity ==
    Lists("WithdrawLiquidity", <<"authority", "pool", "vault", "tokens", "token_program">>)

BuildBorrow ==
    \E yield \in WithYield(<<"yield_vault", "yield_tokens">>) :
        Lists("BorrowFromPool",
            <<"borrower", "pool", "loan", "vault", "tokens", "collateral", "escrow",
              "collateral_mint", "token_program", "system_program", "profile",
              "treasury_tokens", "feed">> \o yield)

\* Slip: the treasury is listed before the profile, which may not exist.
RepayKeysTreasuryFirst ==
    <<"borrower", "loan", "tokens", "destination", "escrow", "collateral", "pool",
      "treasury_tokens", "profile", "token_program", "system_program">>

RepayKeys ==
    <<"borrower", "loan", "tokens", "destination", "escrow", "collateral", "pool",
      "profile", "token_program", "system_program", "treasury_tokens">>

Repays(keys, shown, read) ==
    /\ tx' = [Unbuilt EXCEPT !.op = "RepayLoan", !.keys = keys,
                             !.amount = IF read THEN "due" ELSE shown, !.unread = ~read]
    /\ UNCHANGED <<cluster, world>>

\* The amount due is read from the loan, where the builder looks.  If it is not
\* to be read there it is what the screen shows: what a scan read or, for a
\* loan just taken, principal and an interest rounded to cents.
BuildRepay ==
    \E shown \in {"due", "rounded"}, read \in BOOLEAN :
        /\ read => cluster = DefaultCluster
        /\ Repays(RepayKeys, shown, read)

\* An offer with a funder has been scanned, and kept the amounts to the unit.
BuildRepayPawnOffer ==
    \E read \in BOOLEAN :
        /\ read => cluster = DefaultCluster
        /\ Repays(<<"borrower", "loan", "tokens", "destination", "escrow", "collateral",
                       "token_program", "system_program">>, "due", read)

BuildCreateP2POffer ==
    Lists("CreateP2POffer",
        <<"creator", "offer", "collateral", "escrow", "collateral_mint", "token_program",
          "system_program", "feed", "usdc_mint">>)

BuildFundP2POffer ==
    Lists("FundP2POffer", <<"funder", "offer", "tokens", "creator_tokens", "token_program">>)

BuildCancelPawnOffer ==
    \E spl \in {<<>>, <<"token_program">>} :
        Lists("CancelP2POffer",
            <<"creator", "offer", "escrow", "collateral">> \o spl \o <<"system_program">>)

BuildTriggerGracePeriod ==
    \E pool \in {<<>>, <<"pool">>} :
        Lists("TriggerGracePeriod", <<"caller", "loan">> \o pool \o <<"clock">>)

BuildClaimDefault ==
    \E borrower \in {<<>>, <<"profile", "stake_escrow">>}, slash \in {<<>>, <<"slash_tokens">>} :
        \E pool \in {<<>>, <<"pool">> \o borrower \o <<"treasury">> \o slash} :
            Lists("ClaimDefault",
                <<"caller", "loan", "escrow", "destination">> \o pool
                    \o <<"token_program", "system_program", "clock">>)

BuildStakeSkr ==
    \E yield \in WithYield(<<"yield_vault", "position">>) :
        Lists("StakeSKR",
            <<"user", "profile", "tokens", "stake_escrow", "system_program", "token_program",
              "skr_mint">> \o yield)

BuildUnstakeSkr ==
    \E yield \in WithYield(<<"yield_vault", "position">>) :
        Lists("UnstakeSKR",
            <<"user", "profile", "tokens", "stake_escrow", "token_program">> \o yield)

BuildWithdrawTreasury ==
    \E tokens \in {<<>>, <<"treasury_tokens", "token_program">>} :
        Lists("WithdrawTreasury",
            <<"admin", "admin_config", "treasury", "destination">> \o tokens
                \o <<"system_program">>)

BuildInitializeSkrYieldVault ==
    Lists("InitializeSkrYieldVault",
        <<"authority", "yield_vault", "mint", "yield_tokens", "system_program", "rent",
          "token_program", "admin_config">>)

BuildDepositSkrYield ==
    Lists("DepositSkrYield",
        <<"depositor", "yield_vault", "tokens", "yield_tokens", "token_program">>)

BuildWithdrawUnusedYield ==
    Lists("WithdrawUnusedYield",
        <<"authority", "yield_vault", "yield_tokens", "tokens", "token_program">>)

\* The wallet's token account for the rewards is created along the way.
BuildClaimSkrYield ==
    Lists("ClaimSkrYield",
        <<"user", "yield_vault", "position", "yield_tokens", "tokens", "token_program",
          "system_program", "stake_escrow">>)

-----------------------------------------------------------------------------
(* What the program takes: [roles -> the account taken for it, or none].   *)

\* What is taken first, with what is taken besides.
With(first, more) ==
    [r \in DOMAIN first \cup DOMAIN more |-> IF r \in DOMAIN first THEN first[r] ELSE more[r]]

\* The first accounts, by position.
First(roles) ==
    [r \in ToSet(roles) |-> tx.keys[CHOOSE i \in DOMAIN roles : roles[i] = r]]
Rest(roles) == SubSeq(tx.keys, Len(roles) + 1, Len(tx.keys))

\* The places of some accounts where one of those looked for is.
Places(accounts, wanted) == {i \in DOMAIN accounts : accounts[i] \in wanted}

\* The last and the first of those found.
LastOf(accounts, wanted) ==
    IF Places(accounts, wanted) = {} THEN None ELSE accounts[Max(Places(accounts, wanted))]
FirstOf(accounts, wanted) ==
    IF Places(accounts, wanted) = {} THEN None ELSE accounts[Min(Places(accounts, wanted))]

Exists(k) == k \in world[cluster] \/ k \notin Optional
Existing(accounts) == {k \in accounts : Exists(k)}

\* Accounts found by address, whether they exist or not, or by what they hold.
Found(rest, byAddress, byContent) ==
    With([r \in byAddress |-> LastOf(rest, {r})],
         [r \in byContent |-> LastOf(rest, Existing({r}))])

TakesBorrow ==
    LET roles == <<"borrower", "pool", "loan", "vault", "tokens", "collateral", "escrow",
                   "collateral_mint", "token_program", "system_program">>
    IN  With(First(roles),
             Found(Rest(roles), {"profile", "yield_vault", "yield_tokens", "feed"},
                   {"treasury_tokens"}))

\* The treasury is the last account that is nothing else.
TakesRepay ==
    LET roles == <<"borrower", "loan", "tokens", "destination", "escrow", "collateral">>
        known == Existing({"token_program", "system_program", "pool", "profile"})
        treasury == LastOf(Rest(roles), ToSet(Rest(roles)) \ known)
    IN  With(First(roles),
             With(Found(Rest(roles), {"token_program", "system_program"}, {"pool", "profile"}),
                  [r \in {"treasury_tokens"} |-> treasury]))

\* A mint the cluster does not have is not taken: the offer is in devnet USDC.
TakesCreateP2POffer ==
    LET roles == <<"creator", "offer", "collateral", "escrow", "collateral_mint",
                   "token_program", "system_program">>
    IN  With(First(roles), Found(Rest(roles), {"feed"}, {"usdc_mint"}))

TakesCancel ==
    LET roles == <<"creator", "offer", "escrow", "collateral">>
    IN  With(First(roles), Found(Rest(roles), {"token_program", "system_program"}, {}))

\* The third account is the pool if it is the loan's.
TakesGrace ==
    With(First(<<"caller", "loan">>),
         [r \in {"pool"} |-> IF tx.keys[3] = "pool" THEN "pool" ELSE None])

\* The treasury's own address comes before an account of no known kind.
TakesClaim ==
    LET roles == <<"caller", "loan", "escrow", "destination">>
        rest == Rest(roles)
        known == Existing({"token_program", "system_program", "clock", "pool", "profile",
                           "stake_escrow", "slash_tokens"})
        treasury == IF "treasury" \in ToSet(rest) THEN "treasury"
                    ELSE FirstOf(rest, ToSet(rest) \ known)
    IN  With(First(roles),
             With(Found(rest, {"token_program", "system_program"},
                        {"pool", "profile", "stake_escrow", "slash_tokens"}),
                  [r \in {"treasury"} |-> treasury]))

\* The yield vault is looked for among all accounts, the position with it.
TakesYield ==
    LET vault == LastOf(tx.keys, Existing({"yield_vault"}))
        position == IF vault = None THEN None ELSE LastOf(tx.keys, {"position"})
    IN  [r \in {"yield_vault", "position"} |-> IF r = "position" THEN position ELSE vault]

TakesStake ==
    With(First(<<"user", "profile", "tokens", "stake_escrow", "system_program",
                 "token_program", "skr_mint">>), TakesYield)

\* The sixth account is the pool only if it is one.
TakesUnstake ==
    LET pool == IF Len(tx.keys) > 5 /\ tx.keys[6] = "pool" THEN "pool" ELSE None
    IN  With(First(<<"user", "profile", "tokens", "stake_escrow", "token_program">>),
             With(TakesYield, [r \in {"pool"} |-> pool]))

TakesWithdrawTreasury ==
    With(First(<<"admin", "admin_config", "treasury", "destination">>),
         IF Len(tx.keys) < 7 THEN [r \in {"system_program"} |-> None]
         ELSE With([r \in {"system_program"} |-> tx.keys[7]],
                   [r \in {"treasury_tokens"} |-> LastOf(<<tx.keys[5]>>, Existing({r}))]))

\* Handlers that take all their accounts by position.
Roles(op) ==
    CASE op = "InitializePool" ->
           <<"authority", "pool", "mint", "vault", "system_program", "rent">>
      [] op = "DepositLiquidity" ->
           <<"authority", "pool", "tokens", "vault", "token_program">>
      [] op = "WithdrawLiquidity" ->
           <<"authority", "pool", "vault", "tokens", "token_program">>
      [] op = "FundP2POffer" ->
           <<"funder", "offer", "tokens", "creator_tokens", "token_program">>
      [] op = "InitializeSkrYieldVault" ->
           <<"authority", "yield_vault", "mint", "yield_tokens", "system_program", "rent",
             "token_program", "admin_config">>
      [] op = "DepositSkrYield" ->
           <<"depositor", "yield_vault", "tokens", "yield_tokens", "token_program">>
      [] op = "WithdrawUnusedYield" ->
           <<"authority", "yield_vault", "yield_tokens", "tokens", "token_program">>
      [] op = "ClaimSkrYield" ->
           <<"user", "yield_vault", "position", "yield_tokens", "tokens", "token_program",
             "system_program", "stake_escrow">>

Takes ==
    CASE tx.op = "BorrowFromPool" -> TakesBorrow
      [] tx.op = "RepayLoan" -> TakesRepay
      [] tx.op = "CreateP2POffer" -> TakesCreateP2POffer
      [] tx.op = "CancelP2POffer" -> TakesCancel
      [] tx.op = "TriggerGracePeriod" -> TakesGrace
      [] tx.op = "ClaimDefault" -> TakesClaim
      [] tx.op = "StakeSKR" -> TakesStake
      [] tx.op = "UnstakeSKR" -> TakesUnstake
      [] tx.op = "WithdrawTreasury" -> TakesWithdrawTreasury
      [] OTHER -> First(Roles(tx.op))

Execute ==
    /\ tx.op # None /\ tx.taken = <<>>
    /\ tx' = [tx EXCEPT !.taken = Takes]
    /\ UNCHANGED <<cluster, world>>

-----------------------------------------------------------------------------
Build ==
    \/ BuildCreatePool \/ BuildDepositLiquidity \/ BuildWithdrawLiquidity
    \/ BuildBorrow \/ BuildRepay \/ BuildTriggerGracePeriod \/ BuildClaimDefault
    \/ BuildCreateP2POffer \/ BuildFundP2POffer \/ BuildCancelPawnOffer
    \/ BuildRepayPawnOffer \/ BuildStakeSkr \/ BuildUnstakeSkr
    \/ BuildInitializeSkrYieldVault \/ BuildDepositSkrYield \/ BuildClaimSkrYield
    \/ BuildWithdrawUnusedYield \/ BuildWithdrawTreasury

WireNext ==
    \/ Execute
    \/ (tx.op = None \/ tx.taken # <<>>) /\ Build
    \/ \E n \in Clusters, account \in Optional : Create(n, account)

WireSpec == WireInit /\ [][WireNext]_wireVars

-----------------------------------------------------------------------------
Listed(r) == \E i \in DOMAIN tx.keys : tx.keys[i] = r

\* A withdrawal of SOL from the treasury lists the system program where the
\* program expects the treasury's tokens, and it is not found.
SolFromTreasury == tx.op = "WithdrawTreasury" /\ Len(tx.keys) = 5

\* The program takes for each role the account the builder listed for it, and
\* none but one that was not listed or does not exist, whichever accounts have
\* come to be since the builder looked and on whichever cluster; what belongs
\* together is taken together; and the amount of a repayment, which the program
\* wants to the unit, is the amount due, unless the loan could not be read
\* where the builder looked for it.
TransactionsAreUnderstood ==
    LET taken == tx.taken
        both(r, s) == {r, s} \subseteq DOMAIN taken => (taken[r] = None <=> taken[s] = None)
    IN  /\ \A r \in DOMAIN taken :
              /\ taken[r] \in {r, None}
              /\ Listed(r) /\ Exists(r) => taken[r] = r \/ SolFromTreasury
        /\ both("yield_vault", "yield_tokens") /\ both("yield_vault", "position")
        /\ tx.amount = "rounded" => tx.unread
=============================================================================
