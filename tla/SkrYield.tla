------------------------------ MODULE SkrYield ------------------------------
(***************************************************************************)
(* The SKR yield vault of the ClockLend program: rewards in one mint are   *)
(* divided among SKR stakers by an accumulator of rewards per share        *)
(* (program/src/processor.rs, the yield instructions and the vault syncs   *)
(* inside StakeSkr, UnstakeSkr and ClaimDefault).                          *)
(*                                                                         *)
(* A user's shares are a cached copy of the balance of the user's stake    *)
(* escrow.  The copy is refreshed by a claim, and by staking, unstaking    *)
(* and slashing only when the caller passes the vault's accounts along.    *)
(* Which stake is locked as a bond, and who is slashed when, is LoanPool's *)
(* business: here any of the stake can be withdrawn or slashed.  An escrow *)
(* that does not exist is one with nothing in it.                          *)
(***************************************************************************)
EXTENDS Integers, FiniteSets

CONSTANTS
    Users,          \* stakers
    YieldScale,     \* YIELD_SCALE, 10^12 in the source
    MinStakeAge,    \* MIN_STAKE_AGE_SECS, 3600 in the source
    InitialSkr,     \* [Users -> Nat], SKR in the wallets
    \* Inputs: what a caller may ask for.
    Stakes, Rewards, EscrowGifts, VaultGifts,
    Synced,         \* whether callers pass the vault's accounts along
    MaxRewards,     \* bound on rewards and gifts (model checking only)
    Horizon         \* bound on the clock (model checking only)

ASSUME YieldParameterAssumption ==
    /\ YieldScale \in Nat \ {0}
    /\ MinStakeAge \in Nat
    /\ InitialSkr \in [Users -> Nat]
    /\ Stakes \subseteq Nat \ {0}
    /\ Rewards \subseteq Nat \ {0}
    /\ EscrowGifts \subseteq Nat /\ VaultGifts \subseteq Nat
    /\ Synced \subseteq BOOLEAN
    /\ MaxRewards \in Nat /\ Horizon \in Nat

VARIABLES
    now,        \* Clock::get()?.unix_timestamp
    vault,      \* the SkrYieldVault account
    position,   \* [Users -> UserYieldPosition]
    escrow,     \* SKR in each user's stake escrow
    staked,     \* staked_skr of each user's profile
    skr,        \* SKR in the wallets
    funds       \* balance of the vault's token account

vars == <<now, vault, position, escrow, staked, skr, funds>>

-----------------------------------------------------------------------------
Least(x, y) == IF x <= y THEN x ELSE y
Monus(x, y) == IF x >= y THEN x - y ELSE 0

NoVault == [initialized |-> FALSE, total_staked_skr |-> 0,
            acc_reward_per_share |-> 0, total_rewards_distributed |-> 0,
            pending_rewards |-> 0, unallocated_rewards |-> 0]

NoPosition == [exists |-> FALSE, staked_skr |-> 0, reward_debt |-> 0,
               accrued_rewards |-> 0, total_claimed |-> 0,
               last_interaction_time |-> 0]

Init ==
    /\ now = 0
    /\ vault = NoVault
    /\ position = [u \in Users |-> NoPosition]
    /\ escrow = [u \in Users |-> 0]
    /\ staked = [u \in Users |-> 0]
    /\ skr = InitialSkr
    /\ funds = 0

\* Slip: a vault that exists is set up anew.
InitializeVaultAgain ==
    /\ vault' = [NoVault EXCEPT !.initialized = TRUE]
    /\ UNCHANGED <<now, position, escrow, staked, skr, funds>>
InitializeVault ==
    /\ ~vault.initialized
    /\ vault' = [NoVault EXCEPT !.initialized = TRUE]
    /\ UNCHANGED <<now, position, escrow, staked, skr, funds>>

-----------------------------------------------------------------------------
(* Shares.                                                                 *)

Gross(shares) == (shares * vault.acc_reward_per_share) \div YieldScale

\* What position p has earned since it was last brought up to date, on no more
\* shares than the stake escrow backs.
Harvest(p, backing) == Monus(Gross(Least(p.staked_skr, backing)), p.reward_debt)

\* A position is created when it is first needed.
Opened(u) ==
    IF position[u].exists THEN position[u]
    ELSE [NoPosition EXCEPT !.exists = TRUE, !.last_interaction_time = now]

\* Slip: the debt stays that of the old shares.
RebasedKeepsDebt(p, target, earned) ==
    [p EXCEPT !.staked_skr = target, !.accrued_rewards = @ + earned]
\* The position with its shares set to target and the earnings up to here in
\* its account.
Rebased(p, target, earned) ==
    [p EXCEPT !.staked_skr = target, !.reward_debt = Gross(target),
              !.accrued_rewards = @ + earned]

\* Slip: the vault's total is left alone when shares go up.
ReshareDownOnly(p, target) ==
    [vault EXCEPT !.total_staked_skr = Monus(@, Monus(p.staked_skr, target))]
Reshare(p, target) ==
    [vault EXCEPT !.total_staked_skr =
        Monus(@ + Monus(target, p.staked_skr), Monus(p.staked_skr, target))]

\* Staking, unstaking and slashing forfeit what a stake earned that was not
\* left alone for MinStakeAge.
Sync(u, p, backing, target) ==
    LET held == now - p.last_interaction_time >= MinStakeAge
        earned == IF held THEN Harvest(p, backing) ELSE 0
    IN  /\ vault' = Reshare(p, target)
        /\ position' = [position EXCEPT ![u] =
               [Rebased(p, target, earned) EXCEPT !.last_interaction_time = now]]

-----------------------------------------------------------------------------
(* Stake comes and goes.                                                   *)

StakeSkr(u, amount, synced) ==
    LET after == escrow[u] + amount IN
    /\ amount > 0 /\ skr[u] >= amount
    /\ skr' = [skr EXCEPT ![u] = @ - amount]
    /\ escrow' = [escrow EXCEPT ![u] = after]
    /\ staked' = [staked EXCEPT ![u] = @ + amount]
    /\ IF synced /\ vault.initialized
       THEN Sync(u, Opened(u), escrow[u], after)
       ELSE UNCHANGED <<vault, position>>
    /\ UNCHANGED <<now, funds>>

\* The shares left after stake was taken away: neither more than the cached
\* copy less the amount, nor more than the escrow still holds.
SharesLeft(u, amount) ==
    Least(Monus(position[u].staked_skr, amount), escrow[u] - amount)

StakeLeaves(u, amount, synced) ==
    /\ staked[u] >= amount /\ escrow[u] >= amount
    /\ escrow' = [escrow EXCEPT ![u] = @ - amount]
    /\ staked' = [staked EXCEPT ![u] = @ - amount]
    /\ IF synced /\ vault.initialized /\ position[u].exists
       THEN Sync(u, position[u], escrow[u], SharesLeft(u, amount))
       ELSE UNCHANGED <<vault, position>>
    /\ UNCHANGED <<now, funds>>

UnstakeSkr(u, amount, synced) ==
    /\ amount > 0
    /\ StakeLeaves(u, amount, synced)
    /\ skr' = [skr EXCEPT ![u] = @ + amount]

\* The slash of a claimed default.  The SKR goes to the lender or the treasury.
Slash(u, amount, synced) ==
    /\ amount > 0
    /\ StakeLeaves(u, amount, synced)
    /\ UNCHANGED skr

-----------------------------------------------------------------------------
(* Rewards.  DepositYield is a transfer by the vault's authority; a borrow *)
(* pays the stakers' half of its origination fee in the same way.          *)

\* accrue_yield: while there are shares the amount and a quarter of the backlog
\* go to them; otherwise the amount joins the backlog.
Accrued(amount) ==
    LET fold == (vault.unallocated_rewards + 3) \div 4 IN
    [vault EXCEPT
        !.acc_reward_per_share =
            IF vault.total_staked_skr = 0 THEN @
            ELSE @ + ((amount + fold) * YieldScale) \div vault.total_staked_skr,
        !.unallocated_rewards =
            IF vault.total_staked_skr = 0 THEN @ + amount ELSE @ - fold,
        !.total_rewards_distributed = @ + amount,
        !.pending_rewards = @ + amount]

DepositYield(amount) ==
    /\ vault.initialized /\ amount > 0
    /\ vault.total_rewards_distributed + amount <= MaxRewards
    /\ funds' = funds + amount
    /\ vault' = Accrued(amount)
    /\ UNCHANGED <<now, position, escrow, staked, skr>>

\* A transfer into the token account that no instruction of the program made.
DonateToVault(amount) ==
    /\ vault.initialized
    /\ funds + amount <= MaxRewards
    /\ funds' = funds + amount
    /\ UNCHANGED <<now, vault, position, escrow, staked, skr>>

\* SKR sent to somebody's stake escrow: counted as shares by the next sync.
DonateToEscrow(u, to, amount) ==
    /\ skr[u] >= amount
    /\ skr' = [skr EXCEPT ![u] = @ - amount]
    /\ escrow' = [escrow EXCEPT ![to] = @ + amount]
    /\ UNCHANGED <<now, vault, position, staked, funds>>

\* Slip: everything is unused.
WithdrawUnusedAll ==
    /\ vault.initialized
    /\ funds > 0
    /\ funds' = 0
    /\ UNCHANGED <<now, vault, position, escrow, staked, skr>>
\* The authority takes what is above pending_rewards.
WithdrawUnused ==
    /\ vault.initialized
    /\ funds > vault.pending_rewards
    /\ funds' = vault.pending_rewards
    /\ UNCHANGED <<now, vault, position, escrow, staked, skr>>

\* Bring the position up to date with the escrow and pay what is in its
\* account, as far as the vault can.  Something to pay too soon after the last
\* payout or change of stake refuses the claim as a whole.
ClaimYield(u) ==
    LET p == Opened(u)
        banked == p.accrued_rewards + Harvest(p, escrow[u])
        payout == Least(banked, funds)
        rested == escrow[u] = p.staked_skr /\ payout = 0
    IN  /\ vault.initialized
        /\ banked > 0 => now - p.last_interaction_time >= MinStakeAge
        /\ vault' = [Reshare(p, escrow[u]) EXCEPT
                        !.pending_rewards = Monus(@, payout)]
        /\ position' = [position EXCEPT ![u] =
               [Rebased(p, escrow[u], Harvest(p, escrow[u])) EXCEPT
                   !.accrued_rewards = @ - payout,
                   !.total_claimed = @ + payout,
                   !.last_interaction_time = IF rested THEN @ ELSE now]]
        /\ funds' = funds - payout
        /\ UNCHANGED <<now, escrow, staked, skr>>

-----------------------------------------------------------------------------
Tick ==
    /\ now < Horizon
    /\ now' = now + 1
    /\ UNCHANGED <<vault, position, escrow, staked, skr, funds>>

Stake ==
    \E u \in Users, x \in Stakes, s \in Synced :
        StakeSkr(u, x, s) \/ UnstakeSkr(u, x, s) \/ Slash(u, x, s)

Gift ==
    \/ \E x \in VaultGifts : DonateToVault(x)
    \/ \E u, to \in Users, x \in EscrowGifts : DonateToEscrow(u, to, x)

Next ==
    \/ InitializeVault
    \/ Stake
    \/ \E x \in Rewards : DepositYield(x)
    \/ \E u \in Users : ClaimYield(u)
    \/ WithdrawUnused
    \/ Gift
    \/ Tick

Spec == Init /\ [][Next]_vars

-----------------------------------------------------------------------------
(* Properties.                                                             *)

SkrYieldVault ==
    [initialized : BOOLEAN, total_staked_skr : Nat, acc_reward_per_share : Nat,
     total_rewards_distributed : Nat, pending_rewards : Nat,
     unallocated_rewards : Nat]
UserYieldPosition ==
    [exists : BOOLEAN, staked_skr : Nat, reward_debt : Nat,
     accrued_rewards : Nat, total_claimed : Nat, last_interaction_time : Nat]

\* Every account field and balance stays in its range.
TypeOK ==
    /\ now \in Nat
    /\ vault \in SkrYieldVault
    /\ position \in [Users -> UserYieldPosition]
    /\ escrow \in [Users -> Nat]
    /\ staked \in [Users -> Nat]
    /\ skr \in [Users -> Nat]
    /\ funds \in Nat

\* What was promised to the stakers is in the vault, whoever deposits, donates,
\* claims and withdraws in between.
FundsCoverPending == funds >= vault.pending_rewards

\* A position's debt never exceeds what its shares have earned in all, so that
\* the clamp in Harvest hides no loss; it can be ahead only of shares the
\* escrow no longer backs.
DebtIsEarned(u) == position[u].reward_debt <= Gross(position[u].staked_skr)

\* A stake escrow holds at least the stake of the user's profile, and no
\* position was touched in the future.
StakeIsThere(u) ==
    /\ escrow[u] >= staked[u]
    /\ position[u].last_interaction_time <= now
    /\ ~position[u].exists => position[u] = NoPosition

\* The inductive invariant of the vault.
YieldInv ==
    /\ TypeOK
    /\ FundsCoverPending
    /\ \A u \in Users : DebtIsEarned(u) /\ StakeIsThere(u)
    /\ ~vault.initialized =>
           /\ vault = NoVault /\ funds = 0
           /\ \A u \in Users : ~position[u].exists

\* The vault divides every reward among exactly the shares it has given out,
\* whichever calls are synced and whatever is sent to an escrow (a unit is a
\* pair of a staker and an index up to the staker's shares).
ShareUnits == UNION {{u} \X (1..position[u].staked_skr) : u \in Users}
SharesMatchPositions == vault.total_staked_skr = Cardinality(ShareUnits)

\* What a claim could credit a user with now.
Entitlement(u) ==
    position[u].accrued_rewards + Harvest(position[u], escrow[u])

\* Nobody else's stake, claim or deposit takes from what a user is entitled to,
\* nor does what the user staked or forfeited change what others are.
OthersCannotDiminish ==
    [][\A u \in Users :
          (position'[u] = position[u] /\ escrow'[u] >= escrow[u]) =>
              Entitlement(u)' >= Entitlement(u)]_vars
=============================================================================
