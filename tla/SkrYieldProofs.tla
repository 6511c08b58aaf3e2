--------------------------- MODULE SkrYieldProofs ---------------------------
(***************************************************************************)
(* What is proved of SkrYield for every set of stakers, scale, stake age   *)
(* and input: the inductive invariant YieldInv, that the vault covers what *)
(* it has promised, and that nobody's entitlement is diminished by what    *)
(* others do.                                                              *)
(*                                                                         *)
(* The argument rests on two facts.  The accumulator never decreases, and  *)
(* a position's debt is the gross yield of its shares at some earlier      *)
(* accumulator: rounding down is monotone, so the debt stays earned.       *)
(***************************************************************************)
EXTENDS SkrRounding, UnitSums, TLAPS

-----------------------------------------------------------------------------
(* Arithmetic. *)

\* Multiplication by a natural number is monotone.
LEMMA TimesMonotone ==
    ASSUME NEW x \in Nat, NEW y \in Nat, NEW c \in Nat, x <= y
    PROVE  x * c <= y * c /\ c * x <= c * y /\ x * c \in Nat /\ c * x \in Nat
OBVIOUS

\* So is rounding down a quotient.
LEMMA DivMonotone ==
    ASSUME NEW x \in Nat, NEW y \in Nat, NEW s \in Nat \ {0}, x <= y
    PROVE  x \div s <= y \div s /\ x \div s \in Nat
OBVIOUS

\* The helpers Least and Monus stay among the naturals and are monotone.
LEMMA Clamps ==
    ASSUME NEW x \in Nat, NEW y \in Nat
    PROVE  /\ Least(x, y) \in Nat /\ Least(x, y) <= x /\ Least(x, y) <= y
           /\ Monus(x, y) \in Nat
           /\ \A z \in Nat : x <= z => /\ Least(x, y) <= Least(z, y)
                                       /\ Least(y, x) <= Least(y, z)
                                       /\ Monus(x, y) <= Monus(z, y)
BY DEF Least, Monus

-----------------------------------------------------------------------------
(* Shares and what they earn. *)

\* The gross yield of any number of shares is a natural number.
LEMMA GrossNat ==
    ASSUME vault \in SkrYieldVault, NEW x \in Nat
    PROVE  Gross(x) \in Nat
<1>1. vault.acc_reward_per_share \in Nat
  BY DEF SkrYieldVault
<1>2. x * vault.acc_reward_per_share \in Nat
  BY <1>1
<1> QED
  BY <1>2, DivMonotone, YieldParameterAssumption DEF Gross

\* What a position has earned is a natural number.
LEMMA HarvestNat ==
    ASSUME vault \in SkrYieldVault, NEW p \in UserYieldPosition, NEW b \in Nat
    PROVE  Harvest(p, b) \in Nat
<1>1. p.staked_skr \in Nat /\ p.reward_debt \in Nat
  BY DEF UserYieldPosition
<1>2. Gross(Least(p.staked_skr, b)) \in Nat
  BY <1>1, Clamps, GrossNat
<1> QED
  BY <1>1, <1>2, Clamps DEF Harvest

\* Changing a position's shares changes nothing of the vault but their total.
LEMMA ReshareFacts ==
    ASSUME vault \in SkrYieldVault, NEW p \in UserYieldPosition, NEW t \in Nat
    PROVE  /\ Reshare(p, t) \in SkrYieldVault
           /\ Reshare(p, t).initialized = vault.initialized
           /\ Reshare(p, t).acc_reward_per_share = vault.acc_reward_per_share
           /\ Reshare(p, t).pending_rewards = vault.pending_rewards
           /\ Reshare(p, t).unallocated_rewards = vault.unallocated_rewards
           /\ Reshare(p, t).total_rewards_distributed = vault.total_rewards_distributed
<1> DEFINE n == Monus(vault.total_staked_skr + Monus(t, p.staked_skr),
                      Monus(p.staked_skr, t))
<1>1. n \in Nat
  BY DEF Monus, SkrYieldVault, UserYieldPosition
<1>2. Reshare(p, t) = [vault EXCEPT !.total_staked_skr = n]
  BY DEF Reshare
<1> HIDE DEF n
<1> DEFINE v == [vault EXCEPT !.total_staked_skr = n]
<1>3. /\ v \in SkrYieldVault
      /\ v.acc_reward_per_share = vault.acc_reward_per_share
      /\ v.pending_rewards = vault.pending_rewards
      /\ v.unallocated_rewards = vault.unallocated_rewards
      /\ v.total_rewards_distributed = vault.total_rewards_distributed
  BY <1>1 DEF SkrYieldVault
<1>4. v.initialized = vault.initialized
  BY Zenon DEF SkrYieldVault
<1> QED
  BY <1>2, <1>3, <1>4

\* A position brought up to date owes exactly what its shares have earned.
LEMMA RebasedFacts ==
    ASSUME vault \in SkrYieldVault, NEW p \in UserYieldPosition,
           NEW t \in Nat, NEW e \in Nat
    PROVE  /\ Rebased(p, t, e) \in UserYieldPosition
           /\ Rebased(p, t, e).staked_skr = t
           /\ Rebased(p, t, e).reward_debt = Gross(t)
           /\ Rebased(p, t, e).accrued_rewards = p.accrued_rewards + e
           /\ Rebased(p, t, e).total_claimed = p.total_claimed
           /\ Rebased(p, t, e).last_interaction_time = p.last_interaction_time
           /\ Rebased(p, t, e).exists = p.exists
<1>1. Gross(t) \in Nat
  BY GrossNat
<1>2. p.accrued_rewards + e \in Nat
  BY DEF UserYieldPosition
<1> QED
  BY <1>1, <1>2 DEF Rebased, UserYieldPosition

\* A position that is opened is a position, and is not from the future.
LEMMA OpenedFacts ==
    ASSUME TypeOK, NEW u \in Users, StakeIsThere(u)
    PROVE  /\ Opened(u) \in UserYieldPosition /\ Opened(u).exists
           /\ Opened(u).last_interaction_time \in Nat
           /\ Opened(u).last_interaction_time <= now
<1>1. position[u] \in UserYieldPosition /\ now \in Nat
  BY DEF TypeOK
<1>2. CASE position[u].exists
  BY <1>1, <1>2 DEF Opened, StakeIsThere, UserYieldPosition
<1>3. CASE ~position[u].exists
  <2>1. Opened(u) = [[NoPosition EXCEPT !.exists = TRUE]
                        EXCEPT !.last_interaction_time = now]
    BY <1>3 DEF Opened
  <2>2. [NoPosition EXCEPT !.exists = TRUE] \in UserYieldPosition
    BY DEF NoPosition, UserYieldPosition
  <2>3. [NoPosition EXCEPT !.exists = TRUE].exists
    BY Zenon DEF NoPosition
  <2> DEFINE o == [NoPosition EXCEPT !.exists = TRUE]
  <2> HIDE DEF o
  <2>4. o \in UserYieldPosition /\ o.exists
        /\ Opened(u) = [o EXCEPT !.last_interaction_time = now]
    BY <2>1, <2>2, <2>3 DEF o
  <2> QED
    BY <1>1, <2>4 DEF UserYieldPosition
<1> QED
  BY <1>2, <1>3

-----------------------------------------------------------------------------
(* One position is written at a time. *)

\* The vault changes in nothing an untouched position depends on but for an
\* accumulator that may have grown.
Grows ==
    /\ vault' \in SkrYieldVault
    /\ vault.acc_reward_per_share <= vault'.acc_reward_per_share

\* A larger accumulator only adds to the gross yield.
LEMMA GrossGrows ==
    ASSUME vault \in SkrYieldVault, Grows, NEW x \in Nat, NEW y \in Nat, x <= y
    PROVE  Gross(x) <= Gross(y)' /\ Gross(x) \in Nat /\ Gross(y)' \in Nat
<1> DEFINE a == vault.acc_reward_per_share
           b == vault'.acc_reward_per_share
<1>1. a \in Nat /\ b \in Nat /\ a <= b
  BY DEF Grows, SkrYieldVault
<1>2. x * a <= y * a /\ y * a <= y * b /\ x * a \in Nat /\ y * a \in Nat
      /\ y * b \in Nat
  BY <1>1, TimesMonotone
<1>3. x * a <= y * b
  BY <1>2
<1>4. (x * a) \div YieldScale <= (y * b) \div YieldScale
      /\ (x * a) \div YieldScale \in Nat /\ (y * b) \div YieldScale \in Nat
  BY <1>2, <1>3, DivMonotone, YieldParameterAssumption
<1>5. Gross(x) = (x * a) \div YieldScale /\ Gross(y)' = (y * b) \div YieldScale
  BY DEF Gross
<1> QED
  BY <1>4, <1>5

\* A position that a step does not write keeps its part of the invariant.
LEMMA Untouched ==
    ASSUME TypeOK, Grows, now' >= now, now' \in Nat, NEW u \in Users,
           DebtIsEarned(u), StakeIsThere(u), position'[u] = position[u],
           escrow'[u] >= staked'[u]
    PROVE  DebtIsEarned(u)' /\ StakeIsThere(u)'
<1>1. position[u] \in UserYieldPosition /\ vault \in SkrYieldVault /\ now \in Nat
  BY DEF TypeOK
<1>2. position[u].staked_skr \in Nat /\ position[u].reward_debt \in Nat
      /\ position[u].last_interaction_time \in Nat
  BY <1>1 DEF UserYieldPosition
<1>3. Gross(position[u].staked_skr) <= Gross(position[u].staked_skr)'
      /\ Gross(position[u].staked_skr) \in Nat
      /\ Gross(position[u].staked_skr)' \in Nat
  BY <1>1, <1>2, GrossGrows
<1>4. DebtIsEarned(u)'
  BY <1>2, <1>3 DEF DebtIsEarned
<1>5. StakeIsThere(u)'
  BY <1>1, <1>2 DEF StakeIsThere
<1> QED
  BY <1>4, <1>5

\* A sync writes one position, and leaves its debt at what its shares earned.
LEMMA SyncFacts ==
    ASSUME TypeOK, NEW u \in Users, NEW p \in UserYieldPosition,
           NEW b \in Nat, NEW t \in Nat, p.exists, Sync(u, p, b, t)
    PROVE  /\ Grows
           /\ vault'.initialized = vault.initialized
           /\ vault'.pending_rewards = vault.pending_rewards
           /\ position' \in [Users -> UserYieldPosition]
           /\ \A w \in Users \ {u} : position'[w] = position[w]
           /\ position'[u].exists
           /\ position'[u].last_interaction_time = now
           /\ position'[u].staked_skr = t
           /\ position'[u].reward_debt = Gross(t)
<1> DEFINE held == now - p.last_interaction_time >= MinStakeAge
           e == IF held THEN Harvest(p, b) ELSE 0
           r == Rebased(p, t, e)
           q == [r EXCEPT !.last_interaction_time = now]
<1>1. vault \in SkrYieldVault /\ now \in Nat
      /\ position \in [Users -> UserYieldPosition]
  BY DEF TypeOK
<1>2. vault' = Reshare(p, t) /\ position' = [position EXCEPT ![u] = q]
  BY DEF Sync
<1>3. e \in Nat
  <2>1. Harvest(p, b) \in Nat
    BY <1>1, HarvestNat
  <2> QED
    BY <2>1
<1> HIDE DEF e
<1>4. /\ r \in UserYieldPosition /\ r.exists = p.exists
      /\ r.staked_skr = t /\ r.reward_debt = Gross(t)
  BY <1>1, <1>3, RebasedFacts
<1> HIDE DEF r
<1>5. /\ q \in UserYieldPosition /\ q.exists = r.exists
      /\ q.staked_skr = r.staked_skr /\ q.reward_debt = r.reward_debt
      /\ q.last_interaction_time = now
  BY <1>1, <1>4 DEF UserYieldPosition
<1> HIDE DEF q
<1>6. /\ vault' \in SkrYieldVault
      /\ vault'.acc_reward_per_share = vault.acc_reward_per_share
      /\ vault'.initialized = vault.initialized
      /\ vault'.pending_rewards = vault.pending_rewards
  BY <1>1, <1>2, ReshareFacts
<1>7. Grows
  BY <1>1, <1>6 DEF Grows, SkrYieldVault
<1>8. /\ position' \in [Users -> UserYieldPosition]
      /\ position'[u] = q
      /\ \A w \in Users \ {u} : position'[w] = position[w]
  BY <1>1, <1>2, <1>5
<1>9. position'[u].exists
  BY <1>4, <1>5, <1>8, Zenon
<1>10. position'[u].last_interaction_time = now /\ position'[u].staked_skr = t
       /\ position'[u].reward_debt = Gross(t)
  BY <1>4, <1>5, <1>8
<1> QED
  BY <1>6, <1>7, <1>8, <1>9, <1>10

\* A position just written by a claim or a sync is in order.
LEMMA Written ==
    ASSUME TypeOK, Grows, now' = now, NEW u \in Users, NEW t \in Nat,
           position'[u].exists, position'[u].staked_skr = t,
           position'[u].reward_debt = Gross(t),
           position'[u].last_interaction_time <= now,
           escrow'[u] >= staked'[u]
    PROVE  DebtIsEarned(u)' /\ StakeIsThere(u)'
<1>1. vault \in SkrYieldVault
  BY DEF TypeOK
<1>2. Gross(t) <= Gross(t)'
  BY <1>1, GrossGrows
<1>3. DebtIsEarned(u)'
  BY <1>2 DEF DebtIsEarned
<1>4. StakeIsThere(u)'
  BY DEF StakeIsThere
<1> QED
  BY <1>3, <1>4

-----------------------------------------------------------------------------
(* One lemma per kind of step. *)

\* Staking, unstaking and slashing: a stake moves, and its position is either
\* brought up to date or left alone.
LEMMA StakeMoves ==
    ASSUME YieldInv, NEW u \in Users, NEW e \in Nat, NEW s \in Nat, e >= s,
           escrow' = [escrow EXCEPT ![u] = e],
           staked' = [staked EXCEPT ![u] = s],
           skr' \in [Users -> Nat], UNCHANGED <<now, funds>>,
           \/ UNCHANGED <<vault, position>>
           \/ /\ vault.initialized
              /\ \E p \in UserYieldPosition, b \in Nat, t \in Nat :
                     p.exists /\ Sync(u, p, b, t)
    PROVE  YieldInv' /\ Grows
<1>1. TypeOK /\ FundsCoverPending
      /\ \A w \in Users : DebtIsEarned(w) /\ StakeIsThere(w)
  BY DEF YieldInv
<1>2. escrow \in [Users -> Nat] /\ staked \in [Users -> Nat]
      /\ vault \in SkrYieldVault /\ now \in Nat /\ funds \in Nat
      /\ position \in [Users -> UserYieldPosition]
  BY <1>1 DEF TypeOK
<1>3. \A w \in Users : escrow'[w] >= staked'[w]
  BY <1>1, <1>2 DEF StakeIsThere
<1>4. escrow' \in [Users -> Nat] /\ staked' \in [Users -> Nat]
  BY <1>2
<1>5. CASE UNCHANGED <<vault, position>>
  <2>1. Grows
    BY <1>2, <1>5 DEF Grows, SkrYieldVault
  <2>2. TypeOK'
    BY <1>2, <1>4, <1>5 DEF TypeOK
  <2>3. \A w \in Users : DebtIsEarned(w)' /\ StakeIsThere(w)'
    BY <1>1, <1>2, <1>3, <1>5, <2>1, Untouched
  <2>4. FundsCoverPending'
    BY <1>1, <1>5 DEF FundsCoverPending
  <2> QED
    BY <1>5, <2>1, <2>2, <2>3, <2>4 DEF YieldInv
<1>6. CASE vault.initialized /\ \E p \in UserYieldPosition, b \in Nat, t \in Nat :
                                   p.exists /\ Sync(u, p, b, t)
  <2>1. PICK p \in UserYieldPosition, b \in Nat, t \in Nat :
            p.exists /\ Sync(u, p, b, t)
    BY <1>6
  <2>2. /\ Grows
        /\ vault'.initialized = vault.initialized
        /\ vault'.pending_rewards = vault.pending_rewards
        /\ position' \in [Users -> UserYieldPosition]
        /\ \A w \in Users \ {u} : position'[w] = position[w]
        /\ position'[u].exists
        /\ position'[u].last_interaction_time = now
        /\ position'[u].staked_skr = t
        /\ position'[u].reward_debt = Gross(t)
    BY <1>1, <2>1, SyncFacts
  <2>3. TypeOK'
    BY <1>2, <1>4, <2>2 DEF TypeOK, Grows
  <2>4. DebtIsEarned(u)' /\ StakeIsThere(u)'
    BY <1>1, <1>2, <1>3, <2>2, Written
  <2>5. ASSUME NEW w \in Users \ {u}
        PROVE  DebtIsEarned(w)' /\ StakeIsThere(w)'
    BY <1>1, <1>2, <1>3, <2>2, Untouched
  <2>6. FundsCoverPending'
    BY <1>1, <2>2 DEF FundsCoverPending
  <2> QED
    BY <1>6, <2>2, <2>3, <2>4, <2>5, <2>6 DEF YieldInv
<1> QED
  BY <1>5, <1>6

\* Staking.
LEMMA StakeSkrKeeps ==
    ASSUME YieldInv, NEW u \in Users, NEW x \in Nat, NEW synced,
           StakeSkr(u, x, synced)
    PROVE  YieldInv' /\ Grows
<1>1. /\ TypeOK /\ StakeIsThere(u)
      /\ escrow \in [Users -> Nat] /\ staked \in [Users -> Nat]
      /\ skr \in [Users -> Nat]
  BY DEF YieldInv, TypeOK
<1>2. /\ escrow[u] \in Nat /\ escrow[u] + x \in Nat /\ staked[u] + x \in Nat
      /\ escrow[u] + x >= staked[u] + x
  BY <1>1 DEF StakeIsThere
<1>3. skr' \in [Users -> Nat]
  BY <1>1 DEF StakeSkr
<1>4. Opened(u) \in UserYieldPosition /\ Opened(u).exists
  BY <1>1, OpenedFacts
<1>5. \/ UNCHANGED <<vault, position>>
      \/ /\ vault.initialized
         /\ \E p \in UserYieldPosition, b \in Nat, t \in Nat :
                p.exists /\ Sync(u, p, b, t)
  BY <1>2, <1>4 DEF StakeSkr
<1>6. /\ escrow' = [escrow EXCEPT ![u] = escrow[u] + x]
      /\ staked' = [staked EXCEPT ![u] = staked[u] + x]
      /\ UNCHANGED <<now, funds>>
  BY <1>1 DEF StakeSkr
<1> QED
  BY <1>2, <1>3, <1>5, <1>6, StakeMoves

\* Unstaking and slashing.
LEMMA StakeLeavesKeeps ==
    ASSUME YieldInv, NEW u \in Users, NEW x \in Nat, NEW synced,
           StakeLeaves(u, x, synced), skr' \in [Users -> Nat]
    PROVE  YieldInv' /\ Grows
<1>1. /\ TypeOK /\ StakeIsThere(u)
      /\ escrow \in [Users -> Nat] /\ staked \in [Users -> Nat]
      /\ position \in [Users -> UserYieldPosition]
  BY DEF YieldInv, TypeOK
<1>2. /\ escrow[u] \in Nat /\ staked[u] \in Nat
      /\ staked[u] >= x /\ escrow[u] >= x
  BY <1>1 DEF StakeLeaves
<1>3. /\ escrow[u] - x \in Nat /\ staked[u] - x \in Nat
      /\ escrow[u] - x >= staked[u] - x
  BY <1>1, <1>2 DEF StakeIsThere
<1>4. position[u] \in UserYieldPosition /\ position[u].staked_skr \in Nat
  BY <1>1 DEF UserYieldPosition
<1>5. SharesLeft(u, x) \in Nat
  BY <1>3, <1>4, Clamps DEF SharesLeft
<1>6. \/ UNCHANGED <<vault, position>>
      \/ /\ vault.initialized
         /\ \E p \in UserYieldPosition, b \in Nat, t \in Nat :
                p.exists /\ Sync(u, p, b, t)
  BY <1>2, <1>4, <1>5 DEF StakeLeaves
<1>7. /\ escrow' = [escrow EXCEPT ![u] = escrow[u] - x]
      /\ staked' = [staked EXCEPT ![u] = staked[u] - x]
      /\ UNCHANGED <<now, funds>>
  BY <1>1 DEF StakeLeaves
<1> QED
  BY <1>3, <1>6, <1>7, StakeMoves

\* Steps that leave every position and stake as they are: the vault may only be
\* set up, be promised more, or have what it does not owe taken out.
LEMMA VaultMoves ==
    ASSUME YieldInv, Grows, UNCHANGED <<position, staked>>,
           now' \in Nat, now' >= now, skr' \in [Users -> Nat],
           escrow' \in [Users -> Nat],
           \A w \in Users : escrow'[w] >= escrow[w],
           funds' \in Nat, funds' >= vault'.pending_rewards,
           ~vault'.initialized => vault' = NoVault /\ funds' = 0
                                  /\ ~vault.initialized
    PROVE  YieldInv'
<1>1. TypeOK /\ \A w \in Users : DebtIsEarned(w) /\ StakeIsThere(w)
  BY DEF YieldInv
<1>2. escrow \in [Users -> Nat] /\ staked \in [Users -> Nat]
      /\ position \in [Users -> UserYieldPosition]
  BY <1>1 DEF TypeOK
<1>3. TypeOK'
  BY <1>2 DEF TypeOK, Grows
<1>4. ASSUME NEW w \in Users
      PROVE  DebtIsEarned(w)' /\ StakeIsThere(w)'
  <2>1. escrow'[w] >= staked'[w]
    BY <1>1, <1>2 DEF StakeIsThere
  <2> QED
    BY <1>1, <2>1, Untouched
<1> QED
  BY <1>3, <1>4 DEF YieldInv, FundsCoverPending

\* Accrual only raises the accumulator, and promises what was paid in.
LEMMA AccruedFacts ==
    ASSUME vault \in SkrYieldVault, NEW x \in Nat
    PROVE  /\ Accrued(x) \in SkrYieldVault
           /\ Accrued(x).initialized = vault.initialized
           /\ Accrued(x).pending_rewards = vault.pending_rewards + x
           /\ Accrued(x).acc_reward_per_share >= vault.acc_reward_per_share
<1> DEFINE fold == (vault.unallocated_rewards + 3) \div 4
           share == ((x + fold) * YieldScale) \div vault.total_staked_skr
           acc == IF vault.total_staked_skr = 0 THEN vault.acc_reward_per_share
                  ELSE vault.acc_reward_per_share + share
           rest == IF vault.total_staked_skr = 0
                   THEN vault.unallocated_rewards + x
                   ELSE vault.unallocated_rewards - fold
           given == vault.total_rewards_distributed + x
           owed == vault.pending_rewards + x
<1>1. /\ vault.unallocated_rewards \in Nat /\ vault.total_staked_skr \in Nat
      /\ vault.acc_reward_per_share \in Nat /\ given \in Nat /\ owed \in Nat
  BY DEF SkrYieldVault
<1>2. fold \in Nat /\ fold <= vault.unallocated_rewards
  BY <1>1
<1>3. rest \in Nat
  BY <1>1, <1>2
<1>4. acc \in Nat /\ acc >= vault.acc_reward_per_share
  <2>1. CASE vault.total_staked_skr = 0
    BY <1>1, <2>1
  <2>2. CASE vault.total_staked_skr # 0
    <3>1. (x + fold) * YieldScale \in Nat
      BY <1>2, YieldParameterAssumption
    <3>2. share \in Nat
      BY <1>1, <2>2, <3>1, DivMonotone
    <3> QED
      BY <1>1, <2>2, <3>2
  <2> QED
    BY <2>1, <2>2
<1>5. Accrued(x) = [[[[vault EXCEPT !.acc_reward_per_share = acc]
                         EXCEPT !.unallocated_rewards = rest]
                         EXCEPT !.total_rewards_distributed = given]
                         EXCEPT !.pending_rewards = owed]
  BY DEF Accrued
<1> HIDE DEF acc, rest, given, owed
<1> DEFINE v == [[[[vault EXCEPT !.acc_reward_per_share = acc]
                      EXCEPT !.unallocated_rewards = rest]
                      EXCEPT !.total_rewards_distributed = given]
                      EXCEPT !.pending_rewards = owed]
<1>6. v \in SkrYieldVault /\ v.pending_rewards = owed
      /\ v.acc_reward_per_share = acc
  BY <1>1, <1>3, <1>4 DEF SkrYieldVault
<1>7. v.initialized = vault.initialized
  BY Zenon DEF SkrYieldVault
<1> HIDE DEF v
<1>8. Accrued(x) = v
  BY <1>5 DEF v
<1> QED
  BY <1>4, <1>6, <1>7, <1>8 DEF owed

\* A deposit of rewards.
LEMMA DepositYieldKeeps ==
    ASSUME YieldInv, NEW x \in Nat, DepositYield(x)
    PROVE  YieldInv' /\ Grows
<1>1. TypeOK /\ FundsCoverPending
  BY DEF YieldInv
<1>2. /\ vault \in SkrYieldVault /\ funds \in Nat /\ now \in Nat
      /\ escrow \in [Users -> Nat] /\ skr \in [Users -> Nat]
  BY <1>1 DEF TypeOK
<1>3. vault.initialized /\ vault' = Accrued(x) /\ funds' = funds + x
      /\ UNCHANGED <<now, position, escrow, staked, skr>>
  BY DEF DepositYield
<1>4. /\ vault' \in SkrYieldVault
      /\ vault'.initialized = vault.initialized
      /\ vault'.pending_rewards = vault.pending_rewards + x
      /\ vault'.acc_reward_per_share >= vault.acc_reward_per_share
  BY <1>2, <1>3, AccruedFacts
<1>5. Grows
  BY <1>2, <1>4 DEF Grows, SkrYieldVault
<1>6. funds' \in Nat /\ funds' >= vault'.pending_rewards
  BY <1>1, <1>2, <1>3, <1>4 DEF FundsCoverPending, SkrYieldVault
<1>7. vault'.initialized
  BY <1>3, <1>4, Zenon
<1> QED
  BY <1>1, <1>2, <1>3, <1>5, <1>6, <1>7, VaultMoves

\* The vault is set up.
LEMMA InitializeVaultKeeps ==
    ASSUME YieldInv, InitializeVault
    PROVE  YieldInv' /\ Grows
<1>1. TypeOK /\ vault = NoVault /\ funds = 0
  BY DEF YieldInv, InitializeVault
<1>2. /\ now \in Nat /\ escrow \in [Users -> Nat] /\ skr \in [Users -> Nat]
  BY <1>1 DEF TypeOK
<1>3. /\ vault' = [initialized |-> TRUE, total_staked_skr |-> 0,
                   acc_reward_per_share |-> 0, total_rewards_distributed |-> 0,
                   pending_rewards |-> 0, unallocated_rewards |-> 0]
      /\ UNCHANGED <<now, position, escrow, staked, skr, funds>>
  BY DEF InitializeVault, NoVault
<1>4. Grows
  BY <1>1, <1>3 DEF Grows, SkrYieldVault, NoVault
<1>5. vault'.initialized /\ vault'.pending_rewards = 0
  BY <1>3
<1> QED
  BY <1>1, <1>2, <1>3, <1>4, <1>5, VaultMoves

\* The steps that leave the vault account alone.
LEMMA IdleVaultKeeps ==
    ASSUME YieldInv, UNCHANGED <<vault, position, staked>>,
           now' \in Nat, now' >= now, skr' \in [Users -> Nat],
           escrow' \in [Users -> Nat],
           \A w \in Users : escrow'[w] >= escrow[w],
           funds' \in Nat, funds' >= vault.pending_rewards,
           ~vault.initialized => funds' = 0
    PROVE  YieldInv' /\ Grows
<1>1. vault \in SkrYieldVault
  BY DEF YieldInv, TypeOK
<1>2. Grows
  BY <1>1 DEF Grows, SkrYieldVault
<1> QED
  BY <1>2, VaultMoves DEF YieldInv

\* A claim.
LEMMA ClaimYieldKeeps ==
    ASSUME YieldInv, NEW u \in Users, ClaimYield(u)
    PROVE  YieldInv' /\ Grows
<1> DEFINE p == Opened(u)
           b == escrow[u]
           h == Harvest(p, b)
           payout == Least(p.accrued_rewards + h, funds)
           r == Rebased(p, b, h)
           n == Reshare(p, b)
           t == IF b = p.staked_skr /\ payout = 0
                THEN r.last_interaction_time ELSE now
           q == [r EXCEPT !.accrued_rewards = @ - payout,
                          !.total_claimed = @ + payout,
                          !.last_interaction_time = t]
<1>1. /\ TypeOK /\ FundsCoverPending
      /\ \A w \in Users : DebtIsEarned(w) /\ StakeIsThere(w)
  BY DEF YieldInv
<1>2. /\ vault \in SkrYieldVault /\ funds \in Nat /\ now \in Nat
      /\ escrow \in [Users -> Nat] /\ skr \in [Users -> Nat]
      /\ staked \in [Users -> Nat]
      /\ position \in [Users -> UserYieldPosition]
  BY <1>1 DEF TypeOK
<1>3. p \in UserYieldPosition /\ p.exists
      /\ p.last_interaction_time \in Nat /\ p.last_interaction_time <= now
  BY <1>1, OpenedFacts
<1>4. b \in Nat
  BY <1>2
<1>5. /\ vault' = [n EXCEPT !.pending_rewards = Monus(@, payout)]
      /\ position' = [position EXCEPT ![u] = q]
      /\ vault.initialized
      /\ funds' = funds - payout
      /\ UNCHANGED <<now, escrow, staked, skr>>
  BY DEF ClaimYield
<1> HIDE DEF p
<1>6. h \in Nat
  BY <1>2, <1>3, <1>4, HarvestNat
<1>7. b = escrow[u]
  OBVIOUS
<1> HIDE DEF h, b
<1>8. /\ r \in UserYieldPosition /\ r.staked_skr = b
      /\ r.reward_debt = Gross(b) /\ r.exists = p.exists
      /\ r.accrued_rewards = p.accrued_rewards + h
      /\ r.total_claimed = p.total_claimed
      /\ r.last_interaction_time = p.last_interaction_time
  <2> HIDE DEF n, payout, t, q
  <2>1. /\ vault \in SkrYieldVault /\ p \in UserYieldPosition
        /\ b \in Nat /\ h \in Nat
    BY <1>2, <1>3, <1>4, <1>6
  <2>2. r \in UserYieldPosition /\ r.staked_skr = b
        /\ r.reward_debt = Gross(b) /\ r.exists = p.exists
    BY <2>1, RebasedFacts
  <2>3. r.accrued_rewards = p.accrued_rewards + h
        /\ r.total_claimed = p.total_claimed
        /\ r.last_interaction_time = p.last_interaction_time
    BY <2>1, RebasedFacts
  <2> QED
    BY <2>2, <2>3
<1>9. /\ n \in SkrYieldVault /\ n.initialized = vault.initialized
      /\ n.acc_reward_per_share = vault.acc_reward_per_share
      /\ n.pending_rewards = vault.pending_rewards
  BY <1>2, <1>3, <1>4, ReshareFacts
<1>10. p.accrued_rewards \in Nat /\ p.total_claimed \in Nat
  BY <1>3 DEF UserYieldPosition
<1>11. payout \in Nat /\ payout <= funds /\ payout <= p.accrued_rewards + h
  BY <1>2, <1>6, <1>10 DEF Least
<1> HIDE DEF n, r, payout
<1>12. t \in Nat /\ t <= now
  <2>1. r.last_interaction_time \in Nat /\ r.last_interaction_time <= now
    BY <1>3, <1>8
  <2> HIDE DEF q
  <2> QED
    BY <1>2, <2>1
<1> HIDE DEF t
<1>13. /\ r.accrued_rewards - payout \in Nat
       /\ r.total_claimed + payout \in Nat
  BY <1>6, <1>8, <1>10, <1>11
<1> DEFINE left == r.accrued_rewards - payout
           paid == r.total_claimed + payout
<1>14. /\ left \in Nat /\ paid \in Nat
       /\ q = [r EXCEPT !.accrued_rewards = left, !.total_claimed = paid,
                        !.last_interaction_time = t]
  BY <1>13, Zenon
<1> HIDE DEF q, left, paid
<1>15. /\ q \in UserYieldPosition /\ q.staked_skr = b
       /\ q.reward_debt = Gross(b) /\ q.last_interaction_time = t
  BY <1>8, <1>12, <1>14 DEF UserYieldPosition
<1>16. q.exists
  BY <1>3, <1>8, <1>14, Zenon DEF UserYieldPosition
<1>17. /\ vault' \in SkrYieldVault
       /\ vault'.acc_reward_per_share = vault.acc_reward_per_share
       /\ vault'.pending_rewards = Monus(vault.pending_rewards, payout)
  <2>1. Monus(vault.pending_rewards, payout) \in Nat
    BY <1>2, <1>11 DEF Monus, SkrYieldVault
  <2> QED
    BY <1>5, <1>9, <2>1 DEF SkrYieldVault
<1>18. vault'.initialized
  BY <1>5, <1>9, Zenon DEF SkrYieldVault
<1>19. Grows
  BY <1>2, <1>17 DEF Grows, SkrYieldVault
<1>20. funds' \in Nat /\ funds' >= vault'.pending_rewards
  BY <1>1, <1>2, <1>5, <1>11, <1>17 DEF FundsCoverPending, Monus, SkrYieldVault
<1>21. /\ position' \in [Users -> UserYieldPosition]
       /\ position'[u] = q
       /\ \A w \in Users \ {u} : position'[w] = position[w]
  BY <1>2, <1>5, <1>15
<1>22. TypeOK'
  BY <1>2, <1>5, <1>17, <1>20, <1>21 DEF TypeOK
<1>23. \A w \in Users : escrow'[w] >= staked'[w]
  BY <1>1, <1>5 DEF StakeIsThere
<1>24. /\ position'[u].exists /\ position'[u].staked_skr = b
       /\ position'[u].reward_debt = Gross(b)
       /\ position'[u].last_interaction_time <= now
  <2>1. position'[u].exists
    BY <1>16, <1>21, Zenon
  <2> QED
    BY <1>12, <1>15, <1>21, <2>1
<1>25. DebtIsEarned(u)' /\ StakeIsThere(u)'
  BY <1>1, <1>4, <1>5, <1>19, <1>23, <1>24, Written
<1>26. ASSUME NEW w \in Users \ {u}
       PROVE  DebtIsEarned(w)' /\ StakeIsThere(w)'
  BY <1>1, <1>2, <1>5, <1>19, <1>21, <1>23, Untouched
<1> QED
  BY <1>18, <1>19, <1>20, <1>22, <1>25, <1>26 DEF YieldInv, FundsCoverPending

-----------------------------------------------------------------------------
(* The invariant and what follows from it. *)

\* A new deployment has an empty vault and no positions.
LEMMA InitEstablishes == Init => YieldInv
<1> SUFFICES ASSUME Init PROVE YieldInv
  OBVIOUS
<1>1. vault \in SkrYieldVault /\ NoPosition \in UserYieldPosition
  BY DEF Init, NoVault, NoPosition, SkrYieldVault, UserYieldPosition
<1>2. TypeOK
  BY <1>1, YieldParameterAssumption DEF Init, TypeOK
<1>3. FundsCoverPending
  BY DEF Init, FundsCoverPending, NoVault
<1>4. ASSUME NEW u \in Users
      PROVE  DebtIsEarned(u) /\ StakeIsThere(u) /\ ~position[u].exists
  <2>1. position[u] = NoPosition /\ escrow[u] = 0 /\ staked[u] = 0 /\ now = 0
    BY DEF Init
  <2>2. ~position[u].exists /\ position[u].reward_debt = 0
        /\ position[u].staked_skr = 0 /\ position[u].last_interaction_time = 0
    BY <2>1 DEF NoPosition
  <2>3. Gross(0) \in Nat
    BY <1>1, GrossNat
  <2>4. DebtIsEarned(u)
    BY <2>2, <2>3 DEF DebtIsEarned
  <2>5. StakeIsThere(u)
    BY <2>1, <2>2 DEF StakeIsThere
  <2> QED
    BY <2>2, <2>4, <2>5
<1> QED
  BY <1>2, <1>3, <1>4 DEF Init, YieldInv

\* Every step keeps the invariant and never lowers the accumulator.
LEMMA StepKeeps == YieldInv /\ [Next]_vars => YieldInv' /\ Grows
<1> SUFFICES ASSUME YieldInv, [Next]_vars PROVE YieldInv' /\ Grows
  OBVIOUS
<1>1. TypeOK /\ FundsCoverPending
      /\ (~vault.initialized => vault = NoVault /\ funds = 0)
  BY DEF YieldInv
<1>2. /\ vault \in SkrYieldVault /\ funds \in Nat /\ now \in Nat
      /\ escrow \in [Users -> Nat] /\ skr \in [Users -> Nat]
      /\ vault.pending_rewards \in Nat /\ funds >= vault.pending_rewards
  BY <1>1 DEF TypeOK, SkrYieldVault, FundsCoverPending
<1>3. CASE InitializeVault
  BY <1>3, InitializeVaultKeeps
<1>4. ASSUME NEW u \in Users, NEW x \in Stakes, NEW synced \in Synced,
             StakeSkr(u, x, synced)
      PROVE  YieldInv' /\ Grows
  <2>1. x \in Nat
    BY YieldParameterAssumption
  <2> QED
    BY <1>4, <2>1, StakeSkrKeeps
<1>5. ASSUME NEW u \in Users, NEW x \in Stakes, NEW synced \in Synced,
             UnstakeSkr(u, x, synced) \/ Slash(u, x, synced)
      PROVE  YieldInv' /\ Grows
  <2>1. x \in Nat
    BY YieldParameterAssumption
  <2>2. StakeLeaves(u, x, synced)
    BY <1>5 DEF UnstakeSkr, Slash
  <2>3. skr' \in [Users -> Nat]
    BY <1>2, <1>5, <2>1 DEF UnstakeSkr, Slash
  <2> QED
    BY <2>1, <2>2, <2>3, StakeLeavesKeeps
<1>6. ASSUME NEW x \in Rewards, DepositYield(x)
      PROVE  YieldInv' /\ Grows
  <2>1. x \in Nat
    BY YieldParameterAssumption
  <2> QED
    BY <1>6, <2>1, DepositYieldKeeps
<1>7. ASSUME NEW u \in Users, ClaimYield(u)
      PROVE  YieldInv' /\ Grows
  BY <1>7, ClaimYieldKeeps
<1>8. CASE WithdrawUnused
  BY <1>2, <1>8, IdleVaultKeeps DEF WithdrawUnused
<1>9. ASSUME NEW x \in VaultGifts, DonateToVault(x)
      PROVE  YieldInv' /\ Grows
  <2>1. x \in Nat
    BY YieldParameterAssumption
  <2> QED
    BY <1>2, <1>9, <2>1, IdleVaultKeeps DEF DonateToVault
<1>10. ASSUME NEW u \in Users, NEW to \in Users, NEW x \in EscrowGifts,
              DonateToEscrow(u, to, x)
       PROVE  YieldInv' /\ Grows
  <2>1. x \in Nat
    BY YieldParameterAssumption
  <2>2. /\ skr' \in [Users -> Nat] /\ escrow' \in [Users -> Nat]
        /\ \A w \in Users : escrow'[w] >= escrow[w]
    BY <1>2, <1>10, <2>1 DEF DonateToEscrow
  <2> QED
    BY <1>1, <1>2, <1>10, <2>2, IdleVaultKeeps DEF DonateToEscrow
<1>11. CASE Tick
  BY <1>1, <1>2, <1>11, IdleVaultKeeps DEF Tick
<1>12. CASE UNCHANGED vars
  BY <1>1, <1>2, <1>12, IdleVaultKeeps DEF vars
<1> QED
  BY <1>3, <1>4, <1>5, <1>6, <1>7, <1>8, <1>9, <1>10, <1>11, <1>12
  DEF Next, Stake, Gift

\* THE INVARIANT.  For any stakers, scale, stake age and amounts: the vault
\* covers what it promised, no position owes more than its shares have earned,
\* and every stake of record is in its escrow (processor.rs, accrue_yield to
\* ClaimYield and the syncs in StakeSkr, UnstakeSkr and ClaimDefault).
THEOREM YieldInvariant == Spec => []YieldInv
<1>1. Init => YieldInv
  BY InitEstablishes
<1>2. YieldInv /\ [Next]_vars => YieldInv'
  BY StepKeeps
<1> QED
  BY <1>1, <1>2, PTL DEF Spec

\* A larger accumulator and a fuller escrow never lower a harvest.
LEMMA HarvestGrows ==
    ASSUME vault \in SkrYieldVault, Grows, NEW p \in UserYieldPosition,
           NEW b \in Nat, NEW c \in Nat, b <= c
    PROVE  Harvest(p, b) <= Harvest(p, c)' /\ Harvest(p, b) \in Nat
           /\ Harvest(p, c)' \in Nat
<1>1. p.staked_skr \in Nat /\ p.reward_debt \in Nat
  BY DEF UserYieldPosition
<1> DEFINE x == Least(p.staked_skr, b)
           y == Least(p.staked_skr, c)
<1>2. x \in Nat /\ y \in Nat /\ x <= y
  BY <1>1 DEF Least
<1>3. Gross(x) <= Gross(y)' /\ Gross(x) \in Nat /\ Gross(y)' \in Nat
  BY <1>2, GrossGrows
<1>4. Harvest(p, b) = Monus(Gross(x), p.reward_debt)
      /\ Harvest(p, c)' = Monus(Gross(y)', p.reward_debt)
  BY DEF Harvest, Least, Monus
<1> HIDE DEF x, y
<1> QED
  BY <1>1, <1>3, <1>4 DEF Monus

\* NOBODY IS DILUTED.  What a user could claim never shrinks by a step that
\* writes neither the user's position nor takes from the user's escrow: by
\* anybody else's stake, claim, slash or deposit, or by the authority's
\* withdrawal.
THEOREM NobodyIsDiluted == Spec => OthersCannotDiminish
<1>1. ASSUME YieldInv, [Next]_vars
      PROVE  [\A u \in Users :
                 (position'[u] = position[u] /\ escrow'[u] >= escrow[u]) =>
                     Entitlement(u)' >= Entitlement(u)]_vars
  <2>1. Grows /\ TypeOK /\ TypeOK'
    BY <1>1, StepKeeps DEF YieldInv
  <2>2. ASSUME NEW u \in Users, position'[u] = position[u],
               escrow'[u] >= escrow[u]
        PROVE  Entitlement(u)' >= Entitlement(u)
    <3>1. /\ vault \in SkrYieldVault /\ position[u] \in UserYieldPosition
          /\ escrow[u] \in Nat /\ escrow'[u] \in Nat
      BY <2>1 DEF TypeOK
    <3> DEFINE p == position[u]
               b == escrow[u]
               c == escrow'[u]
    <3>2. \A q \in UserYieldPosition, d \in Nat, e \in Nat : d <= e =>
             /\ Harvest(q, d) <= Harvest(q, e)'
             /\ Harvest(q, d) \in Nat /\ Harvest(q, e)' \in Nat
      BY <2>1, <3>1, HarvestGrows
    <3>3. p.accrued_rewards \in Nat
      BY <3>1 DEF UserYieldPosition
    <3> QED
      BY <2>2, <3>1, <3>2, <3>3 DEF Entitlement, Harvest, Gross, Least, Monus
  <2> QED
    BY <2>2
<1> QED
  BY <1>1, YieldInvariant, PTL DEF Spec, OthersCannotDiminish

-----------------------------------------------------------------------------
(* The vault's total is the sum of the positions' shares (UnitSums).       *)

Shares == [u \in Users |-> position[u].staked_skr]
SharesInv ==
    /\ YieldInv
    /\ IsFiniteSet(Units(Users, Shares))
    /\ vault.total_staked_skr = Cardinality(Units(Users, Shares))

\* Staking, unstaking, slashing and claiming rewrite one position and reshare
\* the vault for it, or leave the shares alone.
ShareMoves ==
    \/ position' = position /\ vault'.total_staked_skr = vault.total_staked_skr
    \/ \E u \in Users, p \in UserYieldPosition, t \in Nat :
          /\ p.staked_skr = position[u].staked_skr
          /\ vault'.total_staked_skr = Reshare(p, t).total_staked_skr
          /\ \A w \in Users \ {u} : position'[w] = position[w]
          /\ position'[u].staked_skr = t

\* What a position that is opened for the occasion has by way of shares.
LEMMA OpenedShares ==
    ASSUME YieldInv, NEW u \in Users
    PROVE  /\ Opened(u) \in UserYieldPosition
           /\ Opened(u).staked_skr = position[u].staked_skr
<1>1. Opened(u) \in UserYieldPosition
  BY OpenedFacts DEF YieldInv
<1>2. CASE position[u].exists
  BY <1>1, <1>2 DEF Opened
<1>3. CASE ~position[u].exists
  <2>1. position[u] = NoPosition
    BY <1>3 DEF YieldInv, StakeIsThere
  <2>2. Opened(u) = [NoPosition EXCEPT !.exists = TRUE, !.last_interaction_time = now]
    BY <1>3 DEF Opened
  <2>3. [NoPosition EXCEPT !.exists = TRUE, !.last_interaction_time = now].staked_skr
            = NoPosition.staked_skr
    BY DEF NoPosition
  <2> QED BY <1>1, <2>1, <2>2, <2>3
<1> QED BY <1>2, <1>3

LEMMA SyncMoves ==
    ASSUME YieldInv, NEW u \in Users, NEW p \in UserYieldPosition,
           NEW b \in Nat, NEW t \in Nat, p.exists,
           p.staked_skr = position[u].staked_skr, Sync(u, p, b, t)
    PROVE  ShareMoves
<1>1. vault'.total_staked_skr = Reshare(p, t).total_staked_skr
  BY DEF Sync
<1>2. /\ \A w \in Users \ {u} : position'[w] = position[w]
      /\ position'[u].staked_skr = t
  BY SyncFacts DEF YieldInv
<1> QED BY <1>1, <1>2 DEF ShareMoves

LEMMA StakesMoveShares ==
    ASSUME YieldInv, NEW u \in Users, NEW x \in Nat, NEW s,
           StakeSkr(u, x, s) \/ StakeLeaves(u, x, s)
    PROVE  ShareMoves
<1>1. /\ TypeOK /\ escrow[u] \in Nat /\ position[u] \in UserYieldPosition
      /\ position[u].staked_skr \in Nat
  BY DEF YieldInv, TypeOK, UserYieldPosition
<1>2. CASE UNCHANGED <<vault, position>>
  BY <1>2 DEF ShareMoves
<1>3. CASE Sync(u, Opened(u), escrow[u], escrow[u] + x)
  <2>1. Opened(u).exists
    BY OpenedFacts DEF YieldInv
  <2>2. escrow[u] + x \in Nat
    BY <1>1
  <2> QED BY <1>1, <1>3, <2>1, <2>2, OpenedShares, SyncMoves
<1>4. CASE /\ position[u].exists /\ escrow[u] >= x
           /\ Sync(u, position[u], escrow[u], SharesLeft(u, x))
  <2>1. SharesLeft(u, x) \in Nat
    <3>1. escrow[u] - x \in Nat
      BY <1>1, <1>4
    <3> QED BY <1>1, <3>1, Clamps DEF SharesLeft
  <2> QED BY <1>1, <1>4, <2>1, SyncMoves
<1> QED BY <1>2, <1>3, <1>4 DEF StakeSkr, StakeLeaves

LEMMA ClaimMovesShares ==
    ASSUME YieldInv, NEW u \in Users, ClaimYield(u)
    PROVE  ShareMoves
<1> DEFINE p == Opened(u)
           h == Harvest(p, escrow[u])
           r == Rebased(p, escrow[u], h)
           payout == Least(p.accrued_rewards + h, funds)
           when == IF escrow[u] = p.staked_skr /\ payout = 0
                   THEN r.last_interaction_time ELSE now
<1>1. /\ vault' = [Reshare(p, escrow[u]) EXCEPT !.pending_rewards = Monus(@, payout)]
      /\ position' = [position EXCEPT ![u] =
             [r EXCEPT !.accrued_rewards = @ - payout, !.total_claimed = @ + payout,
                       !.last_interaction_time = when]]
  BY DEF ClaimYield
<1>2. /\ vault \in SkrYieldVault /\ escrow[u] \in Nat
      /\ position \in [Users -> UserYieldPosition]
      /\ p \in UserYieldPosition /\ p.staked_skr = position[u].staked_skr
  BY OpenedShares DEF YieldInv, TypeOK
<1> HIDE DEF p
<1>3. h \in Nat
  BY <1>2, HarvestNat
<1> HIDE DEF h, payout
<1>4. r \in UserYieldPosition /\ r.staked_skr = escrow[u]
  BY <1>2, <1>3, RebasedFacts
<1> HIDE DEF r, when
<1>5. position'[u].staked_skr = escrow[u] /\ \A w \in Users \ {u} : position'[w] = position[w]
  BY <1>1, <1>2, <1>4 DEF UserYieldPosition
<1>6. Reshare(p, escrow[u]) \in SkrYieldVault
  BY <1>2, ReshareFacts
<1>7. vault'.total_staked_skr = Reshare(p, escrow[u]).total_staked_skr
  BY <1>1, <1>6 DEF SkrYieldVault
<1> QED BY <1>2, <1>5, <1>7 DEF ShareMoves

LEMMA StepMovesShares == ASSUME YieldInv, [Next]_vars PROVE ShareMoves
<1>0. vault \in SkrYieldVault
  BY DEF YieldInv, TypeOK
<1>1. ASSUME NEW u \in Users, NEW x \in Stakes, NEW s \in Synced,
             StakeSkr(u, x, s) \/ UnstakeSkr(u, x, s) \/ Slash(u, x, s)
      PROVE  ShareMoves
  BY <1>1, StakesMoveShares, YieldParameterAssumption DEF UnstakeSkr, Slash
<1>2. ASSUME NEW u \in Users, ClaimYield(u) PROVE ShareMoves
  BY <1>2, ClaimMovesShares
<1>3. CASE InitializeVault
  <2>1. vault = NoVault
    BY <1>3 DEF YieldInv, InitializeVault
  <2> QED BY <1>3, <2>1 DEF InitializeVault, NoVault, ShareMoves
<1>4. ASSUME NEW x \in Rewards, DepositYield(x) PROVE ShareMoves
  <2>1. vault' = Accrued(x) /\ position' = position
    BY <1>4 DEF DepositYield
  <2>2. Accrued(x).total_staked_skr = vault.total_staked_skr
    BY <1>0 DEF Accrued, SkrYieldVault
  <2> QED BY <2>1, <2>2 DEF ShareMoves
<1>5. CASE WithdrawUnused \/ Gift \/ Tick \/ UNCHANGED vars
  BY <1>5 DEF WithdrawUnused, Gift, DonateToVault, DonateToEscrow, Tick, vars, ShareMoves
<1> QED BY <1>1, <1>2, <1>3, <1>4, <1>5 DEF Next, Stake

LEMMA SharesNext == ASSUME SharesInv, [Next]_vars PROVE SharesInv'
<1>1. YieldInv' /\ ShareMoves
  BY StepKeeps, StepMovesShares DEF SharesInv
<1>2. /\ Shares \in [Users -> Nat] /\ Shares' \in [Users -> Nat]
      /\ vault.total_staked_skr \in Nat
  BY <1>1 DEF SharesInv, YieldInv, TypeOK, UserYieldPosition, SkrYieldVault, Shares
<1>3. CASE position' = position /\ vault'.total_staked_skr = vault.total_staked_skr
  BY <1>1, <1>3 DEF SharesInv, Shares
<1>4. ASSUME NEW u \in Users, NEW p \in UserYieldPosition, NEW t \in Nat,
             p.staked_skr = position[u].staked_skr,
             vault'.total_staked_skr = Reshare(p, t).total_staked_skr,
             \A w \in Users \ {u} : position'[w] = position[w],
             position'[u].staked_skr = t
      PROVE  SharesInv'
  <2>1. /\ \A w \in Users : w # u => Shares'[w] = Shares[w]
        /\ Shares[u] = p.staked_skr /\ Shares'[u] = t
    BY <1>4 DEF Shares
  <2>2. /\ IsFiniteSet(Units(Users, Shares))
        /\ vault.total_staked_skr = Cardinality(Units(Users, Shares))
    BY DEF SharesInv
  <2>3. /\ IsFiniteSet(Units(Users, Shares'))
        /\ Cardinality(Units(Users, Shares')) = vault.total_staked_skr - p.staked_skr + t
        /\ p.staked_skr <= vault.total_staked_skr
    BY <1>2, <2>1, <2>2, UnitsChange
  <2>4. p.staked_skr \in Nat
    BY <1>4 DEF UserYieldPosition
  <2>5. Reshare(p, t).total_staked_skr = vault.total_staked_skr - p.staked_skr + t
    <3>1. vault \in SkrYieldVault
      BY DEF SharesInv, YieldInv, TypeOK
    <3>2. Reshare(p, t).total_staked_skr
              = Monus(vault.total_staked_skr + Monus(t, p.staked_skr), Monus(p.staked_skr, t))
      BY <3>1 DEF Reshare, SkrYieldVault
    <3> QED BY <1>2, <2>3, <2>4, <3>2 DEF Monus
  <2> QED BY <1>1, <1>4, <2>3, <2>5 DEF SharesInv
<1> QED BY <1>1, <1>3, <1>4 DEF ShareMoves

LEMMA SharesInit == Init => SharesInv
<1> SUFFICES ASSUME Init PROVE SharesInv
  OBVIOUS
<1>1. YieldInv
  BY InitEstablishes
<1>2. Shares \in [Users -> Nat] /\ \A u \in Users : Shares[u] = 0
  BY DEF Init, NoPosition, Shares
<1>3. vault.total_staked_skr = 0
  BY DEF Init, NoVault
<1> QED BY <1>1, <1>2, <1>3, NothingWeighs DEF SharesInv

\* The vault divides rewards by exactly the shares its positions hold, for any
\* stakers and amounts and whichever calls are synced.
THEOREM SharesAddUp == Spec => []SharesMatchPositions
<1>1. Init => SharesInv
  BY SharesInit
<1>2. SharesInv /\ [Next]_vars => SharesInv'
  BY SharesNext
<1>3. SharesInv => SharesMatchPositions
  <2> SUFFICES ASSUME SharesInv PROVE ShareUnits = Units(Users, Shares)
    BY DEF SharesInv, SharesMatchPositions
  <2>1. Shares \in [Users -> Nat]
    BY DEF SharesInv, YieldInv, TypeOK, UserYieldPosition, Shares
  <2>2. ShareUnits = UNION {{u} \X (1..Shares[u]) : u \in Users}
    BY DEF ShareUnits, Shares
  <2> QED BY <2>1, <2>2, UnitsByElement
<1> QED BY <1>1, <1>2, <1>3, PTL DEF Spec

-----------------------------------------------------------------------------
(* Rewards are paid once.  Times YieldScale, what is in the positions'     *)
(* accounts and what was paid from them, what the shares have earned in    *)
(* all and what is parked is covered by the debts, by what was ever        *)
(* distributed and by the dust.                                            *)

Accounts == [u \in Users |-> position[u].accrued_rewards]
Payments == [u \in Users |-> position[u].total_claimed]
Debts == [u \in Users |-> position[u].reward_debt]
AccountUnits == Cardinality(Units(Users, Accounts))
PaidUnits == Cardinality(Units(Users, Payments))
DebtUnits == Cardinality(Units(Users, Debts))

Covered ==
    YieldScale * (AccountUnits + PaidUnits)
        + vault.total_staked_skr * vault.acc_reward_per_share
        + YieldScale * vault.unallocated_rewards
    <= YieldScale * (DebtUnits + vault.total_rewards_distributed + dust)

\* A claim takes from pending_rewards no more than it pays.
NothingForgotten == vault.total_rewards_distributed <= vault.pending_rewards + PaidUnits

RoundingInv ==
    /\ SharesInv
    /\ dust \in Nat
    /\ IsFiniteSet(Units(Users, Accounts)) /\ IsFiniteSet(Units(Users, Payments))
    /\ IsFiniteSet(Units(Users, Debts))
    /\ Covered /\ NothingForgotten

\* What rounding the gross yield down loses is less than one unit.
LEMMA GrossBounds ==
    ASSUME vault \in SkrYieldVault, NEW x \in Nat
    PROVE  /\ Gross(x) \in Nat /\ x * vault.acc_reward_per_share \in Nat
           /\ YieldScale * Gross(x) <= x * vault.acc_reward_per_share
           /\ x * vault.acc_reward_per_share < YieldScale * Gross(x) + YieldScale
<1> DEFINE n == x * vault.acc_reward_per_share
<1>1. vault.acc_reward_per_share \in Nat /\ YieldScale \in Nat \ {0}
  BY YieldParameterAssumption DEF SkrYieldVault
<1>2. n \in Nat
  BY <1>1
<1>3. Gross(x) = n \div YieldScale
  BY DEF Gross
<1> HIDE DEF n
<1>4. /\ n \div YieldScale \in Nat /\ n % YieldScale \in 0..(YieldScale - 1)
      /\ n = YieldScale * (n \div YieldScale) + (n % YieldScale)
  BY <1>1, <1>2, Blocks
<1>5. YieldScale * (n \div YieldScale) \in Nat
  BY <1>1, <1>4
<1>6. /\ YieldScale * (n \div YieldScale) <= n
      /\ n < YieldScale * (n \div YieldScale) + YieldScale
  BY <1>1, <1>2, <1>4, <1>5
<1> QED BY <1>2, <1>3, <1>4, <1>6 DEF n

\* A step that credits one position with e, pays it pay and gives it t shares.
Credits(u, t, e, pay) ==
    /\ e + position[u].reward_debt <= Gross(position[u].staked_skr)
    /\ pay <= position[u].accrued_rewards + e
    /\ \A w \in Users \ {u} : position'[w] = position[w]
    /\ position'[u].staked_skr = t
    /\ position'[u].reward_debt = Gross(t)
    /\ position'[u].accrued_rewards = position[u].accrued_rewards + e - pay
    /\ vault'.acc_reward_per_share = vault.acc_reward_per_share
    /\ position'[u].total_claimed = position[u].total_claimed + pay
    /\ vault'.unallocated_rewards = vault.unallocated_rewards
    /\ vault'.total_rewards_distributed = vault.total_rewards_distributed
    /\ vault'.pending_rewards = Monus(vault.pending_rewards, pay)

CreditMoves == \E u \in Users, t, e, pay \in Nat : Credits(u, t, e, pay)

\* A step that touches nothing Covered speaks of.
QuietMoves ==
    /\ position' = position
    /\ vault'.total_staked_skr = vault.total_staked_skr
    /\ vault'.acc_reward_per_share = vault.acc_reward_per_share
    /\ vault'.unallocated_rewards = vault.unallocated_rewards
    /\ vault'.total_rewards_distributed = vault.total_rewards_distributed
    /\ vault'.pending_rewards = vault.pending_rewards

\* What a position that is opened for the occasion has by way of money.
LEMMA OpenedMoney ==
    ASSUME YieldInv, NEW u \in Users
    PROVE  /\ Opened(u).reward_debt = position[u].reward_debt
           /\ Opened(u).accrued_rewards = position[u].accrued_rewards
           /\ Opened(u).total_claimed = position[u].total_claimed
<1>1. CASE position[u].exists
  BY <1>1 DEF Opened
<1>2. CASE ~position[u].exists
  <2>1. position[u] = NoPosition
    BY <1>2 DEF YieldInv, StakeIsThere
  <2>2. Opened(u) = [NoPosition EXCEPT !.exists = TRUE, !.last_interaction_time = now]
    BY <1>2 DEF Opened
  <2> DEFINE o == [NoPosition EXCEPT !.exists = TRUE, !.last_interaction_time = now]
  <2>3. /\ o.reward_debt = NoPosition.reward_debt
        /\ o.accrued_rewards = NoPosition.accrued_rewards
        /\ o.total_claimed = NoPosition.total_claimed
    BY DEF NoPosition
  <2> QED BY <2>1, <2>2, <2>3
<1> QED BY <1>1, <1>2

\* A harvest never lifts a position above what its shares have earned in all.
LEMMA HarvestIsEarned ==
    ASSUME YieldInv, NEW u \in Users, NEW p \in UserYieldPosition, NEW b \in Nat,
           p.staked_skr = position[u].staked_skr,
           p.reward_debt = position[u].reward_debt
    PROVE  /\ Harvest(p, b) \in Nat
           /\ Harvest(p, b) + position[u].reward_debt <= Gross(position[u].staked_skr)
           /\ position[u].reward_debt <= Gross(position[u].staked_skr)
<1>1. vault \in SkrYieldVault /\ DebtIsEarned(u)
  BY DEF YieldInv, TypeOK
<1>2. p.staked_skr \in Nat /\ p.reward_debt \in Nat
  BY DEF UserYieldPosition
<1> DEFINE x == Least(p.staked_skr, b)
<1>3. x \in Nat /\ x <= p.staked_skr
  BY <1>2, Clamps
<1> HIDE DEF x
<1>4. Gross(x) <= Gross(p.staked_skr) /\ Gross(x) \in Nat /\ Gross(p.staked_skr) \in Nat
  <2>1. vault.acc_reward_per_share \in Nat
    BY <1>1 DEF SkrYieldVault
  <2>2. /\ x * vault.acc_reward_per_share <= p.staked_skr * vault.acc_reward_per_share
        /\ x * vault.acc_reward_per_share \in Nat
        /\ p.staked_skr * vault.acc_reward_per_share \in Nat
    BY <1>2, <1>3, <2>1, TimesMonotone
  <2> QED BY <2>2, DivMonotone, YieldParameterAssumption DEF Gross
<1>5. Harvest(p, b) = Monus(Gross(x), p.reward_debt)
  BY DEF Harvest, x
<1>6. p.reward_debt <= Gross(p.staked_skr)
  BY <1>1 DEF DebtIsEarned
<1> QED BY <1>2, <1>4, <1>5, <1>6 DEF Monus

\* A sync credits one position and pays nothing.
LEMMA SyncCredits ==
    ASSUME YieldInv, NEW u \in Users, NEW p \in UserYieldPosition,
           NEW b \in Nat, NEW t \in Nat, p.exists,
           p.staked_skr = position[u].staked_skr,
           p.reward_debt = position[u].reward_debt,
           p.accrued_rewards = position[u].accrued_rewards,
           p.total_claimed = position[u].total_claimed,
           Sync(u, p, b, t)
    PROVE  CreditMoves
<1> DEFINE e == IF now - p.last_interaction_time >= MinStakeAge
                THEN Harvest(p, b) ELSE 0
           r == Rebased(p, t, e)
           q == [r EXCEPT !.last_interaction_time = now]
<1>1. /\ vault' = Reshare(p, t) /\ position' = [position EXCEPT ![u] = q]
      /\ TypeOK /\ vault \in SkrYieldVault
      /\ position \in [Users -> UserYieldPosition]
  BY DEF Sync, YieldInv, TypeOK
<1>2. e \in Nat /\ e + position[u].reward_debt <= Gross(position[u].staked_skr)
  <2>1. /\ Harvest(p, b) \in Nat
        /\ Harvest(p, b) + position[u].reward_debt <= Gross(position[u].staked_skr)
        /\ position[u].reward_debt <= Gross(position[u].staked_skr)
    BY HarvestIsEarned
  <2>2. position[u].reward_debt \in Nat
    BY <1>1 DEF UserYieldPosition
  <2> QED BY <2>1, <2>2
<1> HIDE DEF e
<1>3. /\ r \in UserYieldPosition /\ r.accrued_rewards = position[u].accrued_rewards + e
      /\ r.total_claimed = position[u].total_claimed
  <2> HIDE DEF q
  <2>1. /\ r \in UserYieldPosition /\ r.accrued_rewards = p.accrued_rewards + e
        /\ r.total_claimed = p.total_claimed
    BY <1>1, <1>2, RebasedFacts
  <2> QED BY <2>1
<1> HIDE DEF r
<1>4. q.accrued_rewards = r.accrued_rewards /\ q.total_claimed = r.total_claimed
  BY <1>3 DEF UserYieldPosition
<1> HIDE DEF q
<1>5. /\ \A w \in Users \ {u} : position'[w] = position[w]
      /\ position'[u].staked_skr = t /\ position'[u].reward_debt = Gross(t)
  BY <1>1, SyncFacts
<1>6. position'[u] = q
  BY <1>1
<1>7. /\ vault'.acc_reward_per_share = vault.acc_reward_per_share
      /\ vault'.unallocated_rewards = vault.unallocated_rewards
      /\ vault'.total_rewards_distributed = vault.total_rewards_distributed
      /\ vault'.pending_rewards = vault.pending_rewards
  BY <1>1, ReshareFacts
<1>8. /\ vault.pending_rewards \in Nat /\ position[u].accrued_rewards \in Nat
      /\ position[u].total_claimed \in Nat
  BY <1>1 DEF SkrYieldVault, UserYieldPosition
<1>9. Monus(vault.pending_rewards, 0) = vault.pending_rewards
      /\ position[u].accrued_rewards + e - 0 = position[u].accrued_rewards + e
      /\ position[u].total_claimed + 0 = position[u].total_claimed
      /\ 0 <= position[u].accrued_rewards + e
  BY <1>2, <1>8 DEF Monus
<1>10. Credits(u, t, e, 0)
  BY <1>2, <1>3, <1>4, <1>5, <1>6, <1>7, <1>9 DEF Credits
<1> QED BY <1>2, <1>10 DEF CreditMoves

LEMMA StakesCredit ==
    ASSUME YieldInv, NEW u \in Users, NEW x \in Nat, NEW s,
           StakeSkr(u, x, s) \/ StakeLeaves(u, x, s)
    PROVE  CreditMoves \/ QuietMoves
<1>1. /\ TypeOK /\ escrow[u] \in Nat /\ position[u] \in UserYieldPosition
      /\ position[u].staked_skr \in Nat
  BY DEF YieldInv, TypeOK, UserYieldPosition
<1>2. CASE UNCHANGED <<vault, position>>
  BY <1>2 DEF QuietMoves
<1>3. CASE Sync(u, Opened(u), escrow[u], escrow[u] + x)
  <2>1. Opened(u).exists
    BY OpenedFacts DEF YieldInv
  <2>2. escrow[u] + x \in Nat
    BY <1>1
  <2> QED BY <1>1, <1>3, <2>1, <2>2, OpenedShares, OpenedMoney, SyncCredits
<1>4. CASE /\ position[u].exists /\ escrow[u] >= x
           /\ Sync(u, position[u], escrow[u], SharesLeft(u, x))
  <2>1. SharesLeft(u, x) \in Nat
    <3>1. escrow[u] - x \in Nat
      BY <1>1, <1>4
    <3> QED BY <1>1, <3>1, Clamps DEF SharesLeft
  <2> QED BY <1>1, <1>4, <2>1, SyncCredits
<1> QED BY <1>2, <1>3, <1>4 DEF StakeSkr, StakeLeaves

\* A claim credits one position and pays from its account.
LEMMA ClaimCredits ==
    ASSUME YieldInv, NEW u \in Users, ClaimYield(u)
    PROVE  CreditMoves
<1> DEFINE p == Opened(u)
           h == Harvest(p, escrow[u])
           r == Rebased(p, escrow[u], h)
           payout == Least(p.accrued_rewards + h, funds)
           when == IF escrow[u] = p.staked_skr /\ payout = 0
                   THEN r.last_interaction_time ELSE now
           left == r.accrued_rewards - payout
           paid == r.total_claimed + payout
           n == Reshare(p, escrow[u])
           q == [r EXCEPT !.accrued_rewards = left, !.total_claimed = paid,
                          !.last_interaction_time = when]
<1>1. /\ vault' = [n EXCEPT !.pending_rewards = Monus(@, payout)]
      /\ position' = [position EXCEPT ![u] = q]
  BY DEF ClaimYield
<1>2. /\ vault \in SkrYieldVault /\ escrow[u] \in Nat /\ funds \in Nat
      /\ position \in [Users -> UserYieldPosition]
      /\ position[u].accrued_rewards \in Nat /\ position[u].total_claimed \in Nat
  BY DEF YieldInv, TypeOK, UserYieldPosition
<1>3. /\ p \in UserYieldPosition /\ p.staked_skr = position[u].staked_skr
      /\ p.reward_debt = position[u].reward_debt
      /\ p.accrued_rewards = position[u].accrued_rewards
      /\ p.total_claimed = position[u].total_claimed
  BY OpenedShares, OpenedMoney
<1> HIDE DEF p
<1>4. h \in Nat /\ h + position[u].reward_debt <= Gross(position[u].staked_skr)
  BY <1>2, <1>3, HarvestIsEarned
<1> HIDE DEF h
<1>5. payout \in Nat /\ payout <= position[u].accrued_rewards + h
  BY <1>2, <1>3, <1>4 DEF Least
<1> HIDE DEF payout
<1>6. /\ r \in UserYieldPosition /\ r.staked_skr = escrow[u]
      /\ r.reward_debt = Gross(escrow[u])
      /\ r.accrued_rewards = p.accrued_rewards + h
      /\ r.total_claimed = p.total_claimed
  <2> HIDE DEF q, n, left, paid, when
  <2> QED BY <1>2, <1>3, <1>4, RebasedFacts
<1>7. /\ left = position[u].accrued_rewards + h - payout
      /\ paid = position[u].total_claimed + payout
  <2> HIDE DEF r, when, n, q
  <2>1. /\ r.accrued_rewards = position[u].accrued_rewards + h
        /\ r.total_claimed = position[u].total_claimed
    BY <1>3, <1>6
  <2> QED BY <1>2, <1>4, <1>5, <2>1
<1> HIDE DEF r, when, left, paid
<1>8. /\ q.staked_skr = escrow[u] /\ q.reward_debt = Gross(escrow[u])
      /\ q.accrued_rewards = left /\ q.total_claimed = paid
  BY <1>6 DEF UserYieldPosition
<1> HIDE DEF q
<1>9. position'[u] = q /\ \A w \in Users \ {u} : position'[w] = position[w]
  BY <1>1, <1>2
<1>10. /\ n \in SkrYieldVault
       /\ n.acc_reward_per_share = vault.acc_reward_per_share
       /\ n.unallocated_rewards = vault.unallocated_rewards
       /\ n.total_rewards_distributed = vault.total_rewards_distributed
       /\ n.pending_rewards = vault.pending_rewards
  BY <1>2, <1>3, ReshareFacts
<1> HIDE DEF n
<1>11. /\ vault'.acc_reward_per_share = vault.acc_reward_per_share
       /\ vault'.unallocated_rewards = vault.unallocated_rewards
       /\ vault'.total_rewards_distributed = vault.total_rewards_distributed
       /\ vault'.pending_rewards = Monus(vault.pending_rewards, payout)
  BY <1>1, <1>10 DEF SkrYieldVault
<1>12. Credits(u, escrow[u], h, payout)
  BY <1>4, <1>5, <1>7, <1>8, <1>9, <1>11 DEF Credits
<1> QED BY <1>2, <1>4, <1>5, <1>12 DEF CreditMoves

\* What a deposit does to the vault's figures.
LEMMA DepositFigures ==
    ASSUME YieldInv, NEW x \in Nat, DepositYield(x)
    PROVE  /\ position' = position
           /\ vault'.total_staked_skr = vault.total_staked_skr
           /\ vault'.pending_rewards = vault.pending_rewards + x
           /\ vault'.total_rewards_distributed = vault.total_rewards_distributed + x
           /\ \/ /\ vault.total_staked_skr = 0
                 /\ vault'.acc_reward_per_share = vault.acc_reward_per_share
                 /\ vault'.unallocated_rewards = vault.unallocated_rewards + x
              \/ \E fold, share \in Nat :
                    /\ fold <= vault.unallocated_rewards
                    /\ vault.total_staked_skr * share <= YieldScale * (x + fold)
                    /\ vault'.acc_reward_per_share = vault.acc_reward_per_share + share
                    /\ vault'.unallocated_rewards = vault.unallocated_rewards - fold
<1> DEFINE fold == (vault.unallocated_rewards + 3) \div 4
           share == ((x + fold) * YieldScale) \div vault.total_staked_skr
<1>1. /\ vault \in SkrYieldVault /\ vault.unallocated_rewards \in Nat
      /\ vault.total_staked_skr \in Nat /\ YieldScale \in Nat
  BY YieldParameterAssumption DEF YieldInv, TypeOK, SkrYieldVault
<1>2. vault' = Accrued(x) /\ position' = position
  BY DEF DepositYield
<1>3. fold \in Nat /\ fold <= vault.unallocated_rewards
  BY <1>1
<1>4. /\ Accrued(x).total_staked_skr = vault.total_staked_skr
      /\ Accrued(x).pending_rewards = vault.pending_rewards + x
      /\ Accrued(x).total_rewards_distributed = vault.total_rewards_distributed + x
  BY <1>1 DEF Accrued, SkrYieldVault
<1>5. CASE vault.total_staked_skr = 0
  <2>1. /\ Accrued(x).acc_reward_per_share = vault.acc_reward_per_share
        /\ Accrued(x).unallocated_rewards = vault.unallocated_rewards + x
    BY <1>1, <1>5 DEF Accrued, SkrYieldVault
  <2> QED BY <1>2, <1>4, <1>5, <2>1
<1>6. CASE vault.total_staked_skr # 0
  <2>1. /\ Accrued(x).acc_reward_per_share = vault.acc_reward_per_share + share
        /\ Accrued(x).unallocated_rewards = vault.unallocated_rewards - fold
    BY <1>1, <1>6 DEF Accrued, SkrYieldVault
  <2> HIDE DEF fold
  <2>2. (x + fold) * YieldScale \in Nat /\ (x + fold) * YieldScale = YieldScale * (x + fold)
    BY <1>1, <1>3
  <2> DEFINE n == (x + fold) * YieldScale
             k == vault.total_staked_skr
  <2>3. n \in Nat /\ k \in Nat \ {0} /\ share = n \div k
    BY <1>1, <1>6, <2>2
  <2> HIDE DEF n, k, share
  <2>4. /\ n \div k \in Nat /\ n % k \in 0..(k - 1) /\ n = k * (n \div k) + (n % k)
    BY <2>3, Blocks
  <2>5. k * share \in Nat /\ share \in Nat
    BY <2>3, <2>4
  <2>6. k * share <= n
    BY <2>3, <2>4, <2>5
  <2>7. vault.total_staked_skr * share <= YieldScale * (x + fold)
    BY <2>2, <2>6 DEF n, k
  <2> QED BY <1>2, <1>3, <1>4, <2>1, <2>5, <2>7
<1> QED BY <1>5, <1>6

\* Every step is a credit, a deposit or quiet.
LEMMA StepCredits ==
    ASSUME YieldInv, [Next]_vars
    PROVE  CreditMoves \/ QuietMoves \/ \E x \in Rewards : DepositYield(x)
<1>1. ASSUME NEW u \in Users, NEW x \in Stakes, NEW s \in Synced,
             StakeSkr(u, x, s) \/ UnstakeSkr(u, x, s) \/ Slash(u, x, s)
      PROVE  CreditMoves \/ QuietMoves
  BY <1>1, StakesCredit, YieldParameterAssumption DEF UnstakeSkr, Slash
<1>2. ASSUME NEW u \in Users, ClaimYield(u) PROVE CreditMoves
  BY <1>2, ClaimCredits
<1>3. CASE InitializeVault
  <2>1. vault = NoVault
    BY <1>3 DEF YieldInv, InitializeVault
  <2> QED BY <1>3, <2>1 DEF InitializeVault, NoVault, QuietMoves
<1>4. CASE WithdrawUnused \/ Gift \/ Tick \/ UNCHANGED vars
  BY <1>4 DEF WithdrawUnused, Gift, DonateToVault, DonateToEscrow, Tick, vars, QuietMoves
<1> QED BY <1>1, <1>2, <1>3, <1>4 DEF Next, Stake

\* The arithmetic of a credit: debt and shares of one position change, and its
\* account and payments grow by e.
LEMMA CreditArithmetic ==
    ASSUME NEW S \in Nat, NEW B \in Nat, NEW D \in Nat, NEW T \in Nat,
           NEW acc \in Nat, NEW U \in Nat, NEW W \in Nat, NEW r \in Nat,
           NEW dd \in Nat, NEW s \in Nat, NEW t \in Nat, NEW d \in Nat,
           NEW g \in Nat, NEW e \in Nat, d <= D, s <= T,
           S * B + T * acc + S * U <= S * (D + W + r),
           S * (e + d) + t * acc <= s * acc + S * (g + dd)
    PROVE  S * (B + e) + (T - s + t) * acc + S * U
               <= S * ((D - d + g) + W + (r + dd))
<1>1. S * (D + W + r) = S * D + S * W + S * r
  OBVIOUS
<1>2. S * (e + d) = S * e + S * d /\ S * (g + dd) = S * g + S * dd
  OBVIOUS
<1>3. S * (B + e) = S * B + S * e
  OBVIOUS
<1>4. (T - s + t) * acc = T * acc - s * acc + t * acc
  OBVIOUS
<1>5. S * ((D - d + g) + W + (r + dd)) = S * D - S * d + S * g + S * W + S * r + S * dd
  OBVIOUS
<1>6. /\ S * B \in Int /\ S * D \in Int /\ S * W \in Int /\ S * r \in Int
      /\ S * e \in Int /\ S * d \in Int /\ S * g \in Int /\ S * dd \in Int
      /\ S * U \in Int /\ T * acc \in Int /\ s * acc \in Int /\ t * acc \in Int
  OBVIOUS
<1>7. ASSUME NEW SB \in Int, NEW SD \in Int, NEW SW \in Int, NEW Sr \in Int,
             NEW Se \in Int, NEW Sd \in Int, NEW Sg \in Int, NEW Sdd \in Int,
             NEW SU \in Int, NEW Ta \in Int, NEW sa \in Int, NEW ta \in Int,
             SB + Ta + SU <= SD + SW + Sr, Se + Sd + ta <= sa + (Sg + Sdd)
      PROVE  (SB + Se) + (Ta - sa + ta) + SU <= SD - Sd + Sg + SW + Sr + Sdd
  BY <1>7
<1>8. /\ S * B + T * acc + S * U <= S * D + S * W + S * r
      /\ S * e + S * d + t * acc <= s * acc + (S * g + S * dd)
  BY <1>1, <1>2
<1>9. (S * B + S * e) + (T * acc - s * acc + t * acc) + S * U
          <= S * D - S * d + S * g + S * W + S * r + S * dd
  BY <1>6, <1>7, <1>8
<1> QED BY <1>3, <1>4, <1>5, <1>9

\* The arithmetic of a deposit: the shares get x and fold, the backlog loses fold.
LEMMA DepositArithmetic ==
    ASSUME NEW S \in Nat, NEW A \in Nat, NEW D \in Nat, NEW T \in Nat,
           NEW acc \in Nat, NEW U \in Nat, NEW P \in Nat, NEW r \in Nat,
           NEW x \in Nat, NEW fold \in Nat, NEW share \in Nat,
           fold <= U, T * share <= S * (x + fold),
           S * A + T * acc + S * U <= S * (D + P + r)
    PROVE  S * A + T * (acc + share) + S * (U - fold) <= S * (D + (P + x) + r)
<1>1. T * (acc + share) = T * acc + T * share
  OBVIOUS
<1>2. S * (U - fold) = S * U - S * fold
  OBVIOUS
<1>3. S * (x + fold) = S * x + S * fold
  OBVIOUS
<1>4. S * (D + (P + x) + r) = S * (D + P + r) + S * x
  OBVIOUS
<1>5. /\ S * A \in Int /\ T * acc \in Int /\ T * share \in Int /\ S * U \in Int
      /\ S * fold \in Int /\ S * x \in Int /\ S * (D + P + r) \in Int
  OBVIOUS
<1> QED BY <1>1, <1>2, <1>3, <1>4, <1>5

\* The dust counts a change of the shares of u.
LEMMA DustCounts ==
    ASSUME dust \in Nat, NEW u \in Users,
           \A w \in Users \ {u} : position'[w] = position[w],
           dust' = dust + Cardinality({w \in Users : Reshared(w)})
    PROVE  /\ dust' \in Nat /\ dust' >= dust
           /\ Reshared(u) => dust' >= dust + 1
<1> DEFINE R == {w \in Users : Reshared(w)}
<1>1. R \subseteq {u}
  BY DEF Reshared
<1>2. R = {} \/ R = {u}
  BY <1>1
<1>3. Cardinality({}) = 0 /\ Cardinality({u}) = 1
  BY FS_EmptySet, FS_Singleton
<1>4. Reshared(u) => R = {u}
  BY <1>2
<1> HIDE DEF R
<1> QED BY <1>2, <1>3, <1>4 DEF R

\* Steps that leave the positions alone leave no dust.
LEMMA NoDust ==
    ASSUME dust \in Nat, position' = position,
           dust' = dust + Cardinality({w \in Users : Reshared(w)})
    PROVE  dust' = dust
<1>1. {w \in Users : Reshared(w)} = {}
  BY DEF Reshared
<1>2. Cardinality({}) = 0
  BY FS_EmptySet
<1> QED BY <1>1, <1>2

\* What the inductive step needs of the current state.
LEMMA RoundingTypes ==
    ASSUME RoundingInv
    PROVE  /\ YieldInv /\ vault \in SkrYieldVault
           /\ vault.total_staked_skr \in Nat /\ vault.acc_reward_per_share \in Nat
           /\ vault.unallocated_rewards \in Nat /\ vault.pending_rewards \in Nat
           /\ vault.total_rewards_distributed \in Nat
           /\ YieldScale \in Nat /\ YieldScale # 0 /\ dust \in Nat
           /\ AccountUnits \in Nat /\ PaidUnits \in Nat /\ DebtUnits \in Nat
           /\ Accounts \in [Users -> Nat] /\ Payments \in [Users -> Nat]
           /\ Debts \in [Users -> Nat]
           /\ Shares \in [Users -> Nat]
           /\ vault.total_staked_skr = Cardinality(Units(Users, Shares))
           /\ IsFiniteSet(Units(Users, Shares))
<1>1. YieldInv /\ vault \in SkrYieldVault
  BY DEF RoundingInv, SharesInv, YieldInv, TypeOK
<1>2. /\ vault.total_staked_skr \in Nat /\ vault.acc_reward_per_share \in Nat
      /\ vault.unallocated_rewards \in Nat /\ vault.pending_rewards \in Nat
      /\ vault.total_rewards_distributed \in Nat
  BY <1>1 DEF SkrYieldVault
<1>3. position \in [Users -> UserYieldPosition]
  BY <1>1 DEF YieldInv, TypeOK
<1>4. \A u \in Users : /\ position[u].accrued_rewards \in Nat
                       /\ position[u].total_claimed \in Nat
                       /\ position[u].reward_debt \in Nat
                       /\ position[u].staked_skr \in Nat
  BY <1>3 DEF UserYieldPosition
<1>5. /\ Accounts \in [Users -> Nat] /\ Payments \in [Users -> Nat]
      /\ Debts \in [Users -> Nat] /\ Shares \in [Users -> Nat]
  BY <1>4 DEF Accounts, Payments, Debts, Shares
<1>6. AccountUnits \in Nat /\ PaidUnits \in Nat /\ DebtUnits \in Nat
  BY FS_CardinalityType DEF RoundingInv, AccountUnits, PaidUnits, DebtUnits
<1> QED BY <1>1, <1>2, <1>5, <1>6, YieldParameterAssumption DEF RoundingInv, SharesInv

\* A credit keeps the books: the debt written is what the new shares have
\* earned but for less than a unit, and for nothing if they did not change.
LEMMA CreditKeeps ==
    ASSUME RoundingInv, SharesInv', NEW u \in Users, NEW t \in Nat,
           NEW e \in Nat, NEW pay \in Nat, Credits(u, t, e, pay),
           dust' = dust + Cardinality({w \in Users : Reshared(w)})
    PROVE  RoundingInv'
<1> DEFINE p == position[u]
           acc == vault.acc_reward_per_share
           s == p.staked_skr
           d == p.reward_debt
           a == p.accrued_rewards
           paid == p.total_claimed
           g == Gross(t)
           dd == dust' - dust
<1>1. /\ vault \in SkrYieldVault /\ acc \in Nat
      /\ vault.total_staked_skr \in Nat
      /\ vault.unallocated_rewards \in Nat /\ vault.pending_rewards \in Nat
      /\ vault.total_rewards_distributed \in Nat
      /\ YieldScale \in Nat /\ YieldScale # 0 /\ dust \in Nat
      /\ AccountUnits \in Nat /\ PaidUnits \in Nat /\ DebtUnits \in Nat
      /\ Accounts \in [Users -> Nat] /\ Payments \in [Users -> Nat]
      /\ Debts \in [Users -> Nat] /\ Shares \in [Users -> Nat]
  BY RoundingTypes
<1>2. s \in Nat /\ d \in Nat /\ a \in Nat /\ paid \in Nat
  <2>1. p \in UserYieldPosition
    BY DEF RoundingInv, SharesInv, YieldInv, TypeOK
  <2> QED BY <2>1 DEF UserYieldPosition
<1>3. /\ g \in Nat /\ t * acc \in Nat /\ t * acc < YieldScale * g + YieldScale
      /\ Gross(s) \in Nat /\ s * acc \in Nat /\ YieldScale * Gross(s) <= s * acc
  BY <1>1, <1>2, GrossBounds
<1>4. /\ e + d <= Gross(s) /\ pay <= a + e
      /\ \A w \in Users \ {u} : position'[w] = position[w]
      /\ position'[u].staked_skr = t /\ position'[u].reward_debt = g
      /\ position'[u].accrued_rewards = a + (e - pay)
      /\ position'[u].total_claimed = paid + pay
      /\ vault'.acc_reward_per_share = acc
      /\ vault'.unallocated_rewards = vault.unallocated_rewards
      /\ vault'.total_rewards_distributed = vault.total_rewards_distributed
      /\ vault'.pending_rewards = Monus(vault.pending_rewards, pay)
  BY DEF Credits
<1>5. dust' \in Nat /\ dd \in Nat /\ (Reshared(u) => dd >= 1)
  BY <1>1, <1>4, DustCounts
<1>6. Reshared(u) <=> t # s /\ acc > 0
  BY <1>4 DEF Reshared
<1>7. YieldScale * (e + d) <= s * acc
  <2>1. YieldScale * (e + d) <= YieldScale * Gross(s)
    BY <1>1, <1>2, <1>3, <1>4
  <2>2. YieldScale * (e + d) \in Nat /\ YieldScale * Gross(s) \in Nat
    BY <1>1, <1>2, <1>3
  <2> QED BY <1>3, <2>1, <2>2
<1>8. YieldScale * (e + d) + t * acc <= s * acc + YieldScale * (g + dd)
  <2> DEFINE Sed == YieldScale * (e + d)
             Sg == YieldScale * g
             Sgd == YieldScale * (g + dd)
  <2>1. Sed \in Nat /\ Sg \in Nat /\ Sgd \in Nat
    BY <1>1, <1>2, <1>3, <1>5
  <2>2. Sg <= Sgd
    BY <1>1, <1>3, <1>5
  <2>3. CASE t = s
    <3>1. YieldScale * (e + d) <= YieldScale * g
      BY <1>1, <1>2, <1>3, <1>4, <2>3
    <3>2. Sed <= Sg
      BY <3>1
    <3> HIDE DEF Sed, Sg, Sgd
    <3> QED BY <1>3, <2>1, <2>2, <2>3, <3>2 DEF Sed, Sgd
  <2>4. CASE acc = 0
    <3>1. t * acc = 0 /\ s * acc = 0
      BY <1>2, <2>4
    <3> QED BY <1>7, <2>1, <3>1
  <2>5. CASE Reshared(u)
    <3>1. dd >= 1
      BY <1>5, <2>5
    <3>2. YieldScale * (g + 1) <= YieldScale * (g + dd)
      BY <1>1, <1>3, <1>5, <3>1
    <3>3. YieldScale * (g + 1) = YieldScale * g + YieldScale
      BY <1>1, <1>3
    <3>4. t * acc <= Sgd
      BY <1>1, <1>3, <2>1, <3>2, <3>3
    <3> HIDE DEF Sed, Sg, Sgd
    <3>5. Sed <= s * acc
      BY <1>7 DEF Sed
    <3>6. Sed + t * acc <= s * acc + Sgd
      BY <1>3, <2>1, <3>4, <3>5
    <3> QED BY <3>6 DEF Sed, Sgd
  <2> QED BY <1>1, <1>6, <2>3, <2>4, <2>5
<1>9. /\ \A w \in Users : w # u =>
            /\ Accounts'[w] = Accounts[w] /\ Payments'[w] = Payments[w]
            /\ Debts'[w] = Debts[w] /\ Shares'[w] = Shares[w]
      /\ Accounts[u] = a /\ Payments[u] = paid /\ Debts[u] = d /\ Shares[u] = s
      /\ Accounts'[u] = a + (e - pay) /\ Payments'[u] = paid + pay
      /\ Debts'[u] = g /\ Shares'[u] = t
  BY <1>4 DEF Accounts, Payments, Debts, Shares
<1>10. /\ Accounts' \in [Users -> Nat] /\ Payments' \in [Users -> Nat]
       /\ Debts' \in [Users -> Nat] /\ Shares' \in [Users -> Nat]
       /\ vault'.total_staked_skr = Cardinality(Units(Users, Shares'))
  <2>1. position' \in [Users -> UserYieldPosition]
    BY DEF SharesInv, YieldInv, TypeOK
  <2>2. \A w \in Users : /\ position'[w].accrued_rewards \in Nat
                         /\ position'[w].total_claimed \in Nat
                         /\ position'[w].reward_debt \in Nat
                         /\ position'[w].staked_skr \in Nat
    BY <2>1 DEF UserYieldPosition
  <2> QED BY <2>2 DEF Accounts, Payments, Debts, Shares, SharesInv
<1>11. /\ IsFiniteSet(Units(Users, Accounts)) /\ IsFiniteSet(Units(Users, Payments))
       /\ IsFiniteSet(Units(Users, Debts)) /\ IsFiniteSet(Units(Users, Shares))
       /\ vault.total_staked_skr = Cardinality(Units(Users, Shares))
       /\ Covered /\ NothingForgotten
  BY DEF RoundingInv, SharesInv
<1>12. /\ IsFiniteSet(Units(Users, Accounts'))
       /\ AccountUnits' = AccountUnits - a + (a + (e - pay)) /\ a <= AccountUnits
  <2> HIDE DEF p, acc, s, d, a, g, dd, paid
  <2>1. \A w \in Users : w # u => Accounts'[w] = Accounts[w]
    BY <1>9
  <2>2. /\ Accounts \in [Users -> Nat] /\ Accounts' \in [Users -> Nat]
        /\ IsFiniteSet(Units(Users, Accounts))
    BY <1>1, <1>10, <1>11
  <2>3. /\ IsFiniteSet(Units(Users, Accounts'))
        /\ Cardinality(Units(Users, Accounts'))
               = Cardinality(Units(Users, Accounts)) - Accounts[u] + Accounts'[u]
        /\ Accounts[u] <= Cardinality(Units(Users, Accounts))
    BY <2>1, <2>2, UnitsChange
  <2> QED BY <1>9, <2>3 DEF AccountUnits
<1>13. /\ IsFiniteSet(Units(Users, Payments')) /\ PaidUnits' = PaidUnits + pay
  <2> HIDE DEF p, acc, s, d, a, g, dd, paid
  <2>1. /\ IsFiniteSet(Units(Users, Payments'))
        /\ Cardinality(Units(Users, Payments'))
               = Cardinality(Units(Users, Payments)) - Payments[u] + Payments'[u]
    BY <1>1, <1>9, <1>10, <1>11, UnitsChange
  <2>2. PaidUnits' = PaidUnits - paid + (paid + pay)
    BY <1>9, <2>1 DEF PaidUnits
  <2> QED BY <1>1, <1>2, <2>1, <2>2
<1>14. /\ IsFiniteSet(Units(Users, Debts'))
       /\ DebtUnits' = DebtUnits - d + g /\ d <= DebtUnits
  BY <1>1, <1>9, <1>10, <1>11, UnitsChange DEF DebtUnits
<1>15. /\ vault'.total_staked_skr = vault.total_staked_skr - s + t
       /\ s <= vault.total_staked_skr
  <2> HIDE DEF p, acc, s, d, a, g, dd, paid
  <2>1. /\ Cardinality(Units(Users, Shares'))
               = Cardinality(Units(Users, Shares)) - Shares[u] + Shares'[u]
        /\ Shares[u] <= Cardinality(Units(Users, Shares))
    BY <1>1, <1>9, <1>10, <1>11, UnitsChange
  <2> QED BY <1>9, <1>10, <1>11, <2>1
<1>16. NothingForgotten'
  BY <1>1, <1>4, <1>11, <1>13 DEF Monus, NothingForgotten
<1> DEFINE S == YieldScale
           B == AccountUnits + PaidUnits
           D == DebtUnits
           T == vault.total_staked_skr
           U == vault.unallocated_rewards
           W == vault.total_rewards_distributed
<1>17. S * B + T * acc + S * U <= S * (D + W + dust)
  BY <1>11 DEF Covered
<1>18. S * (B + e) + (T - s + t) * acc + S * U <= S * ((D - d + g) + W + (dust + dd))
  <2> HIDE DEF p, acc, s, d, a, g, dd, paid, S, B, D, T, U, W
  <2>1. /\ S \in Nat /\ B \in Nat /\ D \in Nat /\ T \in Nat /\ acc \in Nat /\ U \in Nat
        /\ W \in Nat /\ dust \in Nat /\ dd \in Nat /\ s \in Nat
        /\ d \in Nat /\ g \in Nat /\ d <= D /\ s <= T
        /\ S * (e + d) + t * acc <= s * acc + S * (g + dd)
    BY <1>1, <1>2, <1>3, <1>5, <1>8, <1>14, <1>15 DEF S, B, D, T, U, W
  <2> QED BY <1>17, <2>1, CreditArithmetic
<1>19. /\ AccountUnits' + PaidUnits' = B + e /\ dust' = dust + dd
  BY <1>1, <1>2, <1>5, <1>12, <1>13
<1>20. Covered'
  BY <1>4, <1>14, <1>15, <1>18, <1>19 DEF Covered
<1> QED BY <1>5, <1>12, <1>13, <1>14, <1>16, <1>20 DEF RoundingInv

\* So does a deposit.
LEMMA DepositKeepsBooks ==
    ASSUME RoundingInv, SharesInv', NEW x \in Nat, DepositYield(x), dust' = dust
    PROVE  RoundingInv'
<1> DEFINE S == YieldScale
           A == AccountUnits + PaidUnits
           D == DebtUnits
           T == vault.total_staked_skr
           acc == vault.acc_reward_per_share
           U == vault.unallocated_rewards
           P == vault.total_rewards_distributed
<1>1. /\ YieldInv /\ S \in Nat /\ A \in Nat /\ D \in Nat /\ T \in Nat /\ acc \in Nat
      /\ U \in Nat /\ P \in Nat /\ dust \in Nat
      /\ vault.pending_rewards \in Nat /\ PaidUnits \in Nat
  BY RoundingTypes
<1>2. /\ position' = position
      /\ vault'.total_staked_skr = T /\ vault'.total_rewards_distributed = P + x
      /\ vault'.pending_rewards = vault.pending_rewards + x
      /\ \/ /\ T = 0 /\ vault'.acc_reward_per_share = acc
            /\ vault'.unallocated_rewards = U + x
         \/ \E fold, share \in Nat :
               /\ fold <= U /\ T * share <= S * (x + fold)
               /\ vault'.acc_reward_per_share = acc + share
               /\ vault'.unallocated_rewards = U - fold
  BY <1>1, DepositFigures
<1>3. Accounts' = Accounts /\ Payments' = Payments /\ Debts' = Debts
  BY <1>2 DEF Accounts, Payments, Debts
<1>4. A' = A /\ D' = D /\ PaidUnits' = PaidUnits
  BY <1>3 DEF AccountUnits, PaidUnits, DebtUnits
<1>5. S * A + T * acc + S * U <= S * (D + P + dust)
  BY DEF RoundingInv, Covered
<1>6. S * A + vault'.total_staked_skr * vault'.acc_reward_per_share
          + S * vault'.unallocated_rewards <= S * (D + vault'.total_rewards_distributed + dust)
  <2> HIDE DEF S, A, D, T, acc, U, P
  <2>1. CASE /\ T = 0 /\ vault'.acc_reward_per_share = acc
             /\ vault'.unallocated_rewards = U + x
    <3>1. /\ S * (U + x) = S * U + S * x
          /\ S * (D + (P + x) + dust) = S * (D + P + dust) + S * x
      BY <1>1
    <3>2. /\ S * A \in Nat /\ T * acc \in Nat /\ S * U \in Nat /\ S * x \in Nat
          /\ S * (D + P + dust) \in Nat
      BY <1>1
    <3>3. S * A + T * acc + S * (U + x) <= S * (D + (P + x) + dust)
      BY <1>5, <3>1, <3>2
    <3> QED BY <1>2, <2>1, <3>3
  <2>2. ASSUME NEW fold \in Nat, NEW share \in Nat,
               fold <= U, T * share <= S * (x + fold),
               vault'.acc_reward_per_share = acc + share,
               vault'.unallocated_rewards = U - fold
        PROVE  S * A + vault'.total_staked_skr * vault'.acc_reward_per_share
                   + S * vault'.unallocated_rewards
                   <= S * (D + vault'.total_rewards_distributed + dust)
    <3>1. S * A + T * (acc + share) + S * (U - fold) <= S * (D + (P + x) + dust)
      BY <1>1, <1>5, <2>2, DepositArithmetic
    <3> QED BY <1>2, <2>2, <3>1
  <2> QED BY <1>2, <2>1, <2>2
<1>7. Covered'
  BY <1>4, <1>6 DEF Covered
<1>8. NothingForgotten'
  BY <1>1, <1>2, <1>4 DEF RoundingInv, NothingForgotten
<1> QED BY <1>3, <1>7, <1>8 DEF RoundingInv

\* What all stakers are entitled to is at most what is in their accounts and
\* what their shares have earned in all, less their debts; and the earnings
\* rounded down one by one do not add up to more than all together.
LEMMA EntitledUnits ==
    ASSUME RoundingInv
    PROVE  /\ Cardinality(EntitlementUnits) \in Nat
           /\ YieldScale * (Cardinality(EntitlementUnits) + DebtUnits)
                  <= YieldScale * AccountUnits
                         + vault.total_staked_skr * vault.acc_reward_per_share
<1> DEFINE S == YieldScale
           acc == vault.acc_reward_per_share
           E == [u \in Users |-> Entitlement(u)]
           owed == [u \in Users |-> E[u] + Debts[u]]
           owedS == [u \in Users |-> S * owed[u]]
           inS == [u \in Users |-> S * Accounts[u]]
           byAcc == [u \in Users |-> acc * Shares[u]]
           all == [u \in Users |-> inS[u] + byAcc[u]]
<1>1. /\ YieldInv /\ vault \in SkrYieldVault /\ acc \in Nat
      /\ S \in Nat /\ S # 0
      /\ AccountUnits \in Nat /\ DebtUnits \in Nat /\ vault.total_staked_skr \in Nat
      /\ Accounts \in [Users -> Nat] /\ Debts \in [Users -> Nat]
      /\ Shares \in [Users -> Nat]
      /\ vault.total_staked_skr = Cardinality(Units(Users, Shares))
      /\ IsFiniteSet(Units(Users, Shares))
  BY RoundingTypes
<1>2. IsFiniteSet(Units(Users, Accounts)) /\ IsFiniteSet(Units(Users, Debts))
  BY DEF RoundingInv
<1>3. ASSUME NEW u \in Users
      PROVE  /\ Entitlement(u) \in Nat
             /\ S * (Entitlement(u) + Debts[u]) <= S * Accounts[u] + acc * Shares[u]
  <2> DEFINE p == position[u]
             h == Harvest(p, escrow[u])
             G == Gross(p.staked_skr)
  <2>1. p \in UserYieldPosition /\ escrow[u] \in Nat
    BY <1>1 DEF YieldInv, TypeOK
  <2>2. h \in Nat /\ h + p.reward_debt <= G
    BY <1>1, <2>1, HarvestIsEarned
  <2>3. p.staked_skr \in Nat /\ p.reward_debt \in Nat /\ p.accrued_rewards \in Nat
    BY <2>1 DEF UserYieldPosition
  <2>4. /\ Accounts[u] = p.accrued_rewards /\ Debts[u] = p.reward_debt
        /\ Shares[u] = p.staked_skr /\ Entitlement(u) = p.accrued_rewards + h
    BY DEF Accounts, Debts, Shares, Entitlement
  <2>5. /\ G \in Nat /\ S * G <= p.staked_skr * acc /\ p.staked_skr * acc \in Nat
    BY <1>1, <2>3, GrossBounds
  <2> HIDE DEF p, h, G, S, acc
  <2>6. S * (p.accrued_rewards + h + p.reward_debt) <= S * (p.accrued_rewards + G)
    <3>1. /\ p.accrued_rewards + h + p.reward_debt <= p.accrued_rewards + G
          /\ p.accrued_rewards + h + p.reward_debt \in Nat
          /\ p.accrued_rewards + G \in Nat
      BY <2>2, <2>3, <2>5
    <3> QED BY <1>1, <3>1, TimesMonotone
  <2>7. S * (p.accrued_rewards + G) = S * p.accrued_rewards + S * G
    BY <1>1, <2>3, <2>5
  <2>8. p.staked_skr * acc = acc * p.staked_skr
    BY <1>1, <2>3
  <2>9. /\ S * (p.accrued_rewards + h + p.reward_debt) \in Nat
        /\ S * p.accrued_rewards \in Nat /\ S * G \in Nat
    BY <1>1, <2>2, <2>3, <2>5
  <2>10. S * (p.accrued_rewards + h + p.reward_debt)
             <= S * p.accrued_rewards + acc * p.staked_skr
    BY <2>5, <2>6, <2>7, <2>8, <2>9
  <2> QED BY <2>2, <2>3, <2>4, <2>10
<1>4. /\ E \in [Users -> Nat]
      /\ inS \in [Users -> Nat] /\ byAcc \in [Users -> Nat]
  BY <1>1, <1>3
<1>5. EntitlementUnits = Units(Users, E)
  <2>1. EntitlementUnits = UNION {{u} \X (1..E[u]) : u \in Users}
    BY DEF EntitlementUnits
  <2> HIDE DEF E
  <2> QED BY <1>4, <2>1, UnitsByElement
<1>6. /\ IsFiniteSet(Units(Users, inS))
      /\ Cardinality(Units(Users, inS)) = S * AccountUnits
  <2> HIDE DEF S
  <2> QED BY <1>1, <1>2, ScaledUnits DEF AccountUnits
<1>7. /\ IsFiniteSet(Units(Users, byAcc))
      /\ Cardinality(Units(Users, byAcc)) = acc * vault.total_staked_skr
  <2> HIDE DEF acc
  <2> QED BY <1>1, ScaledUnits
<1>8. /\ all \in [Users -> Nat] /\ IsFiniteSet(Units(Users, all))
      /\ Cardinality(Units(Users, all)) = S * AccountUnits + acc * vault.total_staked_skr
  <2> HIDE DEF S, acc, inS, byAcc
  <2>1. all \in [Users -> Nat]
    BY <1>4
  <2> QED BY <1>4, <1>6, <1>7, <2>1, AddedUnits
<1>9. owed \in [Users -> Nat] /\ owedS \in [Users -> Nat]
  <2> HIDE DEF E, S
  <2>1. \A u \in Users : owed[u] \in Nat /\ S * owed[u] \in Nat
    BY <1>1, <1>4
  <2> QED BY <2>1
<1>10. \A u \in Users : owedS[u] <= all[u] /\ owed[u] <= owedS[u] /\ E[u] <= owed[u]
  <2> SUFFICES ASSUME NEW u \in Users
               PROVE  owedS[u] <= all[u] /\ owed[u] <= owedS[u] /\ E[u] <= owed[u]
    OBVIOUS
  <2>1. owedS[u] = S * (Entitlement(u) + Debts[u])
        /\ all[u] = S * Accounts[u] + acc * Shares[u]
        /\ owed[u] = Entitlement(u) + Debts[u] /\ E[u] = Entitlement(u)
    OBVIOUS
  <2> HIDE DEF owedS, all, owed, E
  <2>2. Entitlement(u) \in Nat /\ Debts[u] \in Nat
    BY <1>1, <1>3
  <2>3. Entitlement(u) + Debts[u] <= S * (Entitlement(u) + Debts[u])
    <3> DEFINE n == Entitlement(u) + Debts[u]
    <3>1. n \in Nat /\ 1 <= S
      BY <1>1, <2>2
    <3> HIDE DEF n
    <3>2. 1 * n <= S * n
      BY <1>1, <3>1, TimesMonotone
    <3>3. n <= S * n
      BY <3>1, <3>2
    <3> QED BY <3>3 DEF n
  <2> QED BY <1>3, <2>1, <2>2, <2>3
<1> HIDE DEF S, acc, E, owed, owedS, all
<1>11. IsFiniteSet(Units(Users, owedS))
       /\ Cardinality(Units(Users, owedS)) <= Cardinality(Units(Users, all))
  BY <1>8, <1>9, <1>10, LighterUnits
<1>12. IsFiniteSet(Units(Users, owed))
  BY <1>9, <1>10, <1>11, LighterUnits
<1>13. IsFiniteSet(Units(Users, E))
  BY <1>4, <1>9, <1>10, <1>12, LighterUnits
<1>14. Cardinality(Units(Users, owed)) = Cardinality(Units(Users, E)) + DebtUnits
  BY <1>1, <1>2, <1>4, <1>13, AddedUnits DEF owed, DebtUnits
<1>15. Cardinality(Units(Users, owedS)) = S * Cardinality(Units(Users, owed))
  BY <1>1, <1>9, <1>12, ScaledUnits DEF owedS
<1>16. Cardinality(Units(Users, E)) \in Nat
  BY <1>13, FS_CardinalityType
<1>17. S * (Cardinality(Units(Users, E)) + DebtUnits)
           <= S * AccountUnits + acc * vault.total_staked_skr
  BY <1>8, <1>11, <1>14, <1>15
<1>18. acc * vault.total_staked_skr = vault.total_staked_skr * acc
  BY <1>1
<1> QED BY <1>5, <1>16, <1>17, <1>18 DEF S, acc

\* The scaled inequality gives the one in whole units.
LEMMA CoveredInUnits ==
    ASSUME NEW S \in Nat \ {0}, NEW A \in Nat, NEW C \in Nat, NEW E \in Nat,
           NEW D \in Nat, NEW X \in Nat, NEW U \in Nat, NEW W \in Nat, NEW r \in Nat,
           S * (E + D) <= S * A + X, S * (A + C) + X + S * U <= S * (D + W + r)
    PROVE  C + E + U <= W + r
<1>1. S * (A + C) = S * A + S * C
  OBVIOUS
<1>2. S * (E + D) + S * C + S * U <= S * (D + W + r)
  <2>1. /\ S * (E + D) \in Nat /\ S * A \in Nat /\ S * C \in Nat /\ S * U \in Nat
        /\ S * (D + W + r) \in Nat
    OBVIOUS
  <2> QED BY <1>1, <2>1
<1>3. S * (C + E + D + U) = S * (E + D) + S * C + S * U
  OBVIOUS
<1>4. S * (C + E + D + U) <= S * (D + W + r)
  BY <1>2, <1>3
<1>5. C + E + D + U <= D + W + r
  <2> SUFFICES ASSUME D + W + r + 1 <= C + E + D + U PROVE FALSE
    OBVIOUS
  <2>1. S * (D + W + r + 1) <= S * (C + E + D + U)
    OBVIOUS
  <2>2. S * (D + W + r + 1) = S * (D + W + r) + S
    OBVIOUS
  <2>3. S * (D + W + r) \in Nat /\ S * (C + E + D + U) \in Nat
    OBVIOUS
  <2> QED BY <1>4, <2>1, <2>2, <2>3
<1> QED BY <1>5

\* What is owed in the end, in whole units.
OwedInUnits ==
    /\ PaidUnits \in Nat /\ Cardinality(EntitlementUnits) \in Nat
    /\ PaidUnits + Cardinality(EntitlementUnits) + vault.unallocated_rewards
           <= vault.total_rewards_distributed + dust

LEMMA BooksInUnits == RoundingInv => OwedInUnits
<1> SUFFICES ASSUME RoundingInv PROVE OwedInUnits
  OBVIOUS
<1> DEFINE X == vault.total_staked_skr * vault.acc_reward_per_share
<1>1. /\ vault.total_staked_skr \in Nat /\ vault.acc_reward_per_share \in Nat
      /\ vault.unallocated_rewards \in Nat /\ vault.total_rewards_distributed \in Nat
      /\ YieldScale \in Nat /\ YieldScale # 0 /\ dust \in Nat
      /\ AccountUnits \in Nat /\ PaidUnits \in Nat /\ DebtUnits \in Nat
  BY RoundingTypes
<1>2. X \in Nat
  BY <1>1
<1>3. /\ Cardinality(EntitlementUnits) \in Nat
      /\ YieldScale * (Cardinality(EntitlementUnits) + DebtUnits)
             <= YieldScale * AccountUnits + X
  BY EntitledUnits
<1>4. YieldScale * (AccountUnits + PaidUnits) + X + YieldScale * vault.unallocated_rewards
          <= YieldScale * (DebtUnits + vault.total_rewards_distributed + dust)
  BY DEF RoundingInv, Covered
<1> HIDE DEF X
<1>5. PaidUnits + Cardinality(EntitlementUnits) + vault.unallocated_rewards
          <= vault.total_rewards_distributed + dust
  BY <1>1, <1>2, <1>3, <1>4, CoveredInUnits
<1> QED BY <1>1, <1>3, <1>5 DEF OwedInUnits

LEMMA RoundingInit0 == RoundingInit => RoundingInv
<1> SUFFICES ASSUME RoundingInit PROVE RoundingInv
  OBVIOUS
<1>1. Init /\ dust = 0
  BY DEF RoundingInit
<1>2. /\ Accounts \in [Users -> Nat] /\ \A u \in Users : Accounts[u] = 0
      /\ Payments \in [Users -> Nat] /\ \A u \in Users : Payments[u] = 0
      /\ Debts \in [Users -> Nat] /\ \A u \in Users : Debts[u] = 0
  BY <1>1 DEF Init, NoPosition, Accounts, Payments, Debts
<1>3. /\ IsFiniteSet(Units(Users, Accounts)) /\ AccountUnits = 0
      /\ IsFiniteSet(Units(Users, Payments)) /\ PaidUnits = 0
      /\ IsFiniteSet(Units(Users, Debts)) /\ DebtUnits = 0
  BY <1>2, NothingWeighs DEF AccountUnits, PaidUnits, DebtUnits
<1>4. /\ vault.total_staked_skr = 0 /\ vault.acc_reward_per_share = 0
      /\ vault.unallocated_rewards = 0 /\ vault.total_rewards_distributed = 0
      /\ vault.pending_rewards = 0
  BY <1>1 DEF Init, NoVault
<1>5. SharesInv
  BY <1>1, SharesInit
<1>6. Covered /\ NothingForgotten
  BY <1>1, <1>3, <1>4, YieldParameterAssumption DEF Covered, NothingForgotten
<1> QED BY <1>1, <1>3, <1>5, <1>6 DEF RoundingInv

\* A step that moves no money leaves the books alone.
LEMMA QuietKeepsBooks ==
    ASSUME RoundingInv, SharesInv', QuietMoves, dust' = dust
    PROVE  RoundingInv'
<1>1. Accounts' = Accounts /\ Payments' = Payments /\ Debts' = Debts
  BY DEF QuietMoves, Accounts, Payments, Debts
<1>2. Covered' /\ NothingForgotten'
  BY <1>1 DEF RoundingInv, Covered, NothingForgotten, QuietMoves,
              AccountUnits, PaidUnits, DebtUnits
<1> QED BY <1>1, <1>2 DEF RoundingInv

LEMMA RoundingNext == RoundingInv /\ [CountDust]_<<vars, dust>> => RoundingInv'
<1> SUFFICES ASSUME RoundingInv, [CountDust]_<<vars, dust>> PROVE RoundingInv'
  OBVIOUS
<1>1. CASE CountDust
  <2>1. /\ SharesInv /\ YieldInv /\ [Next]_vars /\ dust \in Nat
        /\ dust' = dust + Cardinality({u \in Users : Reshared(u)})
    BY <1>1 DEF CountDust, RoundingInv, SharesInv
  <2>2. SharesInv'
    BY <2>1, SharesNext
  <2>3. CASE CreditMoves
    BY <2>1, <2>2, <2>3, CreditKeeps DEF CreditMoves
  <2>4. CASE QuietMoves
    <3>1. dust' = dust
      BY <2>1, <2>4, NoDust DEF QuietMoves
    <3> QED BY <2>2, <2>4, <3>1, QuietKeepsBooks
  <2>5. ASSUME NEW x \in Rewards, DepositYield(x) PROVE RoundingInv'
    <3>1. dust' = dust
      BY <2>1, <2>5, NoDust DEF DepositYield
    <3>2. x \in Nat
      BY YieldParameterAssumption
    <3> QED BY <2>2, <2>5, <3>1, <3>2, DepositKeepsBooks
  <2> QED BY <2>1, <2>3, <2>4, <2>5, StepCredits
<1>2. CASE UNCHANGED <<vars, dust>>
  <2>1. SharesInv'
    BY <1>2, SharesNext DEF RoundingInv
  <2>2. QuietMoves /\ dust' = dust
    BY <1>2 DEF vars, QuietMoves
  <2> QED BY <2>1, <2>2, QuietKeepsBooks
<1> QED BY <1>1, <1>2

LEMMA RoundingInvariant == RoundingSpec => []RoundingInv
BY RoundingInit0, RoundingNext, PTL DEF RoundingSpec

\* REWARDS ARE NEVER PROMISED TWICE.  For any stakers, scale and amounts,
\* whichever calls are synced and whatever is sent to an escrow: what all
\* stakers could claim and what is still parked is covered by pending_rewards,
\* but for one unit for each change of shares (accrue_yield and the syncs in
\* processor.rs).
THEOREM RewardsArePromisedOnce == RoundingSpec => []EntitlementsCovered
<1>1. RoundingInv => EntitlementsCovered
  <2> SUFFICES ASSUME RoundingInv PROVE EntitlementsCovered
    OBVIOUS
  <2>1. /\ vault.unallocated_rewards \in Nat /\ vault.pending_rewards \in Nat
        /\ vault.total_rewards_distributed \in Nat /\ dust \in Nat
    BY RoundingTypes
  <2>2. OwedInUnits /\ NothingForgotten
    BY BooksInUnits DEF RoundingInv
  <2> QED BY <2>1, <2>2 DEF OwedInUnits, NothingForgotten, EntitlementsCovered
<1> QED BY <1>1, RoundingInvariant, PTL

\* pending_rewards keeps nothing that is gone, but for the rounding.
NothingKept ==
    vault.pending_rewards + PaidUnits <= vault.total_rewards_distributed + dust

\* A claim that pays more than is pending leaves nothing pending, and what was
\* paid by then is bounded anyhow.
LEMMA KeptNext ==
    RoundingInv /\ RoundingInv' /\ OwedInUnits' /\ NothingKept
        /\ [CountDust]_<<vars, dust>> => NothingKept'
<1> SUFFICES ASSUME RoundingInv, RoundingInv', OwedInUnits', NothingKept,
                    [CountDust]_<<vars, dust>>
             PROVE  NothingKept'
  OBVIOUS
<1>1. /\ YieldInv /\ vault.pending_rewards \in Nat /\ PaidUnits \in Nat
      /\ vault.total_rewards_distributed \in Nat /\ dust \in Nat
      /\ Payments \in [Users -> Nat] /\ IsFiniteSet(Units(Users, Payments))
  BY RoundingTypes DEF RoundingInv
<1>2. /\ vault'.unallocated_rewards \in Nat /\ dust' \in Nat
      /\ Payments' \in [Users -> Nat]
  <2>1. vault' \in SkrYieldVault /\ position' \in [Users -> UserYieldPosition]
    BY DEF RoundingInv, SharesInv, YieldInv, TypeOK
  <2>2. \A u \in Users : position'[u].total_claimed \in Nat
    BY <2>1 DEF UserYieldPosition
  <2> QED BY <2>1, <2>2 DEF SkrYieldVault, RoundingInv, Payments
<1>3. ASSUME QuietMoves, dust' = dust PROVE NothingKept'
  <2>1. PaidUnits' = PaidUnits
    BY <1>3 DEF QuietMoves, PaidUnits, Payments
  <2> QED BY <1>3, <2>1 DEF QuietMoves, NothingKept
<1>4. ASSUME CountDust, NEW u \in Users, NEW t \in Nat, NEW e \in Nat, NEW pay \in Nat,
             Credits(u, t, e, pay)
      PROVE  NothingKept'
  <2>1. dust' >= dust
    BY <1>1, <1>4, DustCounts DEF Credits, CountDust
  <2>2. /\ \A w \in Users : w # u => Payments'[w] = Payments[w]
        /\ Payments[u] \in Nat /\ Payments'[u] = Payments[u] + pay
    BY <1>1, <1>4 DEF Credits, Payments
  <2>3. Cardinality(Units(Users, Payments'))
            = Cardinality(Units(Users, Payments)) - Payments[u] + Payments'[u]
    BY <1>1, <1>2, <2>2, UnitsChange
  <2>4. PaidUnits' = PaidUnits + pay
    BY <1>1, <2>2, <2>3 DEF PaidUnits
  <2>5. /\ vault'.total_rewards_distributed = vault.total_rewards_distributed
        /\ vault'.pending_rewards = Monus(vault.pending_rewards, pay)
    BY <1>4 DEF Credits
  <2>6. CASE vault.pending_rewards >= pay
    BY <1>1, <1>2, <2>1, <2>4, <2>5, <2>6 DEF Monus, NothingKept
  <2>7. CASE ~(vault.pending_rewards >= pay)
    BY <1>1, <1>2, <2>5, <2>7 DEF Monus, NothingKept, OwedInUnits
  <2> QED BY <2>6, <2>7
<1>5. ASSUME CountDust, NEW x \in Rewards, DepositYield(x) PROVE NothingKept'
  <2>1. x \in Nat
    BY YieldParameterAssumption
  <2>2. /\ position' = position
        /\ vault'.pending_rewards = vault.pending_rewards + x
        /\ vault'.total_rewards_distributed = vault.total_rewards_distributed + x
    BY <1>1, <1>5, <2>1, DepositFigures
  <2>3. dust' = dust /\ PaidUnits' = PaidUnits
    BY <1>1, <1>5, <2>2, NoDust DEF CountDust, PaidUnits, Payments
  <2> QED BY <1>1, <2>1, <2>2, <2>3 DEF NothingKept
<1>6. CASE CountDust
  <2>1. CASE QuietMoves
    BY <1>1, <1>3, <1>6, <2>1, NoDust DEF QuietMoves, CountDust
  <2> QED BY <1>1, <1>4, <1>5, <1>6, <2>1, StepCredits DEF CountDust, CreditMoves
<1>7. CASE UNCHANGED <<vars, dust>>
  BY <1>3, <1>7 DEF vars, QuietMoves
<1> QED BY <1>6, <1>7

\* REWARDS ARE PAID ONCE.  Over the whole life of the vault, in whatever order
\* its calls come: what was ever paid, is owed or is parked was distributed, and
\* pending_rewards is what was distributed and not paid, but for one unit for
\* each change of shares (accrue_yield, process_claim_skr_yield).
THEOREM RewardsAddUp == RoundingSpec => []RewardsArePaidOnce
<1>1. RoundingInit => NothingKept
  <2> SUFFICES ASSUME RoundingInit PROVE NothingKept
    OBVIOUS
  <2>1. /\ Payments \in [Users -> Nat] /\ \A u \in Users : Payments[u] = 0
        /\ vault.pending_rewards = 0 /\ vault.total_rewards_distributed = 0 /\ dust = 0
    BY DEF RoundingInit, Init, NoPosition, NoVault, Payments
  <2>2. PaidUnits = 0
    BY <2>1, NothingWeighs DEF PaidUnits
  <2> QED BY <2>1, <2>2 DEF NothingKept
<1>2. RoundingSpec => []NothingKept
  BY <1>1, RoundingInvariant, BooksInUnits, KeptNext, PTL DEF RoundingSpec
<1>3. RoundingInv /\ NothingKept => RewardsArePaidOnce
  <2> SUFFICES ASSUME RoundingInv, NothingKept PROVE RewardsArePaidOnce
    OBVIOUS
  <2>1. OwedInUnits /\ NothingForgotten
    BY BooksInUnits DEF RoundingInv
  <2>2. PaymentUnits = Units(Users, Payments)
    <3>1. Payments \in [Users -> Nat]
      BY RoundingTypes
    <3>2. PaymentUnits = UNION {{u} \X (1..Payments[u]) : u \in Users}
      BY DEF PaymentUnits, Payments
    <3> QED BY <3>1, <3>2, UnitsByElement
  <2> QED BY <2>1, <2>2
       DEF OwedInUnits, NothingForgotten, NothingKept, PaidUnits, RewardsArePaidOnce
<1> QED BY <1>2, <1>3, RoundingInvariant, PTL
=============================================================================
