----------------------------- MODULE MCSkrYield -----------------------------
(* SkrYield on small instances, with two history variables: dust of          *)
(* SkrRounding and the one declared here.                                   *)
EXTENDS SkrRounding, TLC

CONSTANTS
    a, b,           \* two stakers
    MaxDust         \* bound on changes of shares that are counted

MCUsers == {a, b}
Stakers == Permutations({a, b})
\* One unit each can meet in one escrow, by a gift; two can be split up.
MCSkrOne == (a :> 1) @@ (b :> 1)
MCSkrEven == (a :> 2) @@ (b :> 2)

VARIABLE
    backed  \* what each position's shares earned while they were in the escrow,
            \* since it was last brought up to date, times YieldScale

mcVars == <<vars, backed, dust>>

\* The step brings the position of u up to date.
Touched(u) == position'[u] # position[u] \/ ClaimYield(u)

HistoryInit == RoundingInit /\ backed = [u \in Users |-> 0]

CountSomeDust == CountDust /\ dust' <= MaxDust /\ UNCHANGED backed

WatchBacking ==
    /\ Next
    /\ backed' = [u \in Users |->
           IF Touched(u) THEN 0
           ELSE backed[u] + Least(position[u].staked_skr, escrow[u])
                    * (vault'.acc_reward_per_share - vault.acc_reward_per_share)]
    /\ UNCHANGED dust

DustSpec == HistoryInit /\ [][CountSomeDust]_mcVars
GhostSpec == HistoryInit /\ [][WatchBacking]_mcVars

\* A reward is shared by the stake that was in escrow when it came: no position
\* is credited, rounding aside, for rewards that came while its shares were
\* not backed.
Earned(p) == p.accrued_rewards + p.total_claimed
GhostSharesEarnNothing ==
    [][\A u \in Users :
          YieldScale * (Earned(position'[u]) - Earned(position[u]))
              < backed[u] + YieldScale]_mcVars
=============================================================================
