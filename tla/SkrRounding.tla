---------------------------- MODULE SkrRounding ----------------------------
(***************************************************************************)
(* What rounding can cost the SKR yield vault.  A position's debt and its  *)
(* gross yield are both rounded down, so that a change of shares may       *)
(* credit up to a unit that no deposit brought.  The history variable dust *)
(* counts those occasions; it is read by properties only.                  *)
(***************************************************************************)
EXTENDS SkrYield

VARIABLE dust   \* how often shares changed after the accumulator had moved

Reshared(u) ==
    /\ position'[u].staked_skr # position[u].staked_skr
    /\ vault.acc_reward_per_share > 0

CountDust ==
    /\ Next
    /\ dust' = dust + Cardinality({u \in Users : Reshared(u)})

RoundingInit == Init /\ dust = 0
RoundingSpec == RoundingInit /\ [][CountDust]_<<vars, dust>>

\* What all stakers together could be credited with now (a unit is a pair of a
\* staker and an index up to the staker's entitlement).
EntitlementUnits == UNION {{u} \X (1..Entitlement(u)) : u \in Users}

\* Rewards are never promised twice: what all stakers are entitled to and what
\* is still parked is covered by pending_rewards, but for the rounding of the
\* debt, one unit each time shares change (accrue_yield, the syncs and the
\* claim in processor.rs).  It follows from RewardsArePaidOnce.
EntitlementsCovered ==
    Cardinality(EntitlementUnits) + vault.unallocated_rewards
        <= vault.pending_rewards + dust

\* What has been paid to all stakers together, by the count in each position.
PaymentUnits == UNION {{u} \X (1..position[u].total_claimed) : u \in Users}

\* Over the vault's whole life, rewards are paid once.  What was paid, what
\* all stakers are entitled to and what is parked come to no more than was
\* ever distributed, and pending_rewards, from which a claim is subtracted
\* with a clamp, stays what was distributed and not paid: neither falls below
\* it nor keeps what is gone; all but for the same rounding (accrue_yield,
\* process_claim_skr_yield).
RewardsArePaidOnce ==
    LET paid == Cardinality(PaymentUnits)
        ever == vault.total_rewards_distributed
    IN  /\ paid + Cardinality(EntitlementUnits) + vault.unallocated_rewards <= ever + dust
        /\ ever <= vault.pending_rewards + paid
        /\ vault.pending_rewards + paid <= ever + dust
=============================================================================
