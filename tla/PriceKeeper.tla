---------------------------- MODULE PriceKeeper ----------------------------
(***************************************************************************)
(* The job that keeps the global feeds fresh (scripts/crank_oracles.mjs,   *)
(* run on the schedule of .github/workflows/keeper.yml), composed with the *)
(* feeds it writes and the valuations that read them.                      *)
(*                                                                         *)
(* A market price is represented by the time it was observed at, so that   *)
(* the price in a feed tells how old the observation behind it is.  What   *)
(* the scheduler and the network may do is bounded by constants, and the   *)
(* clock does not pass a bound before what it bounds has happened.         *)
(***************************************************************************)
EXTENDS PriceFeeds, FiniteSets

CONSTANTS
    Period,     \* between two scheduled starts, 600 in the source
    Jitter,     \* how late the scheduler may start a job
    RunTime,    \* how long a job may take
    MaxMisses,  \* how many jobs in a row may fail
    MaxRuns     \* bound on the jobs under way (model checking only)

ASSUME KeeperAssumption ==
    /\ Period \in Nat \ {0} /\ Jitter \in Nat /\ RunTime \in Nat
    /\ MaxMisses \in Nat /\ MaxRuns \in Nat

VARIABLES
    due,        \* when the next scheduled job is to start
    runs,       \* jobs under way: what they were due for, if not started by
                \* hand, when they started and when they observed the prices
    misses      \* jobs that failed since one succeeded

keeperVars == <<vars, due, runs, misses>>

\* The job signs with the key the configuration names for it.
Keeper == admin.oracle_authority

KeeperInit == Init /\ due = 1 /\ runs = {} /\ misses = 0

NewRun(slot) == [slot |-> slot, started |-> now, observed |-> 0]

\* A scheduled start, and one by hand at any time.
Start ==
    /\ now >= due /\ due' = due + Period
    /\ runs' = runs \cup {NewRun(due)}
    /\ UNCHANGED <<vars, misses>>
Dispatch ==
    /\ Cardinality(runs) < MaxRuns
    /\ runs' = runs \cup {NewRun(0)}
    /\ UNCHANGED <<vars, due, misses>>

\* Slip: where no price can be had, the published one is put out again.
ObserveFallsBack(r) ==
    /\ r.observed = 0
    /\ \E price \in ({now} \cup {feed["global"][m].price : m \in Collaterals}) \ {0} :
          runs' = (runs \ {r}) \cup {[r EXCEPT !.observed = price]}
    /\ UNCHANGED <<vars, due, misses>>
\* Both prices are fetched, after the job has installed what it needs.
Observe(r) ==
    /\ r.observed = 0
    /\ runs' = (runs \ {r}) \cup {[r EXCEPT !.observed = now]}
    /\ UNCHANGED <<vars, due, misses>>

\* Slip: a transaction for each mint, of which the second is lost.
LandSolOnly(r) ==
    /\ r.observed # 0 /\ \A m \in Collaterals : Keeper \in Publishers("global", m)
    /\ feed' = [feed EXCEPT !["global"]["SOL"] = Feed(Keeper, r.observed, TRUE)]
    /\ runs' = runs \ {r} /\ misses' = 0
    /\ quote' = NoQuote /\ UNCHANGED <<now, admin, has_custom_oracle, due>>
\* One transaction sets both feeds, with the scale of their mints.
Land(r) ==
    /\ r.observed # 0 /\ \A m \in Collaterals : Keeper \in Publishers("global", m)
    /\ feed' = [feed EXCEPT !["global"] =
                   [m \in FeedMints |-> IF m \in Collaterals
                                        THEN Feed(Keeper, r.observed, TRUE) ELSE @[m]]]
    /\ runs' = runs \ {r} /\ misses' = 0
    /\ quote' = NoQuote /\ UNCHANGED <<now, admin, has_custom_oracle, due>>

\* A price that cannot be had, or a transaction that fails, ends the job with
\* nothing published.
Drop(r) ==
    /\ misses < MaxMisses /\ misses' = misses + 1
    /\ runs' = runs \ {r}
    /\ UNCHANGED <<vars, due>>

KeeperTick ==
    /\ now < due + Jitter /\ \A r \in runs : now < r.started + RunTime
    /\ Tick /\ UNCHANGED <<due, runs, misses>>

SetUp == InitializeAdmin /\ UNCHANGED <<due, runs, misses>>
Quote1 == Valuation /\ UNCHANGED <<due, runs, misses>>

KeeperNext ==
    \/ SetUp \/ Start \/ Dispatch \/ KeeperTick \/ Quote1
    \/ \E r \in runs : Observe(r) \/ Land(r) \/ Drop(r)

KeeperSpec == KeeperInit /\ [][KeeperNext]_keeperVars

-----------------------------------------------------------------------------
(* Properties.                                                             *)

\* Both collaterals' feeds are published together and go on being published:
\* through late starts, failed jobs and jobs that overtake each other, no feed
\* gets older than the gap the schedule leaves when all goes as badly as it may.
\* keeper.yml:2-3 has the cadence "under the 600s pricing staleness bound" with
\* "~2x headroom"; at its 600 s the gap is above MaxPriceAge as soon as a job is
\* late, takes time or fails, and until the next one lands the feeds are refused.
LongestGap == (MaxMisses + 1) * Period + Jitter + RunTime
FeedsAreKept ==
    (\E m \in Collaterals : feed["global"][m].exists) =>
        \A m \in Collaterals :
            /\ feed["global"][m].exists /\ feed["global"][m].scaled
            /\ now - feed["global"][m].last_updated_at <= LongestGap

\* Only the time of publication is in the feed.  The price that values
\* collateral may be older than MaxPriceAge, but by no more than a job takes,
\* whatever jobs overtake each other.
PriceIsRecent ==
    quote # NoQuote /\ quote.price # Baseline[quote.collateral] =>
        now - quote.price <= MaxPriceAge + RunTime
=============================================================================
