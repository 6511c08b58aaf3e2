----------------------------- MODULE LivePrices -----------------------------
(***************************************************************************)
(* The prices the phone app shows and sizes collateral with: the one       *)
(* livePrices record of mobile/src/solana/onChainService.ts, filled by     *)
(* polls (fetchLivePrices: the program's feeds, then Jupiter, then         *)
(* CoinGecko) and by a socket subscribed to the feeds                      *)
(* (initOracleWebSocketListener).                                          *)
(*                                                                         *)
(* Each await of a poll is a step; several polls can be under way, for     *)
(* either network, and pushes arrive between their steps.  A service's     *)
(* answer is any set of quotes, the empty one for a failure or a timeout.  *)
(* That ten seconds have passed since the last fetch is the environment's  *)
(* to say (Elapse).                                                        *)
(***************************************************************************)
EXTENDS Naturals

CONSTANTS
    Networks,       \* mainnet-beta, devnet
    Assets,         \* what collateral is priced in: SOL and SKR
    Sol,            \* the asset whose refresh names the source
    Quotes,         \* prices, other than the ones the app starts with
    Hardcoded,      \* the price livePrices starts with
    Polls           \* names for the polls under way at one time

ASSUME PriceAssumption ==
    Sol \in Assets /\ Quotes \subseteq Nat \ {0} /\ Hardcoded \in (Nat \ {0}) \ Quotes

VARIABLES
    chainFeed,  \* [Networks -> [Assets -> price of the fresh feed, 0 if none]]
    live,       \* livePrices
    recent,     \* lastPriceFetchTime is less than ten seconds ago
    source,     \* currentPriceSource
    listening,  \* the network whose feeds the socket follows; "none" at first
    pushes,     \* [Assets -> pushed price not delivered yet, 0 if none]
    poll,       \* [Polls -> polls under way]
    form        \* the borrow form, the listener of ExpressBorrow

priceVars == <<chainFeed, live, recent, source, listening, pushes, poll, form>>

Unpriced == [a \in Assets |-> 0]
NoPoll == [at |-> "idle", net |-> "none", fresh |-> {}, read |-> Unpriced]

PriceInit ==
    /\ chainFeed = [n \in Networks |-> Unpriced]
    /\ live = [a \in Assets |-> Hardcoded]
    /\ recent = FALSE /\ source = "fallback-baseline" /\ listening = "none"
    /\ pushes = Unpriced
    /\ poll = [i \in Polls |-> NoPoll]
    /\ form = [open |-> FALSE, prices |-> [a \in Assets |-> Hardcoded], available |-> FALSE]

-----------------------------------------------------------------------------
(* The listeners: the form, while it is open.                              *)

Shown(prices, from) ==
    [form EXCEPT !.prices = prices, !.available = (from # "fallback-baseline")]

Notify(prices, from) == form' = IF form.open THEN Shown(prices, from) ELSE form

\* The end of a poll: listeners hear of it, and its caller gets livePrices.
Done(i, from, prices) ==
    /\ source' = from
    /\ poll' = [poll EXCEPT ![i] = NoPoll]
    /\ Notify(prices, from)

-----------------------------------------------------------------------------
(* The feeds, as far as this phone can tell.                               *)

\* A publication is pushed to the phones that follow the feed's network.
FeedMoves(n, a) ==
    /\ \E q \in Quotes :
        /\ chainFeed' = [chainFeed EXCEPT ![n][a] = q]
        /\ pushes' = IF listening = n THEN [pushes EXCEPT ![a] = q] ELSE pushes
    /\ UNCHANGED <<live, recent, source, listening, poll, form>>

\* isFeedFresh is false from now on.
GoStale(n, a) ==
    /\ chainFeed[n][a] # 0
    /\ chainFeed' = [chainFeed EXCEPT ![n][a] = 0]
    /\ UNCHANGED <<live, recent, source, listening, pushes, poll, form>>

Elapse ==
    /\ recent
    /\ recent' = FALSE
    /\ UNCHANGED <<chainFeed, live, source, listening, pushes, poll, form>>

-----------------------------------------------------------------------------
(* The socket.                                                             *)

\* Another network's subscriptions are removed first.
Listen(n) ==
    /\ listening' = n
    /\ pushes' = IF listening = n THEN pushes ELSE Unpriced

Deliver(a) ==
    /\ pushes[a] # 0
    /\ pushes' = [pushes EXCEPT ![a] = 0]
    /\ live' = [live EXCEPT ![a] = pushes[a]]
    /\ recent' = TRUE
    /\ source' = "helius-wss"
    /\ Notify(live', source')
    /\ UNCHANGED <<chainFeed, listening, poll>>

\* A push that has gone stale on the way is dropped.
DropPush(a) ==
    /\ pushes[a] # 0
    /\ pushes' = [pushes EXCEPT ![a] = 0]
    /\ UNCHANGED <<chainFeed, live, recent, source, listening, poll, form>>

-----------------------------------------------------------------------------
(* A poll.                                                                 *)

Cached == recent /\ source # "fallback-baseline"

\* Within ten seconds of a fetch or push there is nothing to ask.
StartPoll(i, n) ==
    /\ poll[i] = NoPoll
    /\ Listen(n)
    /\ poll' = IF Cached THEN poll
               ELSE [poll EXCEPT ![i] = [NoPoll EXCEPT !.at = "chain", !.net = n]]

Poll(i, n) ==
    /\ StartPoll(i, n)
    /\ UNCHANGED <<chainFeed, live, recent, source, form>>

\* The feeds are read at one time and the answer arrives at another.
ReadFeeds(i) ==
    /\ poll[i].at = "chain"
    /\ \E answer \in {chainFeed[poll[i].net], Unpriced} :
            poll' = [poll EXCEPT ![i].at = "answer", ![i].read = answer]
    /\ UNCHANGED <<chainFeed, live, recent, source, listening, pushes, form>>

\* A source fills in what no earlier one did; a poll that started less than
\* ten seconds ago makes the prices recent.
Filled(i, quoted) ==
    [a \in Assets |-> IF quoted[a] # 0 /\ a \notin poll[i].fresh THEN quoted[a] ELSE live[a]]
FreshWith(i, quoted) == poll[i].fresh \cup {a \in Assets : quoted[a] # 0}

Answered(i, quoted, from, next) ==
    /\ live' = Filled(i, quoted)
    /\ IF FreshWith(i, quoted) = Assets
       THEN /\ recent' \in BOOLEAN
            /\ Done(i, from, live')
       ELSE /\ poll' = [poll EXCEPT ![i] = [@ EXCEPT !.at = next, !.read = Unpriced,
                                                     !.fresh = FreshWith(i, quoted)]]
            /\ UNCHANGED <<recent, source, form>>
    /\ UNCHANGED <<chainFeed, listening, pushes>>

FeedsAnswer(i) ==
    poll[i].at = "answer" /\ Answered(i, poll[i].read, "on-chain-rpc", "jupiter")

MarketAnswers == [Assets -> Quotes \cup {0}]

JupiterAnswers(i) ==
    /\ poll[i].at = "jupiter"
    /\ \E quoted \in MarketAnswers : Answered(i, quoted, "jupiter", "coingecko")

CoinGeckoAnswers(i) ==
    /\ poll[i].at = "coingecko"
    /\ \E quoted \in MarketAnswers : Answered(i, quoted, "coingecko", "given up")

\* Slip: the listeners are not told when a poll gives up.
EndPollSilently(i) ==
    /\ poll[i].at = "given up"
    /\ source' = IF poll[i].fresh = {} THEN "fallback-baseline" ELSE "jupiter"
    /\ poll' = [poll EXCEPT ![i] = NoPoll]
    /\ UNCHANGED <<chainFeed, live, recent, listening, pushes, form>>

EndPoll(i) ==
    /\ poll[i].at = "given up"
    /\ IF poll[i].fresh = {} THEN UNCHANGED recent ELSE recent' \in BOOLEAN
    /\ Done(i, CASE Sol \in poll[i].fresh -> "on-chain-rpc"
                 [] poll[i].fresh = {} -> "fallback-baseline"
                 [] OTHER -> "jupiter", live)
    /\ UNCHANGED <<chainFeed, live, listening, pushes>>

PollStep(i) ==
    ReadFeeds(i) \/ FeedsAnswer(i) \/ JupiterAnswers(i) \/ CoinGeckoAnswers(i) \/ EndPoll(i)

PriceNext ==
    \/ Elapse
    \/ \E a \in Assets : Deliver(a) \/ DropPush(a)
    \/ \E n \in Networks, a \in Assets : FeedMoves(n, a) \/ GoStale(n, a)
    \/ \E i \in Polls : PollStep(i) \/ \E n \in Networks : Poll(i, n)
=============================================================================
