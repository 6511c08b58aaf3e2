---------------------------- MODULE PhoneProofs ----------------------------
(***************************************************************************)
(* Proofs about what the phone app keeps for itself: the prices of its     *)
(* borrow form (ExpressBorrow), its list of loans (OrderBook) and the      *)
(* figures on its screens (ScreenFigures).  They share no state.           *)
(***************************************************************************)
EXTENDS ExpressBorrow, OrderBook, ScreenFigures, Integers, TLAPS

-----------------------------------------------------------------------------
(* The prices.                                                             *)

Price == Quotes \cup {Hardcoded}
Pushed == [Assets -> Quotes \cup {0}]
PollState ==
    [at : {"idle", "chain", "answer", "jupiter", "coingecko", "given up"},
     net : Networks \cup {"none"}, fresh : SUBSET Assets, read : Pushed]
FormState == [open : BOOLEAN, prices : [Assets -> Price], available : BOOLEAN]

PriceType ==
    /\ chainFeed \in [Networks -> Pushed]
    /\ live \in [Assets -> Price]
    /\ pushes \in Pushed
    /\ poll \in [Polls -> PollState]
    /\ \A i \in Polls : poll[i].at # "idle" => poll[i].net \in Networks
    /\ form \in FormState

FormInv == PriceType /\ FormShowsTheLivePrices

LEMMA PricesArePositive == Price \subseteq Nat \ {0}
BY PriceAssumption DEF Price

LEMMA NoPollType == NoPoll \in PollState /\ Unpriced \in Pushed
BY DEF NoPoll, PollState, Unpriced, Pushed

\* Telling the listeners makes an open form show what they are told.
LEMMA Notified ==
    ASSUME form \in FormState, NEW prices \in [Assets -> Price], NEW from,
           Notify(prices, from)
    PROVE  /\ form' \in FormState
           /\ form'.open => /\ form'.prices = prices
                            /\ form'.available <=> from # "fallback-baseline"
BY DEF FormState, Notify, Shown

LEMMA FormInvInit == FormInit => FormInv
<1> SUFFICES ASSUME FormInit PROVE FormInv
  OBVIOUS
<1>1. Hardcoded \in Price /\ Hardcoded \in Nat
  BY PriceAssumption DEF Price
<1>2. PriceType
  BY <1>1, NoPollType
     DEF FormInit, PriceInit, PriceType, FormState, NoPoll
<1>3. ~form.open
  BY DEF FormInit, PriceInit
<1> QED BY <1>2, <1>3 DEF FormInv, FormShowsTheLivePrices

\* One source's answer: either the poll ends and the form is told, or it has
\* brought nothing, or it is still under way with something fresh.
LEMMA AnswerInv ==
    ASSUME FormInv, NEW i \in Polls, NEW quoted \in Pushed, NEW from,
           NEW next \in {"jupiter", "coingecko", "given up"},
           Answered(i, quoted, from, next), poll[i].at # "idle"
    PROVE  FormInv'
<1>0. PriceType /\ poll[i] \in PollState /\ poll[i].net \in Networks
  BY DEF FormInv, PriceType
<1>1. live' = Filled(i, quoted) /\ live' \in [Assets -> Price]
  BY <1>0 DEF Answered, Filled, PriceType, Pushed, Price
<1>2. UNCHANGED <<chainFeed, listening, pushes>>
  BY DEF Answered
<1>3. CASE FreshWith(i, quoted) = Assets
  <2>1. source' = from /\ poll' = [poll EXCEPT ![i] = NoPoll] /\ Notify(live', from)
    BY <1>3 DEF Answered, Done
  <2>2. /\ form' \in FormState
        /\ form'.open => form'.prices = live' /\ (form'.available <=> source' # "fallback-baseline")
    BY <1>0, <1>1, <2>1, Notified DEF PriceType
  <2>3. /\ poll' \in [Polls -> PollState]
        /\ \A k \in Polls : poll'[k].at # "idle" => poll'[k].net \in Networks
    BY <1>0, <2>1, NoPollType DEF PriceType, NoPoll
  <2> QED
    BY <1>0, <1>1, <1>2, <2>2, <2>3 DEF FormInv, PriceType, FormShowsTheLivePrices
<1>4. CASE FreshWith(i, quoted) # Assets
  <2> DEFINE later == [poll[i] EXCEPT !.at = next, !.read = Unpriced,
                                      !.fresh = FreshWith(i, quoted)]
  <2>1. poll' = [poll EXCEPT ![i] = later] /\ UNCHANGED <<source, form>>
    BY <1>4 DEF Answered
  <2>2. FreshWith(i, quoted) \subseteq Assets
    BY <1>0 DEF FreshWith, PollState
  <2>3. later \in PollState /\ later.fresh = FreshWith(i, quoted) /\ later.net = poll[i].net
    BY <1>0, <2>2, NoPollType DEF PollState
  <2> HIDE DEF later
  <2>4. /\ poll' \in [Polls -> PollState]
        /\ \A k \in Polls : poll'[k].at # "idle" => poll'[k].net \in Networks
    BY <1>0, <2>1, <2>3 DEF PriceType
  <2>5. PriceType'
    BY <1>0, <1>1, <1>2, <2>1, <2>4 DEF PriceType
  <2>6. ASSUME \A k \in Polls : poll'[k].fresh = {}
        PROVE  live' = live /\ \A k \in Polls : poll[k].fresh = {}
    <3>1. FreshWith(i, quoted) = {}
      BY <1>0, <2>1, <2>3, <2>6 DEF PriceType
    <3>2. poll[i].fresh = {} /\ \A a \in Assets : quoted[a] = 0
      BY <3>1 DEF FreshWith
    <3>3. live' = live
      BY <1>0, <1>1, <3>2 DEF Filled, PriceType
    <3>4. \A k \in Polls : k # i => poll'[k] = poll[k]
      BY <1>0, <2>1 DEF PriceType
    <3> QED BY <2>6, <3>2, <3>3, <3>4
  <2>7. FormShowsTheLivePrices'
    BY <2>1, <2>6 DEF FormInv, FormShowsTheLivePrices
  <2> QED BY <2>5, <2>7 DEF FormInv
<1> QED BY <1>3, <1>4

\* A poll that gives up tells the form what there is.
LEMMA EndPollInv ==
    ASSUME FormInv, NEW i \in Polls, EndPoll(i)
    PROVE  FormInv'
<1>0. PriceType
  BY DEF FormInv
<1>1. PICK from : Done(i, from, live) /\ UNCHANGED <<chainFeed, live, listening, pushes>>
  BY DEF EndPoll
<1>2. source' = from /\ poll' = [poll EXCEPT ![i] = NoPoll] /\ Notify(live, from)
  BY <1>1 DEF Done
<1>3. /\ form' \in FormState
      /\ form'.open => form'.prices = live /\ (form'.available <=> source' # "fallback-baseline")
  BY <1>0, <1>2, Notified DEF PriceType
<1>4. /\ poll' \in [Polls -> PollState]
      /\ \A k \in Polls : poll'[k].at # "idle" => poll'[k].net \in Networks
  BY <1>0, <1>2, NoPollType DEF PriceType, NoPoll
<1> QED
  BY <1>0, <1>1, <1>3, <1>4 DEF FormInv, PriceType, FormShowsTheLivePrices

\* A poll that starts has brought nothing yet.
LEMMA StartPollInv ==
    ASSUME PriceType, NEW i \in Polls, NEW n \in Networks, StartPoll(i, n)
    PROVE  /\ poll' \in [Polls -> PollState] /\ pushes' \in Pushed
           /\ \A k \in Polls : poll'[k].at # "idle" => poll'[k].net \in Networks
           /\ \A k \in Polls : poll'[k].fresh = poll[k].fresh
<1>1. pushes' \in Pushed
  BY NoPollType DEF StartPoll, Listen, PriceType
<1>2. CASE poll' = poll
  BY <1>1, <1>2 DEF PriceType
<1>3. CASE poll' = [poll EXCEPT ![i] = [NoPoll EXCEPT !.at = "chain", !.net = n]]
  <2> DEFINE new == [NoPoll EXCEPT !.at = "chain", !.net = n]
  <2>1. new \in PollState /\ new.net \in Networks /\ new.fresh = {}
    BY NoPollType DEF NoPoll, PollState
  <2>2. poll[i].fresh = {}
    BY DEF StartPoll, NoPoll
  <2> HIDE DEF new
  <2> QED BY <1>1, <1>3, <2>1, <2>2 DEF PriceType, new
<1> QED BY <1>2, <1>3 DEF StartPoll

\* The feed's answer, or its failure, arrives at a poll that waits for it.
LEMMA ReadFeedsInv ==
    ASSUME FormInv, NEW i \in Polls, ReadFeeds(i)
    PROVE  FormInv'
<1>0. PriceType /\ poll[i] \in PollState /\ poll[i].net \in Networks
  BY DEF FormInv, PriceType, ReadFeeds
<1>1. PICK answer \in {chainFeed[poll[i].net], Unpriced} :
          poll' = [poll EXCEPT ![i] = [poll[i] EXCEPT !.at = "answer", !.read = answer]]
  BY <1>0 DEF ReadFeeds, PriceType
<1>2. UNCHANGED <<chainFeed, live, recent, source, listening, pushes, form>>
  BY DEF ReadFeeds
<1>3. answer \in Pushed
  BY <1>0, NoPollType DEF PriceType
<1> DEFINE later == [poll[i] EXCEPT !.at = "answer", !.read = answer]
<1>4. later \in PollState /\ later.fresh = poll[i].fresh /\ later.net = poll[i].net
  BY <1>0, <1>3 DEF PollState
<1>5. poll' = [poll EXCEPT ![i] = later]
  BY <1>1
<1> HIDE DEF later
<1>6. /\ poll' \in [Polls -> PollState]
      /\ \A k \in Polls : poll'[k].at # "idle" => poll'[k].net \in Networks
      /\ \A k \in Polls : poll'[k].fresh = poll[k].fresh
  BY <1>0, <1>4, <1>5 DEF PriceType
<1> QED BY <1>0, <1>2, <1>6 DEF FormInv, PriceType, FormShowsTheLivePrices

LEMMA PricesMoveInv ==
    ASSUME FormInv, PriceNext
    PROVE  FormInv'
<1>0. PriceType
  BY DEF FormInv
<1>1. CASE Elapse
  BY <1>1 DEF Elapse, FormInv, PriceType, FormShowsTheLivePrices
<1>2. ASSUME NEW a \in Assets, Deliver(a) PROVE FormInv'
  <2>1. pushes[a] \in Price /\ pushes' \in Pushed
    BY <1>0, <1>2 DEF Deliver, PriceType, Pushed, Price
  <2>2. live' \in [Assets -> Price] /\ Notify(live', source')
    BY <1>0, <1>2, <2>1 DEF Deliver, PriceType
  <2>3. /\ form' \in FormState
        /\ form'.open => form'.prices = live' /\ (form'.available <=> source' # "fallback-baseline")
    BY <1>0, <2>2, Notified DEF PriceType
  <2>4. UNCHANGED <<chainFeed, listening, poll>>
    BY <1>2 DEF Deliver
  <2> QED
    BY <1>0, <2>1, <2>2, <2>3, <2>4 DEF FormInv, PriceType, FormShowsTheLivePrices
<1>3. ASSUME NEW a \in Assets, DropPush(a) PROVE FormInv'
  <2>1. pushes' \in Pushed
    BY <1>0, <1>3 DEF DropPush, PriceType, Pushed
  <2> QED
    BY <1>0, <1>3, <2>1 DEF DropPush, FormInv, PriceType, FormShowsTheLivePrices
<1>4. ASSUME NEW n \in Networks, NEW a \in Assets, FeedMoves(n, a) \/ GoStale(n, a)
      PROVE  FormInv'
  <2>1. PICK q \in Quotes \cup {0} : chainFeed' = [chainFeed EXCEPT ![n][a] = q]
    BY <1>4 DEF FeedMoves, GoStale
  <2>2. [chainFeed[n] EXCEPT ![a] = q] \in Pushed
    BY <1>0 DEF PriceType, Pushed
  <2>3. chainFeed' \in [Networks -> Pushed]
    BY <1>0, <2>1, <2>2 DEF PriceType
  <2>4. pushes' \in Pushed
    BY <1>0, <1>4 DEF FeedMoves, GoStale, PriceType, Pushed
  <2>5. UNCHANGED <<live, source, listening, poll, form>>
    BY <1>4 DEF FeedMoves, GoStale
  <2> QED
    BY <1>0, <2>3, <2>4, <2>5 DEF FormInv, PriceType, FormShowsTheLivePrices
<1>5. ASSUME NEW i \in Polls, PollStep(i) PROVE FormInv'
  <2>1. CASE ReadFeeds(i)
    BY <2>1, ReadFeedsInv
  <2>2. CASE FeedsAnswer(i)
    <3>1. poll[i].read \in Pushed
      BY <1>0 DEF PriceType, PollState
    <3> QED BY <2>2, <3>1, AnswerInv DEF FeedsAnswer
  <2>3. CASE JupiterAnswers(i) \/ CoinGeckoAnswers(i)
    BY <2>3, AnswerInv DEF JupiterAnswers, CoinGeckoAnswers, MarketAnswers, Pushed
  <2>4. CASE EndPoll(i)
    BY <2>4, EndPollInv
  <2> QED BY <1>5, <2>1, <2>2, <2>3, <2>4 DEF PollStep
<1>6. ASSUME NEW i \in Polls, NEW n \in Networks, Poll(i, n) PROVE FormInv'
  <2>1. StartPoll(i, n) /\ UNCHANGED <<chainFeed, live, recent, source, form>>
    BY <1>6 DEF Poll
  <2> QED
    BY <1>0, <2>1, StartPollInv DEF FormInv, PriceType, FormShowsTheLivePrices
<1> QED BY <1>1, <1>2, <1>3, <1>4, <1>5, <1>6 DEF PriceNext

LEMMA FormInvNext == FormInv /\ [FormNext]_formVars => FormInv'
<1> SUFFICES ASSUME FormInv, [FormNext]_formVars PROVE FormInv'
  OBVIOUS
<1>0. PriceType
  BY DEF FormInv
<1>1. CASE PricesMove
  BY <1>1, PricesMoveInv DEF PricesMove
<1>2. CASE CloseForm
  <2>1. form' \in FormState /\ ~form'.open
    BY <1>0, <1>2 DEF CloseForm, PriceType, FormState
  <2> QED
    BY <1>0, <1>2, <2>1 DEF CloseForm, FormInv, PriceType, FormShowsTheLivePrices
<1>3. ASSUME NEW i \in Polls, OpenForm(i) PROVE FormInv'
  <2>1. /\ form' = [Shown(live, source) EXCEPT !.open = TRUE]
        /\ StartPoll(i, FormNetwork)
        /\ UNCHANGED <<chainFeed, live, recent, source, request>>
    BY <1>3 DEF OpenForm
  <2>2. /\ form' \in FormState /\ form'.prices = live
        /\ form'.available <=> source # "fallback-baseline"
    BY <1>0, <2>1 DEF PriceType, FormState, Shown
  <2> QED
    BY <1>0, <2>1, <2>2, StartPollInv, FormAssumption
       DEF FormInv, PriceType, FormShowsTheLivePrices
<1>4. CASE UNCHANGED priceVars
  BY <1>4 DEF priceVars, FormInv, PriceType, FormShowsTheLivePrices
<1> QED
  BY <1>1, <1>2, <1>3, <1>4 DEF FormNext, Submitted, Borrow, BorrowMax, formVars

\* However polls and pushes overlap, an open form shows the live prices and
\* offers loans exactly when they are somebody's, unless a poll is in between.
THEOREM FormStaysLive == FormSpec => []FormShowsTheLivePrices
<1>1. FormInit => FormInv
  BY FormInvInit
<1>2. FormInv /\ [FormNext]_formVars => FormInv'
  BY FormInvNext
<1>3. FormInv => FormShowsTheLivePrices
  BY DEF FormInv
<1> QED BY <1>1, <1>2, <1>3, PTL DEF FormSpec

-----------------------------------------------------------------------------
(* The collateral.                                                         *)

\* How far Math.ceil and Math.round can be from the quotient they round.
LEMMA DivBounds ==
    ASSUME NEW m \in Nat, NEW n \in Nat \ {0}
    PROVE  m \div n \in Nat /\ (m \div n) * n <= m /\ m < (m \div n) * n + n
OBVIOUS

LEMMA CeilBounds ==
    ASSUME NEW m \in Nat, NEW n \in Nat \ {0}
    PROVE  CeilDiv(m, n) \in Nat /\ CeilDiv(m, n) * n >= m
<1> DEFINE q == CeilDiv(m, n)
<1>1. m + n - 1 \in Nat
  OBVIOUS
<1>2. q \in Nat /\ m + n - 1 < q * n + n
  BY <1>1, DivBounds DEF CeilDiv
<1> HIDE DEF q
<1>3. q * n \in Nat
  BY <1>2
<1>4. q * n >= m
  BY <1>2, <1>3
<1> QED BY <1>2, <1>4 DEF q

LEMMA RoundBounds ==
    ASSUME NEW m \in Nat, NEW n \in Nat \ {0}
    PROVE  /\ RoundDiv(m, n) \in Nat
           /\ (2 * RoundDiv(m, n) + 1) * n >= 2 * m
           /\ 2 * (RoundDiv(m, n) * n) <= 2 * m + n
<1> DEFINE q == RoundDiv(m, n)
<1>1. 2 * m + n \in Nat /\ 2 * n \in Nat \ {0}
  OBVIOUS
<1>2. q \in Nat /\ q * (2 * n) <= 2 * m + n /\ 2 * m + n < q * (2 * n) + 2 * n
  BY <1>1, DivBounds DEF RoundDiv
<1> HIDE DEF q
<1>3. q * n \in Nat /\ q * (2 * n) = 2 * (q * n) /\ (2 * q + 1) * n = 2 * (q * n) + n
  BY <1>2
<1>4. (2 * q + 1) * n >= 2 * m /\ 2 * (q * n) <= 2 * m + n
  BY <1>2, <1>3
<1> QED BY <1>2, <1>4 DEF q

\* What is not insufficient fits, but for the half that rounding may add.
LEMMA RequiredIsSound ==
    ASSUME NEW m \in Nat, NEW n \in Nat \ {0}, NEW b \in Nat
    PROVE  /\ m <= b * n => 2 * RoundDiv(m, n) <= 2 * b + 1
           /\ 2 * (CeilDiv(m, n) * n) >= 2 * m
<1>1. ASSUME m <= b * n PROVE 2 * RoundDiv(m, n) <= 2 * b + 1
  <2> DEFINE q == RoundDiv(m, n)
  <2>1. q \in Nat /\ 2 * (q * n) <= 2 * m + n
    BY RoundBounds
  <2> HIDE DEF q
  <2>2. q * n \in Nat /\ b * n \in Nat
    BY <2>1
  <2>3. (2 * q) * n = 2 * (q * n) /\ (2 * b + 1) * n = 2 * (b * n) + n
    BY <2>1
  <2>4. (2 * q) * n <= (2 * b + 1) * n
    BY <1>1, <2>1, <2>2, <2>3
  <2>5. 2 * q <= 2 * b + 1
    BY <2>1, <2>4
  <2> QED BY <2>5 DEF q
<1>2. CeilDiv(m, n) \in Nat /\ CeilDiv(m, n) * n >= m
  BY CeilBounds
<1>3. CeilDiv(m, n) * n \in Nat
  BY <1>2
<1> QED BY <1>1, <1>2, <1>3

\* What the form computes with are positive numbers.
LEMMA FormNumbers ==
    ASSUME FormInv, NEW asset \in Assets
    PROVE  /\ Ltv \in Nat \ {0} /\ Part[asset] \in Nat \ {0}
           /\ form.prices[asset] \in Nat \ {0}
<1>1. Ltv \in Nat \ {0}
  BY FormAssumption
<1>2. Part[asset] \in Nat \ {0}
  BY FormAssumption
<1>3. form.prices[asset] \in Price
  BY DEF FormInv, PriceType, FormState
<1> QED BY <1>1, <1>2, <1>3, PricesArePositive

QuoteInv == FormInv /\ QuotesAreSound

\* A request the form lets through is sound at the price it shows.
LEMMA BorrowQuotes ==
    ASSUME FormInv, NEW amount \in Nat, NEW asset \in Assets, NEW balance \in Nat,
           Borrow(amount, asset, balance)
    PROVE  QuotesAreSound'
<1> DEFINE m == Raw(amount, asset)
           n == Worth(asset)
<1>1. /\ Ltv \in Nat \ {0} /\ Part[asset] \in Nat
      /\ form.prices[asset] \in Nat \ {0}
  BY FormNumbers
<1>2. m \in Nat /\ n \in Nat \ {0}
  <2>1. m \in Nat
    BY <1>1 DEF Raw
  <2>2. n \in Nat \ {0}
    BY <1>1 DEF Worth
  <2> QED BY <2>1, <2>2
<1>3. request' = [amount |-> amount, asset |-> asset, units |-> Required(amount, asset),
                  price |-> form.prices[asset], balance |-> balance]
  BY DEF Borrow
<1>4. ~Insufficient(amount, asset, balance)
  BY DEF Borrow
<1> HIDE DEF m, n
<1>5. CASE asset = Sol
  <2> DEFINE q == RoundDiv(m, n)
  <2>1. Required(amount, asset) = q /\ m <= balance * n
    <3>1. ~(m > balance * n)
      BY <1>4, <1>5 DEF Insufficient, m, n
    <3>2. balance * n \in Nat
      BY <1>2
    <3> QED BY <1>2, <1>5, <3>1, <3>2 DEF Required, m, n
  <2>2. q \in Nat /\ (2 * q + 1) * n >= 2 * m /\ 2 * q <= 2 * balance + 1
    BY <1>2, <2>1, RoundBounds, RequiredIsSound
  <2> HIDE DEF q
  <2> QED
    BY <1>3, <1>5, <2>1, <2>2 DEF QuotesAreSound, Raw, Worth, m, n
<1>6. CASE asset # Sol
  <2> DEFINE q == CeilDiv(m, n)
  <2>1. Required(amount, asset) = q
    BY <1>6 DEF Required, m, n
  <2>2. q \in Nat /\ 2 * (q * n) >= 2 * m
    BY <1>2, CeilBounds, RequiredIsSound
  <2>3. ~(q > balance)
    BY <1>4, <1>6, <2>1 DEF Insufficient
  <2> HIDE DEF q
  <2>4. (2 * q + 0) * n >= 2 * m /\ 2 * q <= 2 * balance + 0
    BY <1>2, <2>2, <2>3
  <2> QED
    BY <1>3, <1>6, <2>1, <2>2, <2>4 DEF QuotesAreSound, Raw, Worth, m, n
<1> QED BY <1>5, <1>6

\* The button for the most the balance is good for asks for dollars as well.
LEMMA MaxIsNat ==
    ASSUME FormInv, NEW asset \in Assets, NEW balance \in Nat
    PROVE  (balance * 90 * form.prices[asset] * Ltv) \div (10000 * Part[asset]) \in Nat
<1>1. form.prices[asset] \in Nat /\ Ltv \in Nat /\ Part[asset] \in Nat \ {0}
  BY FormNumbers
<1> DEFINE p == form.prices[asset]
           k == Part[asset]
<1> HIDE DEF p, k
<1>2. p \in Nat /\ Ltv \in Nat /\ k \in Nat \ {0}
  BY <1>1 DEF p, k
<1>3. balance * 90 * p * Ltv \in Nat /\ 10000 * k \in Nat \ {0}
  BY <1>2
<1>4. (balance * 90 * p * Ltv) \div (10000 * k) \in Nat
  BY <1>3, DivBounds
<1> QED BY <1>4 DEF p, k

LEMMA QuoteInvNext == QuoteInv /\ [FormNext]_formVars => QuoteInv'
<1> SUFFICES ASSUME QuoteInv, [FormNext]_formVars PROVE QuotesAreSound'
  BY FormInvNext DEF QuoteInv
<1>1. CASE UNCHANGED request
  BY <1>1 DEF QuoteInv, QuotesAreSound, Raw
<1>2. CASE CloseForm \/ Submitted
  BY <1>2 DEF CloseForm, Submitted, QuotesAreSound
<1>3. ASSUME NEW asset \in Assets, NEW balance \in Balances, NEW amount \in Amounts,
             Borrow(amount, asset, balance)
      PROVE  QuotesAreSound'
  BY <1>3, FormAssumption, BorrowQuotes DEF QuoteInv
<1>4. ASSUME NEW asset \in Assets, NEW balance \in Balances, BorrowMax(asset, balance)
      PROVE  QuotesAreSound'
  <2>1. balance \in Nat
    BY FormAssumption
  <2>2. PICK amount \in Nat : Borrow(amount, asset, balance)
    BY <1>4, <2>1, MaxIsNat DEF BorrowMax, QuoteInv
  <2> QED BY <2>1, <2>2, BorrowQuotes DEF QuoteInv
<1> QED
  BY <1>1, <1>2, <1>3, <1>4 DEF FormNext, PricesMove, OpenForm, formVars

\* Whatever prices were moving meanwhile, the collateral of a request carries
\* its loan at the price it was sized with, and the wallet has it.
THEOREM QuotesHold == FormSpec => []QuotesAreSound
<1>1. FormInit => QuoteInv
  BY FormInvInit DEF FormInit, QuoteInv, QuotesAreSound
<1>2. QuoteInv /\ [FormNext]_formVars => QuoteInv'
  BY QuoteInvNext
<1>3. QuoteInv => QuotesAreSound
  BY DEF QuoteInv
<1> QED BY <1>1, <1>2, <1>3, PTL DEF FormSpec

-----------------------------------------------------------------------------
(* The list of loans.                                                      *)

Entry ==
    {e \in [home : Homes \cup {NoHome}, status : {"none", "open", "closed"}] :
        e.home = NoHome => e.status = "none"}
JobState ==
    {r \in [kind : {"none", "load", "hydration"},
            at : {"idle", "cache", "scan", "walk", "save", "apply", "save again"},
            home : Homes \cup {NoHome}, cached : SUBSET LoanIds, list : SUBSET LoanIds] :
        /\ r.at # "idle" => r.home \in Homes /\ r.kind # "none"
        /\ r.at \in {"scan", "walk", "save", "save again"} => r.kind = "load"}
HandlerState ==
    {r \in [kind : {"none", "borrow", "repay", "grace"}, at : {"idle", "sign", "list", "store"},
            home : Homes \cup {NoHome}, loan : LoanIds \cup {NoHome}, list : SUBSET LoanIds] :
        r.at # "idle" => r.home \in Homes /\ r.loan \in LoanIds}

ChainType == chain \in [LoanIds -> Entry]
PlaceType ==
    phone \in Homes \cup {NoHome} /\ orders \in SUBSET LoanIds /\ disk \in [Homes -> SUBSET LoanIds]
JobType == job \in [Jobs -> JobState]
HandlerType == handler \in [Handlers -> HandlerState]
HistoryType ==
    history \in [mixed : BOOLEAN, kept : SUBSET LoanIds, repaid : SUBSET LoanIds, mishaps : Nat]

OrderType == ChainType /\ PlaceType /\ JobType /\ HandlerType /\ HistoryType

Owned(loans, home) == home \in Homes /\ \A l \in loans : chain[l].home = home
Hydrating == \E j \in Jobs : job[j].kind = "hydration"
Pending(i) == handler[i].kind = "borrow" /\ handler[i].at \in {"sign", "list"}
Storing(i, home) == handler[i].at = "store" /\ handler[i].home = home

\* Unless the phone has moved in mid-course, everything it holds is at home.
StoredAtHome == \A h \in Homes : Owned(disk[h], h)
JobsAtHome ==
    \A j \in Jobs : job[j].at # "idle" =>
        job[j].home = phone /\ Owned(job[j].cached \cup job[j].list, phone)
HandlersAtHome ==
    \A i \in Handlers : handler[i].at # "idle" =>
        handler[i].home = phone /\ (handler[i].at = "store" => Owned(handler[i].list, phone))
ListAtHome == orders = {} \/ Hydrating \/ Owned(orders, phone)
HomeInv == ~history.mixed => StoredAtHome /\ JobsAtHome /\ HandlersAtHome /\ ListAtHome

\* A borrow handler's loan is its own, and nothing is known of it yet.
BorrowInv ==
    \A i \in Handlers : Pending(i) =>
        LET l == handler[i].loan IN
        /\ chain[l].home = handler[i].home
        /\ handler[i].at = "sign" => chain[l].status = "none" /\ l \notin history.kept
        /\ l \notin history.repaid
        /\ \A k \in Handlers : Pending(k) /\ k # i => handler[k].loan # l

\* The list a job is going to show, or to store.
Carried(j) ==
    IF job[j].at \in {"scan", "walk"} \/ At(j, "hydration", "apply") THEN job[j].cached
    ELSE job[j].list

\* A kept loan that is open is on every list that may come to be stored.
OnScreen(l, h) == phone = h => Hydrating \/ l \in orders
InJobs(l, h) ==
    \A j \in Jobs : job[j].home = h /\ job[j].at \notin {"idle", "cache"} => l \in Carried(j)
InHandlers(l, h) == \A i \in Handlers : Storing(i, h) => l \in handler[i].list
InStore(l, h) == l \in disk[h] \/ \E i \in Handlers : Storing(i, h)
Listed(l, h) == OnScreen(l, h) /\ InJobs(l, h) /\ InHandlers(l, h) /\ InStore(l, h)
KeptInv ==
    \A l \in history.kept :
        chain[l].home \in Homes /\ (chain[l].status = "open" => Listed(l, chain[l].home))

\* A repaid loan is on none of them, and on a stored list only until the
\* handler's is written.
GoneFromJobs(l) == \A j \in Jobs : l \notin job[j].cached \cup job[j].list
GoneFromHandlers(l) == \A i \in Handlers : handler[i].at = "store" => l \notin handler[i].list
GoneFromStore(l) == \A h \in Homes : l \in disk[h] => \E i \in Handlers : Storing(i, h)
Gone(l) == l \notin orders /\ GoneFromJobs(l) /\ GoneFromHandlers(l) /\ GoneFromStore(l)
RepaidInv == \A l \in history.repaid : chain[l].status = "closed" /\ Gone(l)

Clean == history.mixed => history.kept = {} /\ history.repaid = {}

OrderInv == OrderType /\ HomeInv /\ BorrowInv /\ KeptInv /\ RepaidInv /\ Clean

LEMMA NoJobType == NoJob \in JobState /\ NoHandler \in HandlerState
BY DEF NoJob, NoHandler, JobState, HandlerState

LEMMA OrderTypeInit == OrderInit => OrderType
BY OrderAssumption, NoJobType
   DEF OrderInit, OrderType, ChainType, PlaceType, JobType, HandlerType, HistoryType, Entry

\* What the loads and hydrations do to their own record.
LEMMA FindsEffect ==
    ASSUME OrderType, NEW j \in Jobs, NEW list \in SUBSET LoanIds,
           job[j].kind = "load", job[j].at # "idle", Finds(j, list)
    PROVE  \E r \in JobState :
            /\ job' = [job EXCEPT ![j] = r]
            /\ r.kind = "load" /\ r.home = job[j].home /\ r.at = "save"
            /\ r.cached = {} /\ r.list = list
<1>0. job[j] \in JobState
  BY DEF OrderType, JobType
<1> DEFINE r == [job[j] EXCEPT !.list = list, !.cached = {}, !.at = "save"]
<1>2. job' = [job EXCEPT ![j] = r]
  BY DEF Finds, OrderType, JobType
<1>3. r \in JobState
  BY <1>0 DEF JobState
<1> QED BY <1>0, <1>2, <1>3 DEF JobState

\* A step of a job that leaves both lists of it alone.
LEMMA MovesOn ==
    ASSUME OrderType, NEW j \in Jobs, job[j].kind = "load", job[j].at # "idle",
           NEW at \in {"walk", "apply", "save again"}, job' = [job EXCEPT ![j].at = at]
    PROVE  \E r \in JobState :
            /\ job' = [job EXCEPT ![j] = r]
            /\ r.kind = "load" /\ r.home = job[j].home /\ r.at = at
            /\ r.cached = job[j].cached /\ r.list = job[j].list
<1>0. job[j] \in JobState
  BY DEF OrderType, JobType
<1> DEFINE r == [job[j] EXCEPT !.at = at]
<1>2. job' = [job EXCEPT ![j] = r]
  BY DEF OrderType, JobType
<1>3. r \in JobState
  BY <1>0 DEF JobState
<1> QED BY <1>0, <1>2, <1>3 DEF JobState

\* The loans a step excuses are loans.
LEMMA ExcusedLoans ==
    ASSUME OrderType
    PROVE  /\ \A i \in Handlers : Unstored(i) \in SUBSET LoanIds
           /\ \A home : /\ TakenAt(home) \in SUBSET LoanIds
                        /\ OpenAt(home) \in SUBSET TakenAt(home)
                        /\ \A found \in SUBSET TakenAt(home) :
                                Differ(found, OpenAt(home)) \in SUBSET LoanIds
<1>1. ASSUME NEW i \in Handlers
      PROVE  Unstored(i) \in SUBSET LoanIds
  <2>1. handler[i].at = "store" => handler[i].home \in Homes
    BY DEF OrderType, HandlerType, HandlerState
  <2>2. handler[i].list \in SUBSET LoanIds
    BY DEF OrderType, HandlerType, HandlerState
  <2> QED BY <2>1, <2>2 DEF Unstored, Differ, OrderType, PlaceType
<1>2. \A home : TakenAt(home) \in SUBSET LoanIds /\ OpenAt(home) \in SUBSET TakenAt(home)
  BY DEF TakenAt, OpenAt
<1>3. \A home : \A found \in SUBSET TakenAt(home) : Differ(found, OpenAt(home)) \in SUBSET LoanIds
  BY <1>2 DEF Differ
<1> QED BY <1>1, <1>2, <1>3

LEMMA FindLoansEffect ==
    ASSUME OrderType, NEW j \in Jobs, FindLoans(j)
    PROVE  \E found \in SUBSET TakenAt(job[j].home), r \in JobState :
            /\ job' = [job EXCEPT ![j] = r]
            /\ job[j].at = "scan" /\ r.kind = "load" /\ r.home = job[j].home
            /\ \/ /\ r.at = "save" /\ r.cached = {} /\ r.list = found
                  /\ \/ found = OpenAt(job[j].home) /\ UNCHANGED history
                     \/ Excusing(Differ(found, OpenAt(job[j].home)))
               \/ /\ r.at = "walk" /\ r.cached = job[j].cached /\ r.list = job[j].list
                  /\ UNCHANGED history \/ Excusing({})
<1>0. job[j].kind = "load" /\ job[j].at = "scan"
  BY DEF FindLoans, At
<1>1. PICK found \in SUBSET TakenAt(job[j].home) :
        /\ IF found = {} THEN job' = [job EXCEPT ![j].at = "walk"] ELSE Finds(j, found)
        /\ IF found = OpenAt(job[j].home) THEN UNCHANGED history
           ELSE Excusing(IF found = {} THEN {} ELSE Differ(found, OpenAt(job[j].home)))
  BY DEF FindLoans
<1>2. found \in SUBSET LoanIds
  BY ExcusedLoans
<1>3. CASE found = {}
  <2>1. \E r \in JobState :
            /\ job' = [job EXCEPT ![j] = r]
            /\ r.kind = "load" /\ r.home = job[j].home /\ r.at = "walk"
            /\ r.cached = job[j].cached /\ r.list = job[j].list
    BY <1>0, <1>1, <1>3, MovesOn
  <2> QED BY <1>0, <1>1, <1>3, <2>1
<1>4. CASE found # {}
  <2>1. \E r \in JobState :
            /\ job' = [job EXCEPT ![j] = r]
            /\ r.kind = "load" /\ r.home = job[j].home /\ r.at = "save"
            /\ r.cached = {} /\ r.list = found
    BY <1>0, <1>1, <1>2, <1>4, FindsEffect
  <2> QED BY <1>0, <1>1, <1>4, <2>1
<1> QED BY <1>3, <1>4

LEMMA WalkEffect ==
    ASSUME OrderType, NEW j \in Jobs, Walk(j)
    PROVE  \E found \in SUBSET TakenAt(job[j].home), r \in JobState :
            /\ job' = [job EXCEPT ![j] = r]
            /\ job[j].at = "walk" /\ r.kind = "load" /\ r.home = job[j].home /\ r.at = "save"
            /\ r.cached = {} /\ r.list = IF found = {} THEN job[j].cached ELSE found
            /\ IF found \in {{}, OpenAt(job[j].home)} THEN UNCHANGED history
               ELSE Excusing(Differ(found, OpenAt(job[j].home)))
<1>0. job[j].kind = "load" /\ job[j].at = "walk"
  BY DEF Walk, At
<1>1. PICK found \in SUBSET TakenAt(job[j].home) :
        /\ Finds(j, Final(job[j].cached, found))
        /\ IF found \in {{}, OpenAt(job[j].home)} THEN UNCHANGED history
           ELSE Excusing(Differ(found, OpenAt(job[j].home)))
  BY DEF Walk
<1>2. Final(job[j].cached, found) \in SUBSET LoanIds
  BY ExcusedLoans DEF Final, OrderType, JobType, JobState
<1>3. \E r \in JobState :
        /\ job' = [job EXCEPT ![j] = r]
        /\ r.kind = "load" /\ r.home = job[j].home /\ r.at = "save"
        /\ r.cached = {} /\ r.list = Final(job[j].cached, found)
  BY <1>0, <1>1, <1>2, FindsEffect
<1> QED BY <1>0, <1>1, <1>3 DEF Final

LEMMA SaveEffect ==
    ASSUME OrderType, NEW j \in Jobs, Save(j)
    PROVE  \E r \in JobState :
            /\ job' = [job EXCEPT ![j] = r]
            /\ \/ r = NoJob
               \/ /\ r.kind = "load" /\ r.home = job[j].home /\ r.at = "apply"
                  /\ r.cached = job[j].cached /\ r.list = job[j].list
<1>0. job[j] \in JobState /\ job[j].kind = "load"
  BY DEF OrderType, JobType, JobState, Save
<1> DEFINE r == [job[j] EXCEPT !.at = "apply"]
<1>1. CASE job[j].at = "save"
  <2>2. job' = [job EXCEPT ![j] = r]
    BY <1>1 DEF Save, OrderType, JobType
  <2>3. r \in JobState
    BY <1>0, <1>1 DEF JobState
  <2> QED BY <1>0, <2>2, <2>3 DEF JobState
<1>2. CASE job[j].at # "save"
  BY <1>2, NoJobType DEF Save
<1> QED BY <1>1, <1>2

\* A load begins, or a load and a hydration.
LEMMA BeginType ==
    ASSUME NEW h \in Homes, NEW kind \in {"load", "hydration"}
    PROVE  LET r == [NoJob EXCEPT !.home = h, !.at = "cache", !.kind = kind] IN
           /\ r \in JobState /\ r.kind = kind
           /\ r.home = h /\ r.at = "cache" /\ r.cached = {} /\ r.list = {}
BY DEF NoJob, JobState

LEMMA ReloadEffect ==
    ASSUME OrderType, Reload
    PROVE  /\ JobType' /\ phone \in Homes
           /\ \E j \in Jobs :
                /\ job[j] = NoJob /\ \A k \in Jobs : k # j => job'[k] = job[k]
                /\ job'[j].kind = "load" /\ job'[j].home = phone /\ job'[j].at = "cache"
                /\ job'[j].cached = {} /\ job'[j].list = {}
<1>1. phone \in Homes
  BY DEF Reload, OrderType, PlaceType
<1>2. PICK j \in Jobs : job[j] = NoJob /\ job' = Begins(<<j>>, phone)
  BY DEF Reload
<1>3. \A k : (\E n \in DOMAIN <<j>> : <<j>>[n] = k) <=> k = j
  OBVIOUS
<1> DEFINE r == [NoJob EXCEPT !.home = phone, !.at = "cache", !.kind = "load"]
<1>4. job' = [k \in Jobs |-> IF k = j THEN r ELSE job[k]]
  BY <1>2, <1>3 DEF Begins
<1>5. /\ r \in JobState /\ r.kind = "load"
      /\ r.home = phone /\ r.at = "cache" /\ r.cached = {} /\ r.list = {}
  BY <1>1, BeginType
<1> HIDE DEF r
<1> QED BY <1>1, <1>2, <1>4, <1>5 DEF OrderType, JobType

LEMMA SetHomeEffect ==
    ASSUME OrderType, NEW h \in Homes, SetHome(h)
    PROVE  /\ JobType' /\ phone' = h /\ Hydrating'
           /\ \A j \in Jobs :
                \/ job'[j] = job[j]
                \/ /\ job'[j].home = h /\ job'[j].at = "cache"
                   /\ job'[j].cached = {} /\ job'[j].list = {}
<1>1. PICK load \in Jobs, hydration \in Jobs :
        load # hydration /\ job' = Begins(<<load, hydration>>, h)
  BY DEF SetHome
<1>2. \A k : (\E n \in DOMAIN <<load, hydration>> : <<load, hydration>>[n] = k)
             <=> k = load \/ k = hydration
  OBVIOUS
<1> DEFINE r == [NoJob EXCEPT !.home = h, !.at = "cache", !.kind = "load"]
           s == [NoJob EXCEPT !.home = h, !.at = "cache", !.kind = "hydration"]
<1>3. job' = [k \in Jobs |-> IF k = load THEN r ELSE IF k = hydration THEN s ELSE job[k]]
  BY <1>1, <1>2 DEF Begins
<1>4. /\ r \in JobState
      /\ r.home = h /\ r.at = "cache" /\ r.cached = {} /\ r.list = {}
  BY BeginType
<1>5. /\ s \in JobState /\ s.kind = "hydration"
      /\ s.home = h /\ s.at = "cache" /\ s.cached = {} /\ s.list = {}
  BY BeginType
<1> HIDE DEF r, s
<1>6. JobType' /\ \A j \in Jobs : job'[j] = job[j] \/ job'[j] = r \/ job'[j] = s
  BY <1>3, <1>4, <1>5 DEF OrderType, JobType
<1>7. job'[hydration].kind = "hydration"
  BY <1>1, <1>3, <1>5
<1> QED BY <1>4, <1>5, <1>6, <1>7 DEF SetHome, Hydrating

\* What the handlers do to their own record.
LEMMA PressEffect ==
    ASSUME OrderType, NEW i \in Handlers, NEW l \in LoanIds,
           NEW kind \in {"borrow", "repay", "grace"}, Press(i, kind, l)
    PROVE  \E r \in HandlerState :
            /\ handler' = [handler EXCEPT ![i] = r]
            /\ r.kind = kind /\ r.at = "sign" /\ r.home = phone /\ r.loan = l
            /\ phone \in Homes /\ handler[i] = NoHandler
<1> DEFINE r == [NoHandler EXCEPT !.kind = kind, !.at = "sign", !.home = phone, !.loan = l]
<1>1. handler' = [handler EXCEPT ![i] = r] /\ phone \in Homes /\ handler[i] = NoHandler
  BY DEF Press, OrderType, PlaceType
<1>2. r \in HandlerState
  BY <1>1, NoJobType DEF HandlerState, NoHandler
<1> QED BY <1>1, <1>2 DEF NoHandler

LEMMA ConfirmEffect ==
    ASSUME OrderType, NEW i \in Handlers, Confirm(i)
    PROVE  \E r \in HandlerState :
            /\ handler' = [handler EXCEPT ![i] = r]
            /\ r.kind = handler[i].kind /\ r.at = "list"
            /\ r.home = handler[i].home /\ r.loan = handler[i].loan
<1>0. handler[i] \in HandlerState /\ handler[i].at = "sign"
  BY DEF OrderType, HandlerType, Confirm
<1> DEFINE r == [handler[i] EXCEPT !.at = "list"]
<1>1. handler' = [handler EXCEPT ![i] = r]
  BY DEF Confirm, OrderType, HandlerType
<1>2. r \in HandlerState
  BY <1>0 DEF HandlerState
<1> QED BY <1>0, <1>1, <1>2 DEF HandlerState

LEMMA UpdateEffect ==
    ASSUME OrderType, NEW i \in Handlers, UpdateList(i)
    PROVE  /\ orders' = Updated(i) /\ orders' \in SUBSET LoanIds
           /\ \E r \in HandlerState :
                /\ handler' = [handler EXCEPT ![i] = r]
                /\ r.kind = handler[i].kind /\ r.at = "store"
                /\ r.home = handler[i].home /\ r.loan = handler[i].loan /\ r.list = orders'
<1>0. handler[i] \in HandlerState /\ handler[i].at = "list" /\ handler[i].loan \in LoanIds
  BY DEF OrderType, HandlerType, HandlerState, UpdateList
<1>1. orders' = Updated(i) /\ orders' \in SUBSET LoanIds
  BY <1>0 DEF UpdateList, Updated, OrderType, PlaceType
<1> DEFINE r == [handler[i] EXCEPT !.list = orders', !.at = "store"]
<1>2. handler' = [handler EXCEPT ![i] = r]
  BY <1>1 DEF UpdateList, OrderType, HandlerType
<1>3. r \in HandlerState
  BY <1>0, <1>1 DEF HandlerState
<1> QED BY <1>0, <1>1, <1>2, <1>3 DEF HandlerState

\* What becomes of a loan: a loan of a home stays one, a closed one closed.
LEMMA ElsewhereEffect ==
    ASSUME OrderType, Elsewhere
    PROVE  \E l \in LoanIds, e \in Entry :
            /\ chain' = [chain EXCEPT ![l] = e]
            /\ \/ chain[l].home = NoHome /\ e.home \in Homes /\ e.status = "open"
               \/ chain[l].status = "open" /\ e.home = chain[l].home /\ e.status = "closed"
<1>1. PICK l \in LoanIds :
        \/ \E h \in Homes : /\ chain[l].home = NoHome
                            /\ chain' = [chain EXCEPT ![l] = [home |-> h, status |-> "open"]]
        \/ chain[l].status = "open" /\ chain' = [chain EXCEPT ![l].status = "closed"]
  BY DEF Elsewhere
<1>2. CASE \E h \in Homes : /\ chain[l].home = NoHome
                            /\ chain' = [chain EXCEPT ![l] = [home |-> h, status |-> "open"]]
  <2>1. PICK h \in Homes : /\ chain[l].home = NoHome
                           /\ chain' = [chain EXCEPT ![l] = [home |-> h, status |-> "open"]]
    BY <1>2
  <2> DEFINE e == [home |-> h, status |-> "open"]
  <2>2. e \in Entry /\ e.home \in Homes /\ e.status = "open"
    BY OrderAssumption DEF Entry
  <2> QED BY <2>1, <2>2
<1>3. CASE chain[l].status = "open" /\ chain' = [chain EXCEPT ![l].status = "closed"]
  <2> DEFINE e == [chain[l] EXCEPT !.status = "closed"]
  <2>1. chain[l] \in Entry
    BY DEF OrderType, ChainType
  <2>2. chain' = [chain EXCEPT ![l] = e]
    BY <1>3 DEF OrderType, ChainType
  <2>3. e \in Entry /\ e.home = chain[l].home /\ e.status = "closed"
    BY <1>3, <2>1 DEF Entry
  <2> QED BY <1>3, <2>2, <2>3
<1> QED BY <1>1, <1>2, <1>3

LEMMA ChainEffect ==
    ASSUME OrderType, NEW i \in Handlers, handler[i].at = "sign", Accepted(i), TakesEffect(i)
    PROVE  LET l == handler[i].loan IN
           \E e \in Entry :
            /\ chain' = [chain EXCEPT ![l] = e]
            /\ l \in LoanIds /\ e.home = chain[l].home /\ e.home = handler[i].home
            /\ e.home \in Homes
            /\ \/ handler[i].kind = "borrow" /\ chain[l].status = "none"
               \/ handler[i].kind # "borrow" /\ chain[l].status = "open"
            /\ e.status = IF handler[i].kind = "repay" THEN "closed" ELSE "open"
<1> DEFINE l == handler[i].loan
<1>0. l \in LoanIds /\ handler[i].home \in Homes
  BY DEF OrderType, HandlerType, HandlerState
<1>1. chain[l] \in Entry
  BY <1>0 DEF OrderType, ChainType
<1>2. /\ chain[l].home = handler[i].home
      /\ chain[l].status = IF handler[i].kind = "borrow" THEN "none" ELSE "open"
  BY DEF Accepted
<1> DEFINE e == [chain[l] EXCEPT !.status = IF handler[i].kind = "repay" THEN "closed" ELSE "open"]
<1>3. chain' = [chain EXCEPT ![l] = e]
  BY <1>0 DEF TakesEffect, OrderType, ChainType
<1>4. /\ e \in Entry /\ e.home = chain[l].home
      /\ e.status = IF handler[i].kind = "repay" THEN "closed" ELSE "open"
  BY <1>0, <1>1, <1>2, OrderAssumption DEF Entry
<1> QED BY <1>0, <1>2, <1>3, <1>4

LEMMA BorrowEffect ==
    ASSUME OrderType, NEW i \in Handlers, NEW l \in LoanIds, PressBorrow(i, l)
    PROVE  \E e \in Entry :
            /\ chain' = [chain EXCEPT ![l] = e]
            /\ chain[l].home = NoHome /\ e.home = phone /\ phone \in Homes /\ e.status = "none"
<1>1. phone \in Homes /\ chain[l].home = NoHome
  BY DEF PressBorrow, Press, OrderType, PlaceType
<1>2. chain[l] \in Entry
  BY DEF OrderType, ChainType
<1> DEFINE e == [chain[l] EXCEPT !.home = phone]
<1>3. chain' = [chain EXCEPT ![l] = e]
  BY DEF PressBorrow, OrderType, ChainType
<1>4. e \in Entry /\ e.home = phone /\ e.status = "none"
  BY <1>1, <1>2, OrderAssumption DEF Entry
<1> QED BY <1>1, <1>3, <1>4

\* What a step does to the record of the phone's dealings.
LEMMA ExcusingEffect ==
    ASSUME HistoryType, NEW loans, Excusing(loans)
    PROVE  /\ HistoryType' /\ history'.mixed = history.mixed
           /\ history'.kept = history.kept \ loans /\ history'.repaid = history.repaid \ loans
<1>1. /\ history.mixed \in BOOLEAN /\ history.kept \ loans \in SUBSET LoanIds
      /\ history.repaid \ loans \in SUBSET LoanIds /\ history.mishaps + 1 \in Nat
  BY DEF HistoryType
<1>2. history' = [mixed |-> history.mixed, kept |-> history.kept \ loans,
                  repaid |-> history.repaid \ loans, mishaps |-> history.mishaps + 1]
  BY DEF Excusing, HistoryType
<1> QED BY <1>1, <1>2 DEF HistoryType

LEMMA RacesEffect ==
    ASSUME HistoryType, NEW racing \in BOOLEAN, Races(racing)
    PROVE  /\ HistoryType' /\ history'.mixed = history.mixed
           /\ ~racing => history' = history
           /\ racing => history'.kept = {} /\ history'.repaid = {}
BY DEF HistoryType, Races

LEMMA MovesEffect ==
    ASSUME HistoryType, Moves
    PROVE  /\ HistoryType'
           /\ UnderWay => history'.mixed /\ history'.kept = {} /\ history'.repaid = {}
           /\ ~UnderWay => history' = history
<1>1. history.mishaps + 1 \in Nat
  BY DEF HistoryType
<1>2. CASE UnderWay
  <2>1. history' = [mixed |-> TRUE, kept |-> {}, repaid |-> {}, mishaps |-> history.mishaps + 1]
    BY <1>2 DEF Moves
  <2> QED BY <1>1, <1>2, <2>1 DEF HistoryType
<1>3. CASE ~UnderWay
  BY <1>3 DEF HistoryType, Moves
<1> QED BY <1>2, <1>3

LEMMA OverlappingEffect ==
    ASSUME HistoryType, NEW another \in BOOLEAN, Overlapping(another)
    PROVE  /\ HistoryType' /\ history'.mixed = history.mixed
           /\ history'.kept = history.kept /\ history'.repaid = history.repaid
<1>1. CASE another
  BY <1>1, ExcusingEffect DEF Overlapping
<1>2. CASE ~another
  BY <1>2 DEF Overlapping, HistoryType
<1> QED BY <1>1, <1>2

LEMMA ReadCacheEffect ==
    ASSUME OrderType, NEW j \in Jobs, ReadCache(j)
    PROVE  HistoryType' /\ \E r \in JobState :
            /\ job' = [job EXCEPT ![j] = r]
            /\ r.kind = job[j].kind /\ r.home = job[j].home
            /\ r.cached \in {disk[job[j].home], {}} /\ r.list = job[j].list
            /\ r.at = IF r.kind = "load" THEN "scan" ELSE "apply"
            /\ \/ r.cached = disk[job[j].home] /\ \A i \in Handlers : handler[i].at # "store"
               \/ history'.kept = {} /\ history'.repaid = {}
<1>0. job[j] \in JobState /\ job[j].home \in Homes /\ job[j].kind \in {"load", "hydration"}
  BY DEF OrderType, JobType, JobState, ReadCache
<1>1. /\ disk[job[j].home] \in SUBSET LoanIds
      /\ history.kept \in SUBSET LoanIds /\ history.repaid \in SUBSET LoanIds
  BY <1>0 DEF OrderType, PlaceType, HistoryType
<1>2. \/ /\ Reads(j, disk[job[j].home])
         /\ Races(\E i \in Handlers : handler[i].at = "store")
      \/ Reads(j, {}) /\ Excusing(LoanIds)
  BY DEF ReadCache
<1>3. ASSUME NEW list \in SUBSET LoanIds, Reads(j, list)
      PROVE  \E r \in JobState :
                /\ job' = [job EXCEPT ![j] = r]
                /\ r.kind = job[j].kind /\ r.home = job[j].home
                /\ r.cached = list /\ r.list = job[j].list
                /\ r.at = IF r.kind = "load" THEN "scan" ELSE "apply"
  <2> DEFINE r == [job[j] EXCEPT !.cached = list,
                                 !.at = IF job[j].kind = "load" THEN "scan" ELSE "apply"]
  <2>1. job' = [job EXCEPT ![j] = r]
    BY <1>3 DEF Reads, OrderType, JobType
  <2>2. r \in JobState
    BY <1>0 DEF JobState
  <2> QED BY <1>0, <2>1, <2>2 DEF JobState
<1>4. ASSUME Races(\E i \in Handlers : handler[i].at = "store")
      PROVE  HistoryType' /\ \/ \A i \in Handlers : handler[i].at # "store"
                             \/ history'.kept = {} /\ history'.repaid = {}
  BY <1>4 DEF OrderType, HistoryType, Races
<1>5. Excusing(LoanIds) => HistoryType' /\ history'.kept = {} /\ history'.repaid = {}
  BY <1>1, ExcusingEffect DEF OrderType
<1>6. CASE Reads(j, disk[job[j].home]) /\ Races(\E i \in Handlers : handler[i].at = "store")
  BY <1>1, <1>3, <1>4, <1>6
<1>7. CASE Reads(j, {}) /\ Excusing(LoanIds)
  BY <1>3, <1>5, <1>7
<1> QED BY <1>2, <1>6, <1>7

LEMMA JobUpdate ==
    ASSUME JobType, NEW j \in Jobs, NEW r \in JobState, job' = [job EXCEPT ![j] = r]
    PROVE  JobType' /\ job'[j] = r /\ \A k \in Jobs : k # j => job'[k] = job[k]
BY DEF JobType

LEMMA HandlerUpdate ==
    ASSUME HandlerType, NEW i \in Handlers, NEW r \in HandlerState, handler' = [handler EXCEPT ![i] = r]
    PROVE  HandlerType' /\ handler'[i] = r /\ \A k \in Handlers : k # i => handler'[k] = handler[k]
BY DEF HandlerType

LEMMA ChainUpdate ==
    ASSUME ChainType, NEW l \in LoanIds, NEW e \in Entry, chain' = [chain EXCEPT ![l] = e]
    PROVE  ChainType' /\ chain'[l] = e /\ \A k \in LoanIds : k # l => chain'[k] = chain[k]
BY DEF ChainType

LEMMA Unchanged ==
    ASSUME OrderType
    PROVE  /\ UNCHANGED chain => ChainType'
           /\ UNCHANGED <<phone, orders, disk>> => PlaceType'
           /\ UNCHANGED job => JobType'
           /\ UNCHANGED handler => HandlerType'
           /\ UNCHANGED history => HistoryType'
BY DEF OrderType, ChainType, PlaceType, JobType, HandlerType, HistoryType

LEMMA OrderTypeNext == OrderType /\ [OrderNext]_orderVars => OrderType'
<1> SUFFICES ASSUME OrderType, [OrderNext]_orderVars PROVE OrderType'
  OBVIOUS
<1>0. ChainType /\ PlaceType /\ JobType /\ HandlerType /\ HistoryType
  BY DEF OrderType
<1>1. CASE Elsewhere
  BY <1>0, <1>1, ElsewhereEffect, ChainUpdate, Unchanged DEF Elsewhere, OrderType
<1>2. CASE Disconnect
  <2>1. PlaceType'
    BY <1>0, <1>2 DEF Disconnect, PlaceType
  <2> QED BY <1>0, <1>2, <2>1, MovesEffect, Unchanged DEF Disconnect, OrderType
<1>3. CASE Kill
  <2>1. PlaceType' /\ JobType' /\ HandlerType'
    BY <1>0, <1>3, NoJobType DEF Kill, PlaceType, JobType, HandlerType
  <2> QED BY <1>0, <1>3, <2>1, ExcusingEffect, Unchanged DEF Kill, OrderType
<1>4. CASE Reload
  <2>1. JobType'
    BY <1>4, ReloadEffect
  <2> QED BY <1>0, <1>4, <2>1, OverlappingEffect, Unchanged DEF Reload, OrderType
<1>5. ASSUME NEW h \in Homes, SetHome(h) PROVE OrderType'
  <2>1. JobType' /\ PlaceType'
    BY <1>0, <1>5, SetHomeEffect DEF SetHome, PlaceType
  <2> QED BY <1>0, <1>5, <2>1, MovesEffect, Unchanged DEF SetHome, OrderType
<1>6. ASSUME NEW j \in Jobs, JobStep(j) PROVE OrderType'
  <2>0. job[j] \in JobState
    BY <1>0 DEF JobType
  <2>1. CASE ReadCache(j)
    <3>1. JobType'
      BY <1>0, <2>1, ReadCacheEffect, JobUpdate
    <3> QED BY <1>0, <2>1, <3>1, ReadCacheEffect, Unchanged DEF ReadCache, OrderType
  <2>2. CASE Hydrate(j)
    <3>1. PlaceType' /\ JobType'
      BY <1>0, <2>0, <2>2, NoJobType, JobUpdate DEF Hydrate, PlaceType, JobState
    <3> QED BY <1>0, <2>2, <3>1, Unchanged DEF Hydrate, OrderType
  <2>3. CASE FindLoans(j)
    <3>1. JobType' /\ (UNCHANGED history \/ \E loans : Excusing(loans))
      BY <1>0, <2>3, FindLoansEffect, JobUpdate
    <3>2. HistoryType'
      BY <1>0, <3>1, ExcusingEffect, Unchanged
    <3>3. UNCHANGED <<chain, phone, orders, disk, handler>>
      BY <2>3 DEF FindLoans
    <3> QED BY <1>0, <3>1, <3>2, <3>3, Unchanged DEF OrderType
  <2>4. CASE Walk(j)
    <3>1. JobType' /\ (UNCHANGED history \/ \E loans : Excusing(loans))
      BY <1>0, <2>4, WalkEffect, JobUpdate
    <3>2. HistoryType'
      BY <1>0, <3>1, ExcusingEffect, Unchanged
    <3>3. UNCHANGED <<chain, phone, orders, disk, handler>>
      BY <2>4 DEF Walk
    <3> QED BY <1>0, <3>1, <3>2, <3>3, Unchanged DEF OrderType
  <2>5. CASE Save(j)
    <3>1. JobType'
      BY <1>0, <2>5, SaveEffect, JobUpdate
    <3>2. PlaceType'
      BY <1>0, <2>0, <2>5 DEF Save, PlaceType, JobState
    <3>3. HistoryType'
      BY <1>0, <2>5, ExcusingEffect, Unchanged DEF Save
    <3> QED BY <1>0, <2>5, <3>1, <3>2, <3>3, Unchanged DEF Save, OrderType
  <2>6. CASE ShowLoans(j)
    <3>1. JobType'
      <4>1. \E r \in JobState : job' = [job EXCEPT ![j] = r]
        BY <1>0, <2>6, MovesOn DEF ShowLoans, At
      <4> QED BY <1>0, <4>1, JobUpdate
    <3>2. PlaceType'
      BY <1>0, <2>0, <2>6 DEF ShowLoans, PlaceType, JobState
    <3> QED BY <1>0, <2>6, <3>1, <3>2, Unchanged DEF ShowLoans, OrderType
  <2> QED BY <1>6, <2>1, <2>2, <2>3, <2>4, <2>5, <2>6 DEF JobStep
<1>7. ASSUME NEW i \in Handlers, HandlerStep(i) PROVE OrderType'
  <2>0. handler[i] \in HandlerState
    BY <1>0 DEF HandlerType
  <2>1. CASE HandlerFails(i)
    <3>1. HandlerType'
      BY <1>0, <2>1, NoJobType, HandlerUpdate DEF HandlerFails
    <3>2. ChainType' /\ HistoryType'
      BY <1>0, <2>1, ChainEffect, ChainUpdate, ExcusingEffect, Unchanged DEF HandlerFails
    <3> QED BY <1>0, <2>1, <3>1, <3>2, Unchanged DEF HandlerFails, OrderType
  <2>2. CASE Confirm(i)
    <3>1. HandlerType'
      BY <1>0, <2>2, ConfirmEffect, HandlerUpdate
    <3>2. ChainType' /\ HistoryType'
      BY <1>0, <2>2, ChainEffect, ChainUpdate, ExcusingEffect, Unchanged DEF Confirm
    <3> QED BY <1>0, <2>2, <3>1, <3>2, Unchanged DEF Confirm, OrderType
  <2>3. CASE UpdateList(i)
    <3>1. HandlerType'
      BY <1>0, <2>3, UpdateEffect, HandlerUpdate
    <3>2. PlaceType'
      BY <1>0, <2>3, UpdateEffect DEF UpdateList, PlaceType
    <3>3. HistoryType'
      BY <1>0, <2>0, <2>3 DEF UpdateList, HistoryType, HandlerState
    <3> QED BY <1>0, <2>3, <3>1, <3>2, <3>3, Unchanged DEF UpdateList, OrderType
  <2>4. CASE Store(i)
    <3>1. HandlerType'
      BY <1>0, <2>4, NoJobType, HandlerUpdate DEF Store
    <3>2. PlaceType'
      BY <1>0, <2>0, <2>4 DEF Store, PlaceType, HandlerState
    <3>3. HistoryType'
      BY <1>0, <2>4, RacesEffect, ExcusingEffect DEF Store, Racing
    <3> QED BY <1>0, <2>4, <3>1, <3>2, <3>3, Unchanged DEF Store, OrderType
  <2> QED BY <1>7, <2>1, <2>2, <2>3, <2>4 DEF HandlerStep
<1>8. ASSUME NEW i \in Handlers, NEW l \in LoanIds,
             PressBorrow(i, l) \/ PressRepay(i, l) \/ PressGrace(i, l)
      PROVE  OrderType'
  <2>1. PICK kind \in {"borrow", "repay", "grace"} : Press(i, kind, l)
    BY <1>8 DEF PressBorrow, PressRepay, PressGrace
  <2>2. HandlerType'
    BY <1>0, <2>1, PressEffect, HandlerUpdate
  <2>3. ChainType'
    BY <1>0, <1>8, BorrowEffect, ChainUpdate, Unchanged DEF PressRepay, PressGrace
  <2> QED BY <1>0, <2>1, <2>2, <2>3, OverlappingEffect, Unchanged DEF Press, OrderType
<1>9. CASE UNCHANGED orderVars
  BY <1>0, <1>9, Unchanged DEF orderVars, OrderType
<1> QED BY <1>1, <1>2, <1>3, <1>4, <1>5, <1>6, <1>7, <1>8, <1>9 DEF OrderNext

LEMMA Pieces ==
    OrderType <=> ChainType /\ PlaceType /\ JobType /\ HandlerType /\ HistoryType
BY DEF OrderType

\* What a step does to a loan.
LEMMA LoansMove ==
    ASSUME OrderType, [OrderNext]_orderVars, NEW l \in LoanIds
    PROVE  \/ chain[l].home = NoHome
           \/ /\ chain'[l].home = chain[l].home
              /\ \/ chain'[l].status = chain[l].status
                 \/ chain[l].status = "open" /\ chain'[l].status = "closed"
                 \/ /\ chain[l].status = "none" /\ chain'[l].status = "open"
                    /\ \E i \in Handlers : /\ Pending(i) /\ handler[i].at = "sign"
                                           /\ handler[i].loan = l /\ handler'[i].at # "sign"
<1>0. ChainType /\ HandlerType /\ chain[l] \in Entry
  BY Pieces DEF ChainType
<1>1. CASE UNCHANGED chain
  BY <1>1
<1>2. CASE Elsewhere
  BY <1>0, <1>2, ElsewhereEffect, ChainUpdate
<1>3. ASSUME NEW i \in Handlers, HandlerFails(i) \/ Confirm(i), ~UNCHANGED chain
      PROVE  /\ chain'[l].home = chain[l].home
             /\ \/ chain'[l].status = chain[l].status
                \/ chain[l].status = "open" /\ chain'[l].status = "closed"
                \/ /\ chain[l].status = "none" /\ chain'[l].status = "open"
                   /\ /\ Pending(i) /\ handler[i].at = "sign"
                      /\ handler[i].loan = l /\ handler'[i].at # "sign"
  <2>1. handler[i].at = "sign" /\ Accepted(i) /\ TakesEffect(i)
    BY <1>3 DEF HandlerFails, Confirm
  <2>2. handler'[i].at # "sign"
    BY <1>0, <1>3, ConfirmEffect, HandlerUpdate DEF HandlerFails, NoHandler, HandlerType
  <2> QED BY <1>0, <2>1, <2>2, ChainEffect, ChainUpdate DEF Pending
<1>4. ASSUME NEW i \in Handlers, NEW k \in LoanIds, PressBorrow(i, k)
      PROVE  \/ chain[l].home = NoHome
             \/ chain'[l].home = chain[l].home /\ chain'[l].status = chain[l].status
  BY <1>0, <1>4, BorrowEffect, ChainUpdate
<1>5. \/ UNCHANGED chain \/ Elsewhere
      \/ \E i \in Handlers : HandlerFails(i) \/ Confirm(i) \/ \E k \in LoanIds : PressBorrow(i, k)
  BY DEF OrderNext, Disconnect, Kill, Reload, SetHome, JobStep, ReadCache, Hydrate, FindLoans, Walk,
         Save, ShowLoans, HandlerStep, UpdateList, Store, PressRepay, PressGrace, orderVars
<1> QED BY <1>1, <1>2, <1>3, <1>4, <1>5

\* What a step does to the record: but for a list's update it only forgets.
LEMMA Forgets ==
    ASSUME OrderType, [OrderNext]_orderVars
    PROVE  /\ history.mixed => history'.mixed
           /\ \/ \E i \in Handlers : UpdateList(i)
              \/ /\ history'.kept \subseteq history.kept
                 /\ history'.repaid \subseteq history.repaid
                 /\ history'.mixed /\ ~history.mixed => history'.kept = {} /\ history'.repaid = {}
<1>0. HistoryType
  BY DEF OrderType
<1>1. CASE \E loans \in {{}, LoanIds} \cup SUBSET LoanIds : Excusing(loans)
  BY <1>0, <1>1, ExcusingEffect
<1>2. CASE \E b \in BOOLEAN : Races(b) \/ Overlapping(b)
  BY <1>0, <1>2, RacesEffect, OverlappingEffect
<1>3. CASE Moves
  BY <1>0, <1>3, MovesEffect
<1>4. CASE UNCHANGED history
  BY <1>4
<1>5. CASE Disconnect \/ \E h \in Homes : SetHome(h)
  BY <1>3, <1>5 DEF Disconnect, SetHome
<1>6. CASE Kill
  <2>1. UNION {Unstored(i) : i \in Handlers} \in SUBSET LoanIds
    BY ExcusedLoans
  <2> QED BY <1>1, <1>6, <2>1 DEF Kill
<1>7. CASE Reload
  BY <1>2, <1>7 DEF Reload
<1>8. ASSUME NEW j \in Jobs, JobStep(j)
      PROVE \/ \E loans \in {{}, LoanIds} \cup SUBSET LoanIds : Excusing(loans)
            \/ \E b \in BOOLEAN : Races(b)
            \/ UNCHANGED history
  <2>1. CASE ReadCache(j)
    BY <2>1 DEF ReadCache
  <2>2. CASE FindLoans(j)
    BY <2>2, ExcusedLoans, FindLoansEffect
  <2>3. CASE Walk(j)
    BY <2>3, ExcusedLoans, WalkEffect
  <2>4. CASE Save(j)
    BY <2>4 DEF Save
  <2> QED BY <1>8, <2>1, <2>2, <2>3, <2>4 DEF JobStep, Hydrate, ShowLoans
<1>9. ASSUME NEW i \in Handlers, HandlerStep(i), ~UpdateList(i)
      PROVE \/ \E loans \in {{}, LoanIds} \cup SUBSET LoanIds : Excusing(loans)
            \/ \E b \in BOOLEAN : Races(b)
            \/ UNCHANGED history
  <2>1. handler[i].at = "sign" => {handler[i].loan} \in SUBSET LoanIds
    BY DEF OrderType, HandlerType, HandlerState
  <2>2. CASE HandlerFails(i)
    BY <2>2 DEF HandlerFails
  <2>3. CASE Confirm(i)
    BY <2>1, <2>3 DEF Confirm
  <2>4. CASE Store(i)
    BY <2>4, ExcusedLoans DEF Store, Racing
  <2> QED BY <1>9, <2>2, <2>3, <2>4 DEF HandlerStep
<1>10. ASSUME NEW i \in Handlers, NEW l \in LoanIds,
              PressBorrow(i, l) \/ PressRepay(i, l) \/ PressGrace(i, l)
       PROVE  \E b \in BOOLEAN : Overlapping(b)
  BY <1>10 DEF PressBorrow, PressRepay, PressGrace, Press
<1>11. ASSUME NEW i \in Handlers, UpdateList(i)
       PROVE  history.mixed => history'.mixed
  <2>1. history' = [history EXCEPT !.mixed = @ \/ \E j \in Jobs : job[j].kind = "hydration",
                                   !.kept = {}, !.repaid = {}]
        \/ history'.mixed = history.mixed
    BY <1>0, <1>11 DEF UpdateList, HistoryType
  <2> QED BY <1>0, <2>1 DEF HistoryType
<1> QED
  BY <1>1, <1>2, <1>3, <1>4, <1>5, <1>6, <1>7, <1>8, <1>9, <1>10, <1>11
     DEF OrderNext, Elsewhere, orderVars

LEMMA UpdateHistory ==
    ASSUME OrderType, NEW i \in Handlers, UpdateList(i)
    PROVE  /\ history'.mixed <=> history.mixed \/ Hydrating
           /\ \/ history'.kept = {} /\ history'.repaid = {}
              \/ /\ ~history'.mixed /\ ~Racing(i)
                 /\ history'.kept = IF handler[i].kind = "borrow"
                                    THEN history.kept \cup {handler[i].loan}
                                    ELSE history.kept \cap orders'
                 /\ history'.repaid =
                        IF /\ handler[i].kind = "repay"
                           /\ chain[handler[i].loan] = [home |-> handler[i].home, status |-> "closed"]
                        THEN history.repaid \cup {handler[i].loan} ELSE history.repaid
<1>0. HistoryType
  BY DEF OrderType
<1> DEFINE mixed == history.mixed \/ \E j \in Jobs : job[j].kind = "hydration"
<1>1. CASE mixed \/ Racing(i)
  <2>1. history' = [history EXCEPT !.mixed = mixed, !.kept = {}, !.repaid = {}]
    BY <1>1 DEF UpdateList
  <2> QED BY <1>0, <2>1 DEF HistoryType, Hydrating
<1>2. CASE ~(mixed \/ Racing(i))
  <2>1. orders' = Updated(i)
    BY DEF UpdateList
  <2>2. history' = [history EXCEPT
            !.kept = IF handler[i].kind = "borrow" THEN @ \cup {handler[i].loan} ELSE @ \cap Updated(i),
            !.repaid = IF handler[i].kind = "repay"
                          /\ chain[handler[i].loan] = [home |-> handler[i].home, status |-> "closed"]
                       THEN @ \cup {handler[i].loan} ELSE @]
    BY <1>2 DEF UpdateList
  <2> QED BY <1>0, <1>2, <2>1, <2>2 DEF HistoryType, Hydrating
<1> QED BY <1>1, <1>2

\* Whoever moves the phone in mid-course excuses everything.
LEMMA StillThere ==
    ASSUME HistoryType, Moves, ~history'.mixed
    PROVE  (\A j \in Jobs : job[j] = NoJob) /\ (\A i \in Handlers : handler[i] = NoHandler)
BY MovesEffect DEF UnderWay

LEMMA HomeInvNext == OrderInv /\ [OrderNext]_orderVars => HomeInv'
<1> SUFFICES ASSUME OrderInv, [OrderNext]_orderVars, ~history'.mixed
             PROVE  (StoredAtHome /\ JobsAtHome /\ HandlersAtHome /\ ListAtHome)'
  BY DEF HomeInv
<1>0. /\ OrderType /\ OrderType' /\ ChainType /\ PlaceType /\ JobType /\ HandlerType /\ HistoryType
      /\ NoHome \notin Homes
  BY OrderTypeNext, OrderAssumption DEF OrderInv, OrderType
<1>1. ~history.mixed /\ StoredAtHome /\ JobsAtHome /\ HandlersAtHome /\ ListAtHome
  BY <1>0, Forgets DEF OrderInv, HomeInv
<1>2. \A l \in LoanIds : chain[l].home \in Homes => chain'[l].home = chain[l].home
  BY <1>0, LoansMove
<1>3. /\ \A h \in Homes : disk[h] \subseteq LoanIds
      /\ \A j \in Jobs : job[j].cached \cup job[j].list \subseteq LoanIds
      /\ \A i \in Handlers : handler[i].list \subseteq LoanIds
      /\ orders \subseteq LoanIds
  BY <1>0 DEF PlaceType, JobType, JobState, HandlerType, HandlerState
\* Whatever is left alone stays at home.
<1>4. UNCHANGED disk => StoredAtHome'
  BY <1>1, <1>2, <1>3 DEF StoredAtHome, Owned
<1>5. UNCHANGED <<phone, job>> => JobsAtHome'
  BY <1>1, <1>2, <1>3 DEF JobsAtHome, Owned
<1>6. UNCHANGED <<phone, handler>> => HandlersAtHome'
  BY <1>1, <1>2, <1>3 DEF HandlersAtHome, Owned
<1>7. UNCHANGED <<phone, orders>> /\ (Hydrating => Hydrating') => ListAtHome'
  BY <1>1, <1>2, <1>3 DEF ListAtHome, Owned
<1>8. UNCHANGED job => (Hydrating => Hydrating')
  BY DEF Hydrating
<1>9. ASSUME NEW j \in Jobs, NEW r \in JobState, job' = [job EXCEPT ![j] = r], UNCHANGED phone,
             r.at # "idle" => r.home = phone /\ Owned(r.cached \cup r.list, phone)
      PROVE  JobsAtHome' /\ (r.kind = job[j].kind => (Hydrating => Hydrating'))
  <2>1. job'[j] = r /\ \A k \in Jobs : k # j => job'[k] = job[k]
    BY <1>0, <1>9, JobUpdate
  <2>2. r.cached \cup r.list \subseteq LoanIds
    BY DEF JobState
  <2> QED
    BY <1>1, <1>2, <1>3, <1>9, <2>1, <2>2 DEF JobsAtHome, Owned, Hydrating
<1>10. ASSUME NEW i \in Handlers, NEW r \in HandlerState, handler' = [handler EXCEPT ![i] = r],
              UNCHANGED phone,
              r.at # "idle" => r.home = phone /\ (r.at = "store" => Owned(r.list, phone)')
       PROVE  HandlersAtHome'
  <2>1. handler'[i] = r /\ \A k \in Handlers : k # i => handler'[k] = handler[k]
    BY <1>0, <1>10, HandlerUpdate
  <2> QED
    BY <1>1, <1>2, <1>3, <1>10, <2>1 DEF HandlersAtHome, Owned
<1>11. NoJob.at = "idle" /\ NoJob.kind = "none" /\ NoHandler.at = "idle"
  BY DEF NoJob, NoHandler
<1>12. CASE UNCHANGED <<phone, orders, disk, job, handler>>
  BY <1>4, <1>5, <1>6, <1>7, <1>8, <1>12
<1>13. CASE Disconnect \/ Kill
  <2>1. orders' = {} /\ UNCHANGED disk
    BY <1>13 DEF Disconnect, Kill
  <2>2. (\A j \in Jobs : job'[j] = NoJob) /\ (\A i \in Handlers : handler'[i] = NoHandler)
    BY <1>0, <1>13, StillThere DEF Disconnect, Kill
  <2> QED
    BY <1>4, <1>11, <2>1, <2>2 DEF JobsAtHome, HandlersAtHome, ListAtHome
<1>14. ASSUME NEW h \in Homes, SetHome(h)
       PROVE  (StoredAtHome /\ JobsAtHome /\ HandlersAtHome /\ ListAtHome)'
  <2>1. phone' = h /\ UNCHANGED <<orders, disk, handler>>
    BY <1>14 DEF SetHome
  <2>2. (\A j \in Jobs : job[j] = NoJob) /\ (\A i \in Handlers : handler[i] = NoHandler)
    BY <1>0, <1>14, StillThere DEF SetHome
  <2>3. \A j \in Jobs :
            \/ job'[j] = job[j]
            \/ /\ job'[j].home = h /\ job'[j].at = "cache"
               /\ job'[j].cached = {} /\ job'[j].list = {}
    BY <1>0, <1>14, SetHomeEffect
  <2>4. Hydrating'
    BY <1>0, <1>14, SetHomeEffect
  <2> QED
    BY <1>4, <1>11, <2>1, <2>2, <2>3, <2>4 DEF JobsAtHome, HandlersAtHome, ListAtHome, Owned
<1>15. CASE Reload
  <2>1. UNCHANGED <<phone, orders, disk, handler>> /\ phone \in Homes
    BY <1>0, <1>15 DEF Reload, PlaceType
  <2>2. PICK j \in Jobs :
          /\ job[j] = NoJob /\ \A k \in Jobs : k # j => job'[k] = job[k]
          /\ job'[j].home = phone /\ job'[j].at = "cache"
          /\ job'[j].cached = {} /\ job'[j].list = {}
    BY <1>0, <1>15, ReloadEffect
  <2>3. JobsAtHome'
    BY <1>1, <1>2, <1>3, <2>1, <2>2 DEF JobsAtHome, Owned, Reload
  <2>4. Hydrating => Hydrating'
    BY <1>11, <2>2 DEF Hydrating
  <2> QED BY <1>4, <1>6, <1>7, <2>1, <2>3, <2>4
<1>16. ASSUME NEW j \in Jobs, JobStep(j)
       PROVE  (StoredAtHome /\ JobsAtHome /\ HandlersAtHome /\ ListAtHome)'
  <2>0. job[j] \in JobState /\ UNCHANGED <<chain, phone, handler>>
    BY <1>0, <1>16 DEF JobType, JobStep, ReadCache, Hydrate, FindLoans, Walk, Save, ShowLoans
  <2>1. job[j].at # "idle" /\ job[j].home \in Homes
    BY <1>16, <2>0 DEF JobStep, ReadCache, Hydrate, FindLoans, Walk, Save, ShowLoans, At, JobState
  <2>2. job[j].home = phone /\ Owned(job[j].cached, phone) /\ Owned(job[j].list, phone)
    BY <1>1, <2>1 DEF JobsAtHome, Owned
  <2>3. CASE ReadCache(j)
    <3>1. PICK r \in JobState :
            /\ job' = [job EXCEPT ![j] = r]
            /\ r.kind = job[j].kind /\ r.home = job[j].home
            /\ r.cached \in {disk[job[j].home], {}} /\ r.list = job[j].list
      BY <1>0, <2>3, ReadCacheEffect
    <3>2. Owned(r.cached \cup r.list, phone)
      BY <1>1, <2>1, <2>2, <3>1 DEF StoredAtHome, Owned
    <3>3. UNCHANGED <<orders, disk>>
      BY <2>3 DEF ReadCache
    <3> QED BY <1>4, <1>6, <1>7, <1>9, <2>0, <2>2, <3>1, <3>2, <3>3
  <2>4. CASE Hydrate(j)
    <3>1. orders' = job[j].cached /\ job' = [job EXCEPT ![j] = NoJob] /\ UNCHANGED disk
      BY <2>4 DEF Hydrate
    <3>2. ListAtHome'
      BY <2>0, <2>2, <3>1 DEF ListAtHome, Owned
    <3> QED BY <1>4, <1>6, <1>9, <1>11, <2>0, <3>1, <3>2, NoJobType
  <2>5. CASE FindLoans(j)
    <3>1. PICK found \in SUBSET TakenAt(job[j].home), r \in JobState :
            /\ job' = [job EXCEPT ![j] = r]
            /\ r.kind = "load" /\ r.home = job[j].home
            /\ r.cached = {} \/ r.cached = job[j].cached
            /\ r.list = found \/ r.list = job[j].list
      BY <1>0, <2>5, FindLoansEffect
    <3>2. job[j].kind = "load"
      BY <2>5 DEF FindLoans, At
    <3>3. Owned(r.cached \cup r.list, phone)
      BY <2>2, <3>1 DEF Owned, TakenAt
    <3>4. UNCHANGED <<orders, disk>>
      BY <2>5 DEF FindLoans
    <3> QED BY <1>4, <1>6, <1>7, <1>9, <2>0, <2>2, <3>1, <3>2, <3>3, <3>4
  <2>6. CASE Walk(j)
    <3>1. PICK found \in SUBSET TakenAt(job[j].home), r \in JobState :
            /\ job' = [job EXCEPT ![j] = r]
            /\ r.kind = "load" /\ r.home = job[j].home
            /\ r.cached = {} /\ r.list = IF found = {} THEN job[j].cached ELSE found
      BY <1>0, <2>6, WalkEffect
    <3>2. job[j].kind = "load"
      BY <2>6 DEF Walk, At
    <3>3. Owned(r.cached \cup r.list, phone)
      BY <2>2, <3>1 DEF Owned, TakenAt
    <3>4. UNCHANGED <<orders, disk>>
      BY <2>6 DEF Walk
    <3> QED BY <1>4, <1>6, <1>7, <1>9, <2>0, <2>2, <3>1, <3>2, <3>3, <3>4
  <2>7. CASE Save(j)
    <3>1. PICK r \in JobState :
            /\ job' = [job EXCEPT ![j] = r]
            /\ \/ r = NoJob
               \/ /\ r.kind = "load" /\ r.home = job[j].home
                  /\ r.cached = job[j].cached /\ r.list = job[j].list
      BY <1>0, <2>7, SaveEffect
    <3>2. job[j].kind = "load"
      BY <2>0, <2>7 DEF Save, JobState
    <3>3. r.at # "idle" => r.home = phone /\ Owned(r.cached \cup r.list, phone)
      BY <1>11, <2>2, <3>1 DEF Owned
    <3>4. UNCHANGED orders /\ (UNCHANGED disk \/ disk' = [disk EXCEPT ![phone] = job[j].list])
      BY <2>2, <2>7 DEF Save
    <3>5. StoredAtHome'
      <4>1. CASE UNCHANGED disk
        BY <1>4, <4>1
      <4>2. CASE disk' = [disk EXCEPT ![phone] = job[j].list]
        BY <1>0, <1>1, <2>0, <2>2, <4>2 DEF StoredAtHome, Owned, PlaceType
      <4> QED BY <3>4, <4>1, <4>2
    <3>6. Hydrating => Hydrating'
      BY <1>0, <3>1, <3>2, JobUpdate DEF Hydrating
    <3> QED BY <1>6, <1>7, <1>9, <2>0, <3>1, <3>3, <3>4, <3>5, <3>6
  <2>8. CASE ShowLoans(j)
    <3>1. PICK r \in JobState :
            /\ job' = [job EXCEPT ![j] = r]
            /\ r.home = job[j].home /\ r.cached = job[j].cached /\ r.list = job[j].list
      BY <1>0, <2>8, MovesOn DEF ShowLoans, At
    <3>2. Owned(r.cached \cup r.list, phone)
      BY <2>2, <3>1 DEF Owned
    <3>3. orders' = job[j].list /\ UNCHANGED disk
      BY <2>8 DEF ShowLoans
    <3>4. ListAtHome'
      BY <2>0, <2>2, <3>3 DEF ListAtHome, Owned
    <3> QED BY <1>4, <1>6, <1>9, <2>0, <2>2, <3>1, <3>2, <3>3, <3>4
  <2> QED BY <1>16, <2>3, <2>4, <2>5, <2>6, <2>7, <2>8 DEF JobStep
<1>17. ASSUME NEW i \in Handlers, HandlerStep(i)
       PROVE  (StoredAtHome /\ JobsAtHome /\ HandlersAtHome /\ ListAtHome)'
  <2>0. handler[i] \in HandlerState /\ UNCHANGED <<phone, job>>
    BY <1>0, <1>17 DEF HandlerType, HandlerStep, HandlerFails, Confirm, UpdateList, Store
  <2>1. handler[i].at # "idle" /\ handler[i].home \in Homes /\ handler[i].loan \in LoanIds
    BY <1>17, <2>0 DEF HandlerStep, HandlerFails, Confirm, UpdateList, Store, HandlerState
  <2>2. handler[i].home = phone /\ (handler[i].at = "store" => Owned(handler[i].list, phone))
    BY <1>1, <2>1 DEF HandlersAtHome
  <2>3. CASE HandlerFails(i)
    <3>1. handler' = [handler EXCEPT ![i] = NoHandler] /\ UNCHANGED <<orders, disk>>
      BY <2>3 DEF HandlerFails
    <3> QED BY <1>4, <1>5, <1>7, <1>8, <1>10, <1>11, <2>0, <3>1, NoJobType
  <2>4. CASE Confirm(i)
    <3>1. PICK r \in HandlerState :
            handler' = [handler EXCEPT ![i] = r] /\ r.at = "list" /\ r.home = handler[i].home
      BY <1>0, <2>4, ConfirmEffect
    <3>2. UNCHANGED <<orders, disk>>
      BY <2>4 DEF Confirm
    <3> QED BY <1>4, <1>5, <1>7, <1>8, <1>10, <2>0, <2>2, <3>1, <3>2
  <2>5. CASE UpdateList(i)
    <3>1. PICK r \in HandlerState :
            /\ handler' = [handler EXCEPT ![i] = r]
            /\ r.at = "store" /\ r.home = handler[i].home /\ r.list = orders'
      BY <1>0, <2>5, UpdateEffect
    <3>2. ~Hydrating /\ Owned(orders, phone)
      BY <1>0, <1>1, <2>1, <2>2, <2>5, UpdateHistory DEF ListAtHome, Owned
    <3>3. handler[i].kind = "borrow" => chain[handler[i].loan].home = phone
      BY <2>2, <2>5 DEF UpdateList, OrderInv, BorrowInv, Pending
    <3>4. UNCHANGED <<chain, disk>> /\ orders' = Updated(i)
      BY <2>5 DEF UpdateList
    <3>5. Owned(orders, phone)'
      BY <2>0, <3>2, <3>3, <3>4 DEF Updated, Owned
    <3>6. ListAtHome'
      BY <2>0, <3>5 DEF ListAtHome, Owned
    <3>7. Owned(r.list, phone)'
      BY <2>0, <3>1, <3>5 DEF Owned
    <3> QED BY <1>4, <1>5, <1>10, <2>0, <2>2, <3>1, <3>4, <3>6, <3>7
  <2>6. CASE Store(i)
    <3>1. handler' = [handler EXCEPT ![i] = NoHandler] /\ UNCHANGED <<chain, orders>>
      BY <2>6 DEF Store
    <3>2. /\ UNCHANGED disk \/ disk' = [disk EXCEPT ![phone] = handler[i].list]
          /\ Owned(handler[i].list, phone)
      BY <2>2, <2>6 DEF Store
    <3>3. StoredAtHome'
      <4>1. CASE UNCHANGED disk
        BY <1>4, <4>1
      <4>2. CASE disk' = [disk EXCEPT ![phone] = handler[i].list]
        BY <1>0, <1>1, <2>1, <2>2, <3>1, <3>2, <4>2 DEF StoredAtHome, Owned, PlaceType
      <4> QED BY <3>2, <4>1, <4>2
    <3> QED BY <1>5, <1>7, <1>8, <1>10, <1>11, <2>0, <3>1, <3>3, NoJobType
  <2> QED BY <1>17, <2>3, <2>4, <2>5, <2>6 DEF HandlerStep
<1>18. ASSUME NEW i \in Handlers, NEW l \in LoanIds,
              PressBorrow(i, l) \/ PressRepay(i, l) \/ PressGrace(i, l)
       PROVE  (StoredAtHome /\ JobsAtHome /\ HandlersAtHome /\ ListAtHome)'
  <2>1. PICK kind \in {"borrow", "repay", "grace"} : Press(i, kind, l)
    BY <1>18 DEF PressBorrow, PressRepay, PressGrace
  <2>2. PICK r \in HandlerState :
          handler' = [handler EXCEPT ![i] = r] /\ r.at = "sign" /\ r.home = phone
    BY <1>0, <2>1, PressEffect
  <2>3. UNCHANGED <<phone, orders, disk, job>>
    BY <2>1 DEF Press
  <2> QED BY <1>4, <1>5, <1>7, <1>8, <1>10, <2>2, <2>3
<1> QED
  BY <1>12, <1>13, <1>14, <1>15, <1>16, <1>17, <1>18 DEF OrderNext, Elsewhere, orderVars

LEMMA CleanNext == OrderInv /\ [OrderNext]_orderVars => Clean'
<1> SUFFICES ASSUME OrderInv, [OrderNext]_orderVars, history'.mixed
             PROVE  history'.kept = {} /\ history'.repaid = {}
  BY DEF Clean
<1>0. OrderType /\ (history.mixed => history.kept = {} /\ history.repaid = {})
  BY DEF OrderInv, Clean
<1>1. CASE \E i \in Handlers : UpdateList(i)
  BY <1>0, <1>1, UpdateHistory
<1>2. CASE ~\E i \in Handlers : UpdateList(i)
  BY <1>0, <1>2, Forgets
<1> QED BY <1>1, <1>2

\* A pending handler was pending before the step, or has just been pressed.
LEMMA PendingMoves ==
    ASSUME OrderType, [OrderNext]_orderVars, NEW i \in Handlers, Pending(i)'
    PROVE  \/ /\ Pending(i) /\ handler'[i].loan = handler[i].loan /\ handler'[i].home = handler[i].home
              /\ handler'[i].at = "sign" => handler[i].at = "sign"
           \/ /\ \E l \in LoanIds : PressBorrow(i, l) /\ handler'[i].loan = l /\ handler'[i].home = phone
              /\ \A k \in Handlers : k # i => handler'[k] = handler[k]
<1>0. HandlerType /\ NoHandler.kind = "none" /\ NoHandler \in HandlerState
  BY NoJobType DEF OrderType, NoHandler
<1>1. CASE UNCHANGED handler
  BY <1>1 DEF Pending
<1>2. CASE Kill
  BY <1>0, <1>2 DEF Kill, Pending
<1>3. ASSUME NEW k \in Handlers, HandlerFails(k) \/ Store(k)
      PROVE  Pending(i) /\ handler'[i] = handler[i]
  <2>1. handler'[k] = NoHandler /\ \A n \in Handlers : n # k => handler'[n] = handler[n]
    BY <1>0, <1>3, HandlerUpdate DEF HandlerFails, Store
  <2> QED BY <1>0, <2>1 DEF Pending
<1>4. ASSUME NEW k \in Handlers, Confirm(k)
      PROVE  /\ Pending(i) /\ handler'[i].loan = handler[i].loan /\ handler'[i].home = handler[i].home
             /\ handler'[i].at = "sign" => handler[i].at = "sign"
  BY <1>0, <1>4, ConfirmEffect, HandlerUpdate DEF Pending, Confirm
<1>5. ASSUME NEW k \in Handlers, UpdateList(k)
      PROVE  Pending(i) /\ handler'[i] = handler[i]
  BY <1>0, <1>5, UpdateEffect, HandlerUpdate DEF Pending
<1>6. ASSUME NEW k \in Handlers, NEW l \in LoanIds, NEW kind \in {"borrow", "repay", "grace"},
             Press(k, kind, l), kind = "borrow" => PressBorrow(k, l)
      PROVE  \/ Pending(i) /\ handler'[i] = handler[i]
             \/ /\ PressBorrow(i, l) /\ handler'[i].loan = l /\ handler'[i].home = phone
                /\ \A n \in Handlers : n # i => handler'[n] = handler[n]
  <2>1. PICK r \in HandlerState :
          handler' = [handler EXCEPT ![k] = r] /\ r.kind = kind /\ r.home = phone /\ r.loan = l
    BY <1>6, PressEffect
  <2>2. handler'[k] = r /\ \A n \in Handlers : n # k => handler'[n] = handler[n]
    BY <1>0, <2>1, HandlerUpdate
  <2> QED BY <1>6, <2>1, <2>2 DEF Pending
<1>7. ASSUME NEW k \in Handlers, NEW l \in LoanIds,
             PressBorrow(k, l) \/ PressRepay(k, l) \/ PressGrace(k, l)
      PROVE  \E kind \in {"borrow", "repay", "grace"} :
                Press(k, kind, l) /\ (kind = "borrow" => PressBorrow(k, l))
  BY <1>7 DEF PressBorrow, PressRepay, PressGrace
<1>8. \/ UNCHANGED handler \/ Kill
      \/ \E k \in Handlers :
            \/ HandlerFails(k) \/ Confirm(k) \/ UpdateList(k) \/ Store(k)
            \/ \E l \in LoanIds : PressBorrow(k, l) \/ PressRepay(k, l) \/ PressGrace(k, l)
  BY DEF OrderNext, Elsewhere, Disconnect, Reload, SetHome, JobStep, ReadCache, Hydrate, FindLoans,
         Walk, Save, ShowLoans, HandlerStep, orderVars
<1> QED BY <1>1, <1>2, <1>3, <1>4, <1>5, <1>6, <1>7, <1>8

LEMMA BorrowInvNext == OrderInv /\ [OrderNext]_orderVars => BorrowInv'
<1> SUFFICES ASSUME OrderInv, [OrderNext]_orderVars, NEW i \in Handlers, Pending(i)'
             PROVE  /\ chain'[handler'[i].loan].home = handler'[i].home
                    /\ handler'[i].at = "sign" => /\ chain'[handler'[i].loan].status = "none"
                                                  /\ handler'[i].loan \notin history'.kept
                    /\ handler'[i].loan \notin history'.repaid
                    /\ \A k \in Handlers : Pending(k)' /\ k # i => handler'[k].loan # handler'[i].loan
  BY DEF BorrowInv
<1>0. /\ OrderType /\ ChainType /\ HandlerType /\ HistoryType /\ NoHome \notin Homes
      /\ BorrowInv /\ KeptInv /\ RepaidInv
  BY OrderAssumption DEF OrderInv, OrderType
<1>1. \A k \in Handlers : Pending(k) =>
        /\ handler[k].loan \in LoanIds /\ chain[handler[k].loan].home \in Homes
        /\ chain[handler[k].loan].home = handler[k].home
  BY <1>0 DEF BorrowInv, Pending, HandlerType, HandlerState
<1>2. \/ \E k \in Handlers : UpdateList(k)
      \/ history'.kept \subseteq history.kept /\ history'.repaid \subseteq history.repaid
  BY <1>0, Forgets
<1>3. ASSUME Pending(i), handler'[i].loan = handler[i].loan, handler'[i].home = handler[i].home,
             handler'[i].at = "sign" => handler[i].at = "sign"
      PROVE  /\ chain'[handler'[i].loan].home = handler'[i].home
             /\ handler'[i].at = "sign" => /\ chain'[handler'[i].loan].status = "none"
                                           /\ handler'[i].loan \notin history'.kept
             /\ handler'[i].loan \notin history'.repaid
  <2> DEFINE l == handler[i].loan
  <2>0. /\ l \in LoanIds /\ chain[l].home = handler[i].home /\ chain[l].home # NoHome
        /\ handler[i].at = "sign" => chain[l].status = "none" /\ l \notin history.kept
        /\ l \notin history.repaid
        /\ \A k \in Handlers : Pending(k) /\ k # i => handler[k].loan # l
    BY <1>0, <1>1, <1>3 DEF BorrowInv
  <2> HIDE DEF l
  <2>1. chain'[l].home = chain[l].home
    BY <1>0, <2>0, LoansMove
  <2>2. handler'[i].at = "sign" => chain'[l].status = "none"
    <3> SUFFICES ASSUME handler'[i].at = "sign" PROVE chain'[l].status = "none"
      OBVIOUS
    <3>1. chain[l].status = "none"
      BY <1>3, <2>0
    <3>2. ASSUME NEW k \in Handlers, Pending(k), handler[k].loan = l, handler'[k].at # "sign"
          PROVE  FALSE
      BY <2>0, <3>2
    <3> QED BY <1>0, <2>0, <3>1, <3>2, LoansMove
  <2>3. ASSUME NEW k \in Handlers, UpdateList(k)
        PROVE  (handler'[i].at = "sign" => l \notin history'.kept) /\ l \notin history'.repaid
    <3>1. handler[k].at = "list"
      BY <2>3 DEF UpdateList
    <3>2. handler[k].kind = "borrow" /\ handler[i].at = "sign" => handler[k].loan # l
      BY <2>0, <3>1 DEF Pending
    <3>3. ~Racing(k) /\ k # i => handler[i].at = "sign"
      BY <1>3 DEF Racing, Pending
    <3>4. handler[k].kind = "repay" => k # i
      BY <1>3 DEF Pending
    <3>5. chain[handler[k].loan] = [home |-> handler[k].home, status |-> "closed"]
          => chain[handler[k].loan].status = "closed"
      OBVIOUS
    <3> QED BY <1>0, <1>3, <2>0, <2>3, <3>2, <3>3, <3>4, <3>5, UpdateHistory
  <2>4. (handler'[i].at = "sign" => l \notin history'.kept) /\ l \notin history'.repaid
    BY <1>2, <1>3, <2>0, <2>3
  <2> QED BY <1>3, <2>0, <2>1, <2>2, <2>4 DEF l
<1>4. ASSUME NEW l \in LoanIds, PressBorrow(i, l), handler'[i].loan = l, handler'[i].home = phone,
             \A k \in Handlers : k # i => handler'[k] = handler[k]
      PROVE  /\ chain'[handler'[i].loan].home = handler'[i].home
             /\ chain'[handler'[i].loan].status = "none"
             /\ handler'[i].loan \notin history'.kept /\ handler'[i].loan \notin history'.repaid
             /\ \A k \in Handlers : Pending(k) /\ k # i => handler[k].loan # l
  <2>1. /\ chain[l].home = NoHome /\ chain'[l].home = phone /\ chain'[l].status = "none"
    BY <1>0, <1>4, BorrowEffect, ChainUpdate
  <2>2. history'.kept = history.kept /\ history'.repaid = history.repaid
    BY <1>0, <1>4, OverlappingEffect DEF PressBorrow, Press
  <2>3. l \notin history.kept
    BY <1>0, <2>1 DEF KeptInv
  <2>4. l \notin history.repaid
    <3>1. chain[l].status = "none"
      BY <1>0, <2>1 DEF ChainType, Entry
    <3> QED BY <1>0, <3>1 DEF RepaidInv
  <2>5. \A k \in Handlers : Pending(k) => handler[k].loan # l
    BY <1>0, <1>1, <2>1
  <2> QED BY <1>4, <2>1, <2>2, <2>3, <2>4, <2>5
<1>5. ASSUME NEW k \in Handlers, Pending(k)', k # i
      PROVE  handler'[k].loan # handler'[i].loan
  <2>1. CASE Pending(i) /\ handler'[i].loan = handler[i].loan
             /\ Pending(k) /\ handler'[k].loan = handler[k].loan
    BY <1>0, <1>5, <2>1 DEF BorrowInv
  <2>2. ASSUME NEW l \in LoanIds, PressBorrow(i, l), handler'[i].loan = l, handler'[i].home = phone,
               \A n \in Handlers : n # i => handler'[n] = handler[n]
        PROVE  handler'[k].loan # handler'[i].loan
    BY <1>4, <1>5, <2>2 DEF Pending
  <2>3. ASSUME NEW l \in LoanIds, PressBorrow(k, l), handler'[k].loan = l,
               \A n \in Handlers : n # k => handler'[n] = handler[n]
        PROVE  handler'[k].loan # handler'[i].loan
    <3>1. Pending(i) /\ handler'[i] = handler[i]
      BY <1>5, <2>3 DEF Pending
    <3>2. chain[l].home = NoHome
      BY <2>3 DEF PressBorrow
    <3> QED BY <1>0, <1>1, <2>3, <3>1, <3>2
  <2> QED BY <1>0, <1>5, <2>1, <2>2, <2>3, PendingMoves
<1> QED BY <1>0, <1>3, <1>4, <1>5, PendingMoves

\* A handler puts its loan on the list, or takes it off.
LEMMA ListedByUpdate ==
    ASSUME OrderInv, HomeInv', NEW i \in Handlers, UpdateList(i), NEW l \in history'.kept
    PROVE  /\ chain[l].home \in Homes /\ UNCHANGED chain
           /\ chain[l].status = "open" => Listed(l, chain[l].home)'
<1>0. /\ OrderType /\ JobType /\ HandlerType /\ ~Racing(i)
      /\ ~history'.mixed /\ ~history.mixed /\ ~Hydrating
      /\ history'.kept = IF handler[i].kind = "borrow" THEN history.kept \cup {handler[i].loan}
                         ELSE history.kept \cap orders'
  BY UpdateHistory DEF OrderInv, OrderType
<1>1. /\ orders' = Updated(i) /\ handler[i].at = "list" /\ UNCHANGED <<chain, phone, disk, job>>
  BY DEF UpdateList
<1>2. /\ handler[i].home = phone /\ phone \in Homes
  BY <1>0, <1>1 DEF OrderInv, HomeInv, HandlersAtHome, HandlerType, HandlerState
<1>3. \A k \in Handlers : k # i => handler[k].at \notin {"list", "store"}
  BY <1>0 DEF Racing
<1>4. (\A j \in Jobs : job[j] = NoJob) /\ NoJob.at = "idle"
  BY <1>0 DEF Racing, NoJob
<1>5. PICK r \in HandlerState :
        /\ handler' = [handler EXCEPT ![i] = r]
        /\ r.at = "store" /\ r.home = handler[i].home /\ r.list = orders'
  BY <1>0, UpdateEffect
<1>6. handler'[i] = r /\ \A k \in Handlers : k # i => handler'[k] = handler[k]
  BY <1>0, <1>5, HandlerUpdate
<1>7. \A h : InJobs(l, h)'
  BY <1>1, <1>4 DEF InJobs
<1>8. \A k \in Handlers : \A h : Storing(k, h)' <=> k = i /\ h = phone
  BY <1>2, <1>3, <1>5, <1>6 DEF Storing
<1>9. CASE handler[i].kind = "borrow" /\ l = handler[i].loan
  <2>1. chain[l].home = phone
    BY <1>1, <1>2, <1>9 DEF OrderInv, BorrowInv, Pending
  <2>2. l \in orders'
    BY <1>1, <1>9 DEF Updated
  <2> QED
    BY <1>1, <1>2, <1>5, <1>6, <1>7, <1>8, <2>1, <2>2
       DEF Listed, OnScreen, InHandlers, InStore
<1>10. CASE l \in history.kept /\ (l \in orders => l \in orders')
  <2>1. chain[l].home \in Homes /\ (chain[l].status = "open" => Listed(l, chain[l].home))
    BY <1>10 DEF OrderInv, KeptInv
  <2>2. ASSUME NEW h \in Homes, Listed(l, h) PROVE Listed(l, h)'
    <3>1. phone = h => l \in orders'
      BY <1>0, <1>10, <2>2 DEF Listed, OnScreen
    <3>2. OnScreen(l, h)'
      BY <1>1, <3>1 DEF OnScreen
    <3>3. InHandlers(l, h)'
      BY <1>5, <1>6, <1>8, <3>1 DEF InHandlers
    <3>4. \A k \in Handlers : ~Storing(k, h)
      BY <1>1, <1>3 DEF Storing
    <3>5. InStore(l, h)'
      BY <1>1, <2>2, <3>4 DEF Listed, InStore
    <3> QED BY <1>7, <3>2, <3>3, <3>5 DEF Listed
  <2> QED BY <1>1, <2>1, <2>2
<1> QED BY <1>0, <1>1, <1>9, <1>10 DEF Updated

\* Every other step keeps an open loan on the lists it is on.
LEMMA ListedStays ==
    ASSUME OrderInv, [OrderNext]_orderVars, ~\E i \in Handlers : UpdateList(i),
           NEW l \in LoanIds, l \in history.kept, l \in history'.kept,
           chain[l].status = "open", NEW h \in Homes, chain[l].home = h, Listed(l, h)
    PROVE  Listed(l, h)'
<1>0. /\ OrderType /\ ChainType /\ JobType /\ HandlerType /\ HistoryType /\ NoHome \notin Homes
      /\ chain[l] = [home |-> h, status |-> "open"]
  BY OrderAssumption DEF OrderInv, OrderType, ChainType, Entry
<1>1. JobsAtHome
  BY DEF OrderInv, Clean, HomeInv
<1>2. OnScreen(l, h) /\ InJobs(l, h) /\ InHandlers(l, h) /\ InStore(l, h)
  BY DEF Listed
\* Whatever is left alone lists it still.
<1>3. UNCHANGED <<phone, orders>> /\ (Hydrating => Hydrating') => OnScreen(l, h)'
  BY <1>2 DEF OnScreen
<1>4. UNCHANGED job => InJobs(l, h)' /\ (Hydrating => Hydrating')
  BY <1>2 DEF InJobs, Carried, At, Hydrating
<1>5. UNCHANGED handler => InHandlers(l, h)'
  BY <1>2 DEF InHandlers, Storing
<1>6. UNCHANGED <<disk, handler>> => InStore(l, h)'
  BY <1>2 DEF InStore, Storing
<1>7. ASSUME NEW j \in Jobs, NEW r \in JobState, job' = [job EXCEPT ![j] = r],
             r.home = h /\ r.at \notin {"idle", "cache"} =>
                l \in IF r.at \in {"scan", "walk"} \/ (r.kind = "hydration" /\ r.at = "apply")
                      THEN r.cached ELSE r.list
      PROVE  InJobs(l, h)' /\ (r.kind = job[j].kind => (Hydrating => Hydrating'))
  <2>1. job'[j] = r /\ \A k \in Jobs : k # j => job'[k] = job[k]
    BY <1>0, <1>7, JobUpdate
  <2> QED BY <1>2, <1>7, <2>1 DEF InJobs, Carried, At, Hydrating
<1>8. ASSUME NEW i \in Handlers, NEW r \in HandlerState, handler' = [handler EXCEPT ![i] = r],
             handler[i].at # "store", r.at # "store", UNCHANGED disk
      PROVE  InHandlers(l, h)' /\ InStore(l, h)'
  <2>1. handler'[i] = r /\ \A k \in Handlers : k # i => handler'[k] = handler[k]
    BY <1>0, <1>8, HandlerUpdate
  <2> QED BY <1>2, <1>8, <2>1 DEF InHandlers, InStore, Storing
<1>9. NoJob.at = "idle" /\ NoJob.kind = "none" /\ NoHandler.at = "idle"
  BY DEF NoJob, NoHandler
<1>10. CASE UNCHANGED <<phone, orders, disk, job, handler>>
  BY <1>3, <1>4, <1>5, <1>6, <1>10 DEF Listed
<1>11. CASE Disconnect
  BY <1>0, <1>4, <1>5, <1>6, <1>11 DEF Disconnect, Listed, OnScreen
<1>12. CASE Kill
  <2>1. \A i \in Handlers : l \notin Unstored(i)
    BY <1>0, <1>12, ExcusingEffect DEF Kill
  <2>2. l \in disk[h]
    BY <1>2, <2>1 DEF InStore, InHandlers, Storing, Unstored, Differ
  <2> QED
    BY <1>0, <1>9, <1>12, <2>2, NoJobType
       DEF Kill, Listed, OnScreen, InJobs, InHandlers, InStore, Storing
<1>13. ASSUME NEW k \in Homes, SetHome(k) PROVE Listed(l, h)'
  <2>1. /\ Hydrating'
        /\ \A j \in Jobs : job'[j] = job[j] \/ job'[j].at = "cache"
    BY <1>0, <1>13, SetHomeEffect
  <2>2. OnScreen(l, h)' /\ InJobs(l, h)'
    BY <1>2, <2>1 DEF OnScreen, InJobs, Carried, At
  <2> QED BY <1>5, <1>6, <1>13, <2>2 DEF SetHome, Listed
<1>14. CASE Reload
  <2>1. PICK j \in Jobs : /\ job[j] = NoJob /\ \A k \in Jobs : k # j => job'[k] = job[k]
                          /\ job'[j].at = "cache"
    BY <1>0, <1>14, ReloadEffect
  <2>2. InJobs(l, h)' /\ (Hydrating => Hydrating')
    BY <1>2, <1>9, <2>1 DEF InJobs, Carried, At, Hydrating
  <2> QED BY <1>3, <1>5, <1>6, <1>14, <2>2 DEF Reload, Listed
<1>15. ASSUME NEW j \in Jobs, JobStep(j) PROVE Listed(l, h)'
  <2>0. job[j] \in JobState /\ UNCHANGED <<phone, handler>>
    BY <1>0, <1>15 DEF JobType, JobStep, ReadCache, Hydrate, FindLoans, Walk, Save, ShowLoans
  <2>1. InHandlers(l, h)' /\ (UNCHANGED disk => InStore(l, h)')
    BY <1>5, <1>6, <2>0
  <2>2. CASE ReadCache(j)
    <3>1. PICK r \in JobState :
            /\ job' = [job EXCEPT ![j] = r]
            /\ r.kind = job[j].kind /\ r.home = job[j].home
            /\ r.at = IF r.kind = "load" THEN "scan" ELSE "apply"
            /\ \/ r.cached = disk[job[j].home] /\ \A i \in Handlers : handler[i].at # "store"
               \/ history'.kept = {} /\ history'.repaid = {}
      BY <1>0, <2>2, ReadCacheEffect
    <3>2. r.home = h => l \in r.cached
      BY <1>2, <3>1 DEF InStore, Storing
    <3>3. r.kind \in {"load", "hydration"}
      BY <2>0, <2>2, <3>1 DEF ReadCache, JobState
    <3>4. InJobs(l, h)' /\ (Hydrating => Hydrating')
      BY <1>7, <3>1, <3>2, <3>3
    <3> QED BY <1>3, <2>0, <2>1, <2>2, <3>4 DEF ReadCache, Listed
  <2>3. CASE Hydrate(j)
    <3>1. orders' = job[j].cached /\ job' = [job EXCEPT ![j] = NoJob] /\ UNCHANGED disk
      BY <2>3 DEF Hydrate
    <3>2. job[j].at = "apply" /\ Carried(j) = job[j].cached
      BY <2>3 DEF Hydrate, At, Carried
    <3>3. phone = h => l \in orders'
      BY <1>1, <1>2, <3>1, <3>2 DEF InJobs, JobsAtHome
    <3>4. InJobs(l, h)'
      BY <1>7, <1>9, <3>1, NoJobType
    <3> QED BY <2>0, <2>1, <3>1, <3>3, <3>4 DEF Listed, OnScreen
  <2>4. CASE FindLoans(j)
    <3>1. PICK found \in SUBSET TakenAt(job[j].home), r \in JobState :
            /\ job' = [job EXCEPT ![j] = r]
            /\ job[j].at = "scan" /\ r.kind = "load" /\ r.home = job[j].home
            /\ \/ /\ r.at = "save" /\ r.cached = {} /\ r.list = found
                  /\ \/ found = OpenAt(job[j].home) /\ UNCHANGED history
                     \/ Excusing(Differ(found, OpenAt(job[j].home)))
               \/ r.at = "walk" /\ r.cached = job[j].cached /\ r.list = job[j].list
      BY <1>0, <2>4, FindLoansEffect
    <3>2. r.home = h => l \in job[j].cached /\ l \in OpenAt(job[j].home)
      BY <1>0, <1>2, <3>1 DEF InJobs, Carried, OpenAt
    <3>3. job[j].kind = "load" /\ UNCHANGED <<orders, disk>>
      BY <2>4 DEF FindLoans, At
    <3>4. r.home = h /\ r.at = "save" => l \in r.list
      BY <1>0, <3>1, <3>2, ExcusingEffect DEF Differ
    <3>5. InJobs(l, h)' /\ (Hydrating => Hydrating')
      BY <1>7, <3>1, <3>2, <3>3, <3>4
    <3> QED BY <1>3, <2>0, <2>1, <3>3, <3>5 DEF Listed
  <2>5. CASE Walk(j)
    <3>1. PICK found \in SUBSET TakenAt(job[j].home), r \in JobState :
            /\ job' = [job EXCEPT ![j] = r]
            /\ job[j].at = "walk" /\ r.kind = "load" /\ r.home = job[j].home /\ r.at = "save"
            /\ r.cached = {} /\ r.list = IF found = {} THEN job[j].cached ELSE found
            /\ IF found \in {{}, OpenAt(job[j].home)} THEN UNCHANGED history
               ELSE Excusing(Differ(found, OpenAt(job[j].home)))
      BY <1>0, <2>5, WalkEffect
    <3>2. r.home = h => l \in job[j].cached /\ l \in OpenAt(job[j].home)
      BY <1>0, <1>2, <3>1 DEF InJobs, Carried, OpenAt
    <3>3. job[j].kind = "load" /\ UNCHANGED <<orders, disk>>
      BY <2>5 DEF Walk, At
    <3>4. r.home = h /\ found # {} => l \in found
      BY <1>0, <3>1, <3>2, ExcusingEffect DEF Differ
    <3>5. InJobs(l, h)' /\ (Hydrating => Hydrating')
      BY <1>7, <3>1, <3>2, <3>3, <3>4
    <3> QED BY <1>3, <2>0, <2>1, <3>3, <3>5 DEF Listed
  <2>6. CASE Save(j)
    <3>1. PICK r \in JobState :
            /\ job' = [job EXCEPT ![j] = r]
            /\ \/ r = NoJob
               \/ /\ r.kind = "load" /\ r.home = job[j].home /\ r.at = "apply"
                  /\ r.cached = job[j].cached /\ r.list = job[j].list
      BY <1>0, <2>6, SaveEffect
    <3>2. /\ job[j].kind = "load" /\ job[j].at \in {"save", "save again"}
          /\ UNCHANGED orders
          /\ UNCHANGED disk \/ disk' = [disk EXCEPT ![job[j].home] = job[j].list]
      BY <2>0, <2>6 DEF Save, JobState
    <3>3. job[j].home = h => l \in job[j].list
      BY <1>2, <3>2 DEF InJobs, Carried, At
    <3>4. InJobs(l, h)'
      BY <1>7, <1>9, <3>1, <3>3
    <3>5. Hydrating => Hydrating'
      BY <1>0, <3>1, <3>2, JobUpdate DEF Hydrating
    <3>6. InStore(l, h)'
      <4>1. CASE UNCHANGED disk
        BY <2>1, <4>1
      <4>2. CASE disk' = [disk EXCEPT ![job[j].home] = job[j].list]
        BY <1>0, <1>2, <2>0, <3>3, <4>2 DEF InStore, Storing, OrderType, PlaceType
      <4> QED BY <3>2, <4>1, <4>2
    <3> QED BY <1>3, <2>0, <2>1, <3>2, <3>4, <3>5, <3>6 DEF Listed
  <2>7. CASE ShowLoans(j)
    <3>1. PICK r \in JobState :
            /\ job' = [job EXCEPT ![j] = r]
            /\ r.kind = "load" /\ r.home = job[j].home /\ r.at = "save again" /\ r.list = job[j].list
      BY <1>0, <2>7, MovesOn DEF ShowLoans, At
    <3>2. orders' = job[j].list /\ UNCHANGED disk /\ job[j].at = "apply" /\ job[j].kind = "load"
      BY <2>7 DEF ShowLoans, At
    <3>3. job[j].home = h => l \in job[j].list
      BY <1>2, <3>2 DEF InJobs, Carried, At
    <3>4. InJobs(l, h)'
      BY <1>7, <3>1, <3>3
    <3>5. phone = h => l \in orders'
      BY <1>1, <3>2, <3>3 DEF JobsAtHome
    <3> QED BY <2>0, <2>1, <3>2, <3>4, <3>5 DEF Listed, OnScreen
  <2> QED BY <1>15, <2>2, <2>3, <2>4, <2>5, <2>6, <2>7 DEF JobStep
<1>16. ASSUME NEW i \in Handlers, HandlerFails(i) \/ Confirm(i) PROVE Listed(l, h)'
  <2>1. UNCHANGED <<phone, orders, disk, job>> /\ handler[i].at = "sign"
    BY <1>16 DEF HandlerFails, Confirm
  <2>2. \E r \in HandlerState : handler' = [handler EXCEPT ![i] = r] /\ r.at # "store"
    BY <1>0, <1>9, <1>16, ConfirmEffect, NoJobType DEF HandlerFails
  <2>3. InHandlers(l, h)' /\ InStore(l, h)'
    BY <1>8, <2>1, <2>2
  <2> QED BY <1>3, <1>4, <2>1, <2>3 DEF Listed
<1>17. ASSUME NEW i \in Handlers, Store(i) PROVE Listed(l, h)'
  <2>1. /\ UNCHANGED <<phone, orders, job>> /\ handler[i].at = "store"
        /\ \/ disk' = [disk EXCEPT ![handler[i].home] = handler[i].list]
           \/ UNCHANGED disk /\ Excusing(Unstored(i))
        /\ handler' = [handler EXCEPT ![i] = NoHandler]
    BY <1>17 DEF Store
  <2>2. handler'[i] = NoHandler /\ \A k \in Handlers : k # i => handler'[k] = handler[k]
    BY <1>0, <2>1, NoJobType, HandlerUpdate
  <2>3. InHandlers(l, h)'
    BY <1>2, <1>9, <2>2 DEF InHandlers, Storing
  <2>4. CASE handler[i].home = h
    <3>1. l \in handler[i].list
      BY <1>2, <2>1, <2>4 DEF InHandlers, Storing
    <3>2. InStore(l, h)'
      <4>1. CASE disk' = [disk EXCEPT ![handler[i].home] = handler[i].list]
        BY <1>0, <2>4, <3>1, <4>1 DEF InStore, OrderType, PlaceType
      <4>2. CASE UNCHANGED disk /\ Excusing(Unstored(i))
        BY <1>0, <2>1, <2>4, <3>1, <4>2, ExcusingEffect DEF InStore, Unstored, Differ
      <4> QED BY <2>1, <4>1, <4>2
    <3> QED BY <1>3, <1>4, <2>1, <2>3, <3>2 DEF Listed
  <2>5. CASE handler[i].home # h
    <3>1. disk'[h] = disk[h]
      BY <1>0, <2>1, <2>5 DEF OrderType, PlaceType
    <3>2. InStore(l, h)'
      BY <1>2, <2>2, <2>5, <3>1 DEF InStore, Storing
    <3> QED BY <1>3, <1>4, <2>1, <2>3, <3>2 DEF Listed
  <2> QED BY <2>4, <2>5
<1>18. ASSUME NEW i \in Handlers, NEW k \in LoanIds,
              PressBorrow(i, k) \/ PressRepay(i, k) \/ PressGrace(i, k)
       PROVE  Listed(l, h)'
  <2>1. PICK kind \in {"borrow", "repay", "grace"} : Press(i, kind, k)
    BY <1>18 DEF PressBorrow, PressRepay, PressGrace
  <2>2. handler[i].at # "store" /\ UNCHANGED <<phone, orders, disk, job>>
    BY <1>9, <2>1 DEF Press
  <2>3. \E r \in HandlerState : handler' = [handler EXCEPT ![i] = r] /\ r.at # "store"
    BY <1>0, <2>1, PressEffect
  <2>4. InHandlers(l, h)' /\ InStore(l, h)'
    BY <1>8, <2>2, <2>3
  <2> QED BY <1>3, <1>4, <2>2, <2>4 DEF Listed
<1> QED
  BY <1>10, <1>11, <1>12, <1>13, <1>14, <1>15, <1>16, <1>17, <1>18
     DEF OrderNext, HandlerStep, Elsewhere, orderVars

LEMMA KeptInvNext == OrderInv /\ [OrderNext]_orderVars => KeptInv'
<1> SUFFICES ASSUME OrderInv, [OrderNext]_orderVars, NEW l \in history'.kept
             PROVE  /\ chain'[l].home \in Homes
                    /\ chain'[l].status = "open" => Listed(l, chain[l].home)'
  BY DEF KeptInv
<1>0. OrderType /\ OrderType' /\ l \in LoanIds
  BY OrderTypeNext DEF OrderInv, OrderType, HistoryType
<1>1. CASE \E i \in Handlers : UpdateList(i)
  <2>1. PICK i \in Handlers : UpdateList(i)
    BY <1>1
  <2>2. UNCHANGED chain /\ chain[l].home \in Homes
        /\ (chain[l].status = "open" => Listed(l, chain[l].home)')
    BY <2>1, HomeInvNext, ListedByUpdate
  <2> QED BY <2>2
<1>2. CASE ~\E i \in Handlers : UpdateList(i)
  <2>1. l \in history.kept
    BY <1>0, <1>2, Forgets
  <2>2. chain[l].home \in Homes /\ (chain[l].status = "open" => Listed(l, chain[l].home))
    BY <2>1 DEF OrderInv, KeptInv
  <2>3. ~\E i \in Handlers : Pending(i) /\ handler[i].at = "sign" /\ handler[i].loan = l
    BY <2>1 DEF OrderInv, BorrowInv
  <2>4. chain'[l].home = chain[l].home /\ (chain'[l].status = "open" => chain[l].status = "open")
    BY <1>0, <2>2, <2>3, LoansMove, OrderAssumption
  <2>5. ASSUME NEW h \in Homes, chain[l].home = h, chain[l].status = "open", Listed(l, h)
        PROVE  Listed(l, h)'
    BY <1>0, <1>2, <2>1, <2>5, ListedStays
  <2> QED BY <2>2, <2>4, <2>5
<1> QED BY <1>1, <1>2

\* A handler has the last word on its loan.
LEMMA GoneByUpdate ==
    ASSUME OrderInv, NEW i \in Handlers, UpdateList(i), NEW l \in history'.repaid
    PROVE  chain'[l].status = "closed" /\ Gone(l)'
<1>0. /\ OrderType /\ JobType /\ HandlerType /\ ~Racing(i) /\ ~history.mixed
      /\ history'.repaid =
            IF /\ handler[i].kind = "repay"
               /\ chain[handler[i].loan] = [home |-> handler[i].home, status |-> "closed"]
            THEN history.repaid \cup {handler[i].loan} ELSE history.repaid
  BY UpdateHistory DEF OrderInv, OrderType
<1>1. /\ orders' = Updated(i) /\ handler[i].at = "list" /\ UNCHANGED <<chain, phone, disk, job>>
  BY DEF UpdateList
<1>2. handler[i].home = phone
  BY <1>0, <1>1 DEF OrderInv, HomeInv, HandlersAtHome
<1>3. \A k \in Handlers : k # i => handler[k].at \notin {"list", "store"}
  BY <1>0 DEF Racing
<1>4. (\A j \in Jobs : job[j] = NoJob) /\ NoJob.cached = {} /\ NoJob.list = {}
  BY <1>0 DEF Racing, NoJob
<1>5. PICK r \in HandlerState :
        /\ handler' = [handler EXCEPT ![i] = r]
        /\ r.at = "store" /\ r.home = handler[i].home /\ r.list = orders'
  BY <1>0, UpdateEffect
<1>6. handler'[i] = r /\ \A k \in Handlers : k # i => handler'[k] = handler[k]
  BY <1>0, <1>5, HandlerUpdate
<1>7. GoneFromJobs(l)'
  BY <1>1, <1>4 DEF GoneFromJobs
<1>8. l \notin orders' => GoneFromHandlers(l)'
  BY <1>3, <1>5, <1>6 DEF GoneFromHandlers
<1>9. CASE l \in history.repaid
  <2>1. chain[l].status = "closed" /\ Gone(l)
    BY <1>9 DEF OrderInv, RepaidInv
  <2>2. handler[i].kind = "borrow" => handler[i].loan # l
    BY <1>1, <1>9 DEF OrderInv, BorrowInv, Pending
  <2>3. l \notin orders'
    BY <1>1, <2>1, <2>2 DEF Gone, Updated
  <2>4. \A h \in Homes : l \notin disk[h]
    BY <1>1, <1>3, <2>1 DEF Gone, GoneFromStore, Storing
  <2>5. GoneFromStore(l)'
    BY <1>1, <2>4 DEF GoneFromStore
  <2> QED BY <1>1, <1>7, <1>8, <2>1, <2>3, <2>5 DEF Gone
<1>10. CASE /\ handler[i].kind = "repay" /\ l = handler[i].loan
            /\ chain[l] = [home |-> handler[i].home, status |-> "closed"]
  <2>1. l \notin orders'
    BY <1>1, <1>10 DEF Updated
  <2>2. chain[l].home = phone /\ chain[l].status = "closed"
    BY <1>2, <1>10
  <2>3. \A h \in Homes : l \in disk[h] => h = phone
    BY <1>0, <2>2 DEF OrderInv, HomeInv, StoredAtHome, Owned
  <2>4. GoneFromStore(l)'
    BY <1>1, <1>2, <1>5, <1>6, <2>3 DEF GoneFromStore, Storing
  <2> QED BY <1>1, <1>7, <1>8, <2>1, <2>2, <2>4 DEF Gone
<1> QED BY <1>0, <1>9, <1>10

\* Nothing brings a repaid loan back.
LEMMA GoneStays ==
    ASSUME OrderInv, [OrderNext]_orderVars, ~\E i \in Handlers : UpdateList(i),
           NEW l \in LoanIds, l \in history.repaid, l \in history'.repaid,
           chain[l].status = "closed", Gone(l)
    PROVE  Gone(l)'
<1>0. /\ OrderType /\ ChainType /\ PlaceType /\ JobType /\ HandlerType /\ HistoryType
  BY DEF OrderInv, OrderType
<1>1. l \notin orders /\ GoneFromJobs(l) /\ GoneFromHandlers(l) /\ GoneFromStore(l)
  BY DEF Gone
\* Whatever is left alone does without it still.
<1>2. UNCHANGED job => GoneFromJobs(l)'
  BY <1>1 DEF GoneFromJobs
<1>3. UNCHANGED handler => GoneFromHandlers(l)'
  BY <1>1 DEF GoneFromHandlers
<1>4. UNCHANGED <<disk, handler>> => GoneFromStore(l)'
  BY <1>1 DEF GoneFromStore, Storing
<1>5. ASSUME NEW j \in Jobs, NEW r \in JobState, job' = [job EXCEPT ![j] = r],
             l \notin r.cached, l \notin r.list
      PROVE  GoneFromJobs(l)'
  <2>1. job'[j] = r /\ \A k \in Jobs : k # j => job'[k] = job[k]
    BY <1>0, <1>5, JobUpdate
  <2> QED BY <1>1, <1>5, <2>1 DEF GoneFromJobs
<1>6. ASSUME NEW i \in Handlers, NEW r \in HandlerState, handler' = [handler EXCEPT ![i] = r],
             handler[i].at # "store", r.at # "store", UNCHANGED disk
      PROVE  GoneFromHandlers(l)' /\ GoneFromStore(l)'
  <2>1. handler'[i] = r /\ \A k \in Handlers : k # i => handler'[k] = handler[k]
    BY <1>0, <1>6, HandlerUpdate
  <2> QED BY <1>1, <1>6, <2>1 DEF GoneFromHandlers, GoneFromStore, Storing
<1>7. /\ NoJob.cached = {} /\ NoJob.list = {} /\ NoHandler.at = "idle"
  BY DEF NoJob, NoHandler
<1>8. \A h : l \notin OpenAt(h)
  BY DEF OpenAt
<1>9. CASE UNCHANGED <<orders, disk, job, handler>>
  BY <1>1, <1>2, <1>3, <1>4, <1>9 DEF Gone
<1>10. CASE Disconnect
  BY <1>1, <1>2, <1>3, <1>4, <1>10 DEF Disconnect, Gone
<1>11. CASE Kill
  <2>1. \A i \in Handlers : l \notin Unstored(i)
    BY <1>0, <1>11, ExcusingEffect DEF Kill
  <2>2. \A h \in Homes : l \notin disk[h]
    BY <1>1, <2>1 DEF GoneFromStore, GoneFromHandlers, Storing, Unstored, Differ
  <2> QED
    BY <1>0, <1>7, <1>11, <2>2, NoJobType
       DEF Kill, Gone, GoneFromJobs, GoneFromHandlers, GoneFromStore
<1>12. CASE Reload \/ \E h \in Homes : SetHome(h)
  <2>1. UNCHANGED <<orders, disk, handler>>
    BY <1>12 DEF Reload, SetHome
  <2>2. \A j \in Jobs : job'[j] = job[j] \/ (job'[j].cached = {} /\ job'[j].list = {})
    BY <1>0, <1>12, ReloadEffect, SetHomeEffect
  <2>3. GoneFromJobs(l)'
    BY <1>1, <2>2 DEF GoneFromJobs
  <2> QED BY <1>1, <1>3, <1>4, <2>1, <2>3 DEF Gone
<1>13. ASSUME NEW j \in Jobs, JobStep(j) PROVE Gone(l)'
  <2>0. job[j] \in JobState /\ UNCHANGED handler
    BY <1>0, <1>13 DEF JobType, JobStep, ReadCache, Hydrate, FindLoans, Walk, Save, ShowLoans
  <2>1. /\ l \notin job[j].cached /\ l \notin job[j].list /\ GoneFromHandlers(l)'
        /\ UNCHANGED disk => GoneFromStore(l)'
    BY <1>1, <1>3, <1>4, <2>0 DEF GoneFromJobs
  <2>2. CASE ReadCache(j)
    <3>1. PICK r \in JobState :
            /\ job' = [job EXCEPT ![j] = r] /\ r.list = job[j].list
            /\ \/ r.cached = disk[job[j].home] /\ \A i \in Handlers : handler[i].at # "store"
               \/ history'.kept = {} /\ history'.repaid = {}
      BY <1>0, <2>2, ReadCacheEffect
    <3>2. job[j].home \in Homes /\ UNCHANGED <<orders, disk>>
      BY <2>0, <2>2 DEF ReadCache, JobState
    <3>3. l \notin r.cached
      BY <1>1, <3>1, <3>2 DEF GoneFromStore, Storing
    <3> QED BY <1>1, <1>5, <2>1, <3>1, <3>2, <3>3 DEF Gone
  <2>3. CASE Hydrate(j)
    BY <1>5, <1>7, <2>1, <2>3, NoJobType DEF Hydrate, Gone
  <2>4. CASE FindLoans(j)
    <3>1. PICK found \in SUBSET TakenAt(job[j].home), r \in JobState :
            /\ job' = [job EXCEPT ![j] = r]
            /\ \/ /\ r.at = "save" /\ r.cached = {} /\ r.list = found
                  /\ \/ found = OpenAt(job[j].home) /\ UNCHANGED history
                     \/ Excusing(Differ(found, OpenAt(job[j].home)))
               \/ /\ r.at = "walk" /\ r.cached = job[j].cached /\ r.list = job[j].list
                  /\ UNCHANGED history \/ Excusing({})
      BY <1>0, <2>4, FindLoansEffect
    <3>2. l \notin r.cached /\ l \notin r.list
      BY <1>0, <1>8, <2>1, <3>1, ExcusingEffect DEF Differ
    <3>3. UNCHANGED <<orders, disk>>
      BY <2>4 DEF FindLoans
    <3> QED BY <1>1, <1>5, <2>1, <3>1, <3>2, <3>3 DEF Gone
  <2>5. CASE Walk(j)
    <3>1. PICK found \in SUBSET TakenAt(job[j].home), r \in JobState :
            /\ job' = [job EXCEPT ![j] = r]
            /\ r.cached = {} /\ r.list = IF found = {} THEN job[j].cached ELSE found
            /\ IF found \in {{}, OpenAt(job[j].home)} THEN UNCHANGED history
               ELSE Excusing(Differ(found, OpenAt(job[j].home)))
      BY <1>0, <2>5, WalkEffect
    <3>2. l \notin found
      BY <1>0, <1>8, <3>1, ExcusingEffect DEF Differ
    <3> QED BY <1>1, <1>5, <2>1, <2>5, <3>1, <3>2 DEF Walk, Gone
  <2>6. CASE Save(j)
    <3>1. PICK r \in JobState :
            /\ job' = [job EXCEPT ![j] = r]
            /\ r = NoJob \/ (r.cached = job[j].cached /\ r.list = job[j].list)
      BY <1>0, <2>6, SaveEffect
    <3>2. /\ UNCHANGED orders
          /\ UNCHANGED disk \/ disk' = [disk EXCEPT ![job[j].home] = job[j].list]
      BY <2>6 DEF Save
    <3>3. GoneFromStore(l)'
      <4>1. CASE UNCHANGED disk
        BY <2>1, <4>1
      <4>2. CASE disk' = [disk EXCEPT ![job[j].home] = job[j].list]
        BY <1>0, <1>1, <2>0, <2>1, <4>2 DEF GoneFromStore, Storing, PlaceType
      <4> QED BY <3>2, <4>1, <4>2
    <3> QED BY <1>1, <1>5, <1>7, <2>1, <3>1, <3>2, <3>3 DEF Gone
  <2>7. CASE ShowLoans(j)
    <3>1. PICK r \in JobState :
            /\ job' = [job EXCEPT ![j] = r]
            /\ r.cached = job[j].cached /\ r.list = job[j].list
      BY <1>0, <2>7, MovesOn DEF ShowLoans, At
    <3> QED BY <1>5, <2>1, <2>7, <3>1 DEF ShowLoans, Gone
  <2> QED BY <1>13, <2>2, <2>3, <2>4, <2>5, <2>6, <2>7 DEF JobStep
<1>14. ASSUME NEW i \in Handlers, HandlerFails(i) \/ Confirm(i) PROVE Gone(l)'
  <2>1. UNCHANGED <<orders, disk, job>> /\ handler[i].at = "sign"
    BY <1>14 DEF HandlerFails, Confirm
  <2>2. \E r \in HandlerState : handler' = [handler EXCEPT ![i] = r] /\ r.at # "store"
    BY <1>0, <1>7, <1>14, ConfirmEffect, NoJobType DEF HandlerFails
  <2>3. GoneFromHandlers(l)' /\ GoneFromStore(l)'
    BY <1>6, <2>1, <2>2
  <2> QED BY <1>1, <1>2, <2>1, <2>3 DEF Gone
<1>15. ASSUME NEW i \in Handlers, Store(i) PROVE Gone(l)'
  <2>1. /\ UNCHANGED <<orders, job>> /\ handler[i].at = "store"
        /\ \/ disk' = [disk EXCEPT ![handler[i].home] = handler[i].list]
           \/ UNCHANGED disk /\ Excusing(Unstored(i))
        /\ handler' = [handler EXCEPT ![i] = NoHandler]
    BY <1>15 DEF Store
  <2>2. handler'[i] = NoHandler /\ \A k \in Handlers : k # i => handler'[k] = handler[k]
    BY <1>0, <2>1, NoJobType, HandlerUpdate
  <2>3. GoneFromHandlers(l)'
    BY <1>1, <1>7, <2>2 DEF GoneFromHandlers
  <2>4. l \notin handler[i].list
    BY <1>1, <2>1 DEF GoneFromHandlers
  <2>5. ASSUME NEW h \in Homes, l \in disk'[h] PROVE \E k \in Handlers : Storing(k, h)'
    <3>1. h # handler[i].home /\ l \in disk[h]
      <4>1. CASE disk' = [disk EXCEPT ![handler[i].home] = handler[i].list]
        BY <1>0, <2>4, <2>5, <4>1 DEF PlaceType
      <4>2. CASE UNCHANGED disk /\ Excusing(Unstored(i))
        BY <1>0, <2>1, <2>4, <2>5, <4>2, ExcusingEffect DEF Unstored, Differ
      <4> QED BY <2>1, <4>1, <4>2
    <3>2. PICK k \in Handlers : Storing(k, h)
      BY <1>1, <3>1 DEF GoneFromStore
    <3>3. k # i
      BY <3>1, <3>2 DEF Storing
    <3> QED BY <2>2, <3>2, <3>3 DEF Storing
  <2>6. GoneFromStore(l)'
    BY <2>5 DEF GoneFromStore
  <2> QED BY <1>1, <1>2, <2>1, <2>3, <2>6 DEF Gone
<1>16. ASSUME NEW i \in Handlers, NEW k \in LoanIds,
              PressBorrow(i, k) \/ PressRepay(i, k) \/ PressGrace(i, k)
       PROVE  Gone(l)'
  <2>1. PICK kind \in {"borrow", "repay", "grace"} : Press(i, kind, k)
    BY <1>16 DEF PressBorrow, PressRepay, PressGrace
  <2>2. handler[i].at # "store" /\ UNCHANGED <<orders, disk, job>>
    BY <1>7, <2>1 DEF Press
  <2>3. \E r \in HandlerState : handler' = [handler EXCEPT ![i] = r] /\ r.at # "store"
    BY <1>0, <2>1, PressEffect
  <2>4. GoneFromHandlers(l)' /\ GoneFromStore(l)'
    BY <1>6, <2>2, <2>3
  <2> QED BY <1>1, <1>2, <2>2, <2>4 DEF Gone
<1> QED
  BY <1>9, <1>10, <1>11, <1>12, <1>13, <1>14, <1>15, <1>16
     DEF OrderNext, HandlerStep, Elsewhere, orderVars

LEMMA RepaidInvNext == OrderInv /\ [OrderNext]_orderVars => RepaidInv'
<1> SUFFICES ASSUME OrderInv, [OrderNext]_orderVars, NEW l \in history'.repaid
             PROVE  chain'[l].status = "closed" /\ Gone(l)'
  BY DEF RepaidInv
<1>0. OrderType /\ OrderType' /\ l \in LoanIds
  BY OrderTypeNext DEF OrderInv, OrderType, HistoryType
<1>1. CASE \E i \in Handlers : UpdateList(i)
  BY <1>1, GoneByUpdate
<1>2. CASE ~\E i \in Handlers : UpdateList(i)
  <2>1. l \in history.repaid
    BY <1>0, <1>2, Forgets
  <2>2. chain[l].status = "closed" /\ Gone(l)
    BY <2>1 DEF OrderInv, RepaidInv
  <2>3. chain[l].home # NoHome
    BY <1>0, <2>2 DEF OrderType, ChainType, Entry
  <2>4. chain'[l].status = "closed"
    BY <1>0, <2>2, <2>3, LoansMove
  <2> QED BY <1>0, <1>2, <2>1, <2>2, <2>4, GoneStays
<1> QED BY <1>1, <1>2

LEMMA OrderInvInit == OrderInit => OrderInv
<1> SUFFICES ASSUME OrderInit PROVE OrderInv
  OBVIOUS
<1>1. OrderType
  BY OrderTypeInit
<1>2. /\ disk = [h \in Homes |-> {}] /\ orders = {}
      /\ history.kept = {} /\ history.repaid = {}
      /\ \A j \in Jobs : job[j].at = "idle"
      /\ \A i \in Handlers : handler[i].at = "idle"
  BY DEF OrderInit, NoJob, NoHandler
<1>3. HomeInv
  BY <1>2 DEF HomeInv, StoredAtHome, JobsAtHome, HandlersAtHome, ListAtHome, Owned
<1>4. BorrowInv /\ KeptInv /\ RepaidInv /\ Clean
  BY <1>2 DEF BorrowInv, Pending, KeptInv, RepaidInv, Clean
<1> QED BY <1>1, <1>3, <1>4 DEF OrderInv

LEMMA OrderInvNext == OrderInv /\ [OrderNext]_orderVars => OrderInv'
<1> SUFFICES ASSUME OrderInv, [OrderNext]_orderVars PROVE OrderInv'
  OBVIOUS
<1>1. OrderType'
  BY OrderTypeNext DEF OrderInv
<1> QED
  BY <1>1, HomeInvNext, BorrowInvNext, KeptInvNext, RepaidInvNext, CleanNext DEF OrderInv

\* Through any number of homes, moves and failures, a stored list holds loans
\* of its own home only, while no move has come in mid-course.
THEOREM StoredOrdersStayHome == OrderSpec => []OrdersStayHome
<1>1. OrderInit => OrderInv
  BY OrderInvInit
<1>2. OrderInv /\ [OrderNext]_orderVars => OrderInv'
  BY OrderInvNext
<1>3. OrderInv => OrdersStayHome
  BY DEF OrderInv, HomeInv, StoredAtHome, Owned, OrdersStayHome
<1> QED BY <1>1, <1>2, <1>3, PTL DEF OrderSpec

\* What the phone did itself its store does not forget, for any number of
\* loads, hydrations and handlers side by side.
THEOREM StoreRemembersDealings == OrderSpec => []StoreMatchesDealings
<1>1. OrderInit => OrderInv
  BY OrderInvInit
<1>2. OrderInv /\ [OrderNext]_orderVars => OrderInv'
  BY OrderInvNext
<1>3. OrderInv => StoreMatchesDealings
  <2> SUFFICES ASSUME OrderInv, Written PROVE
        /\ \A l \in history.kept : chain[l].status = "open" => l \in disk[chain[l].home]
        /\ \A l \in history.repaid : \A h \in Homes : l \notin disk[h]
    BY DEF StoreMatchesDealings
  <2>1. \A i \in Handlers, h \in Homes : ~Storing(i, h)
    BY DEF Written, Storing
  <2> QED
    BY <2>1 DEF OrderInv, KeptInv, Listed, InStore, RepaidInv, Gone, GoneFromStore
<1> QED BY <1>1, <1>2, <1>3, PTL DEF OrderSpec

-----------------------------------------------------------------------------
(* The figures.                                                            *)

Plans == {Idle.plan} \cup Loads \cup Handlings

\* A group whose answer will include every transaction executed by then, and
\* will be shown.
Fresh(group) ==
    Asks(group) /\ group.shown /\ (figure \in Cacheable => group.forced)

WillReadAfresh(t) ==
    /\ task[t].at \in {"sent", "await"}
    /\ \E k \in DOMAIN task[t].plan.reads :
           k > task[t].step /\ Fresh(task[t].plan.reads[k])

Hold == [at : {"none", "awaits", "got"}, from : Tasks \cup {NoOne}, value : Nat]
TaskState ==
    [plan : Plans, at : {"idle", "wallet", "sent", "await"}, step : Nat, hold : Hold,
     tx : Nat]
Request == [at : {"none", "asked", "tokens", "read"}, value : Nat]
CacheState == [value : Nat, recent : BOOLEAN, inflight : Tasks \cup {NoOne}]

FigureType ==
    /\ figure \in Figures /\ sent \in Nat
    /\ task \in [Tasks -> TaskState]
    /\ reading \in [Tasks -> Request]
    /\ cache \in CacheState
    /\ screen \in [seen : Nat, added : SUBSET Nat]
    /\ dealt \subseteq Nat
    /\ tangled \in BOOLEAN

\* Nobody includes a transaction that was not sent yet.
UpToSent ==
    /\ cache.value <= sent /\ screen.seen <= sent
    /\ \A x \in screen.added \cup dealt : x <= sent
    /\ \A t \in Tasks : reading[t].value <= sent

\* A task holds the figure exactly while the group it awaits asks for it, waits
\* only for a request there is, and for its own if it has made one.
InOrder(t) ==
    /\ task[t].at \in {"wallet", "sent"} => task[t].step = 0 /\ task[t].plan \in Handlings
    /\ task[t].at = "await" =>
           /\ task[t].step \in DOMAIN task[t].plan.reads
           /\ Holds(t) <=> Asks(task[t].plan.reads[task[t].step])
    /\ Holds(t) => task[t].at = "await"
    /\ task[t].hold.at = "none" => task[t].hold = NoHold
    /\ task[t].hold.at = "awaits" =>
           task[t].hold.from \in Tasks /\ reading[task[t].hold.from].at # "none"
    /\ task[t].hold.at = "got" => task[t].hold.value <= sent
    /\ task[t].tx <= sent
    /\ reading[t].at # "none" => task[t].hold.at = "awaits" /\ task[t].hold.from = t

Ordered ==
    /\ \A t \in Tasks : InOrder(t)
    /\ cache.inflight # NoOne =>
           figure \in Cacheable /\ reading[cache.inflight].at # "none"

\* Of a figure that is cached all who hold it hold what the cache has or waits
\* for; of another there is one holder.
OneRead ==
    ~tangled =>
        IF figure \in Cacheable
        THEN \A t \in Tasks : Holds(t) =>
                IF task[t].hold.at = "awaits" THEN cache.inflight = task[t].hold.from
                ELSE cache.inflight = NoOne /\ task[t].hold.value = cache.value
        ELSE \A t, u \in Tasks : Holds(t) /\ Holds(u) => t = u

\* What will be worked out is not on the screen yet, and nobody reads meanwhile.
AdjustsAlone ==
    ~tangled => \A t \in Tasks : WillAdjust(t) =>
        ~Meets(t) /\ screen.seen < task[t].tx /\ task[t].tx \notin screen.added

\* What t holds or will get includes the transaction.
Carries(t, x) ==
    IF task[t].hold.at = "got" THEN x <= task[t].hold.value
    ELSE \/ reading[task[t].hold.from].at = "asked"
         \/ x <= reading[task[t].hold.from].value

WillShow(t) == Holds(t) /\ task[t].plan.reads[task[t].step].shown

ShownOnce(x) == (x <= screen.seen) # (x \in screen.added)

\* The transaction is on the screen or about to be, and nothing that is held or
\* may be taken from the cache would take it away.
Current(x) ==
    /\ ShownOnce(x) \/ \E t \in Tasks : WillShow(t)
    /\ \A t \in Tasks : Holds(t) => Carries(t, x)
    /\ figure \in Cacheable /\ cache.recent /\ cache.inflight = NoOne => x <= cache.value

LookedAfter ==
    ~tangled =>
        \/ \E t \in Tasks : WillReadAfresh(t)
        \/ \A x \in dealt : Current(x) \/ \E t \in Tasks : WillAdjust(t) /\ task[t].tx = x

FigureInv ==
    FigureType /\ UpToSent /\ Ordered /\ OneRead /\ AdjustsAlone /\ LookedAfter

-----------------------------------------------------------------------------
LEMMA FigureInvHolds == FigureInv => DealingsShowOnce
<1> SUFFICES ASSUME FigureInv, ~tangled,
                    \A t \in Tasks : ~(Holds(t) \/ WillAdjust(t) \/ WillRead(t)),
                    NEW x \in dealt
             PROVE  ShownOnce(x)
  BY Zenon DEF DealingsShowOnce, ShownOnce
<1>1. \A t \in Tasks : ~WillReadAfresh(t)
  BY DEF WillReadAfresh, WillRead, Fresh
<1>2. Current(x)
  BY <1>1 DEF FigureInv, LookedAfter
<1> QED BY <1>2 DEF Current, WillShow

LEMMA NumberedReads ==
    ASSUME NEW g, NEW h
    PROVE  /\ Len(<<>>) = 0 /\ DOMAIN <<>> = 1..0
           /\ Len(<<g>>) = 1 /\ DOMAIN <<g>> = 1..1 /\ <<g>>[1] = g
           /\ Len(<<g, h>>) = 2 /\ DOMAIN <<g, h>> = 1..2
           /\ <<g, h>>[1] = g /\ <<g, h>>[2] = h
OBVIOUS

\* What all plans have in common: a figure is read once or worked out.
PlanInOrder(plan) ==
    /\ Len(plan.reads) \in Nat /\ DOMAIN plan.reads = 1..Len(plan.reads)
    /\ plan.reads = <<>> <=> Len(plan.reads) = 0
    /\ \A j, k \in DOMAIN plan.reads :
           Asks(plan.reads[j]) /\ Asks(plan.reads[k]) => j = k
    /\ Adjusts(plan) => plan.reads = <<>> /\ figure \notin Cacheable

LEMMA PlansInOrder == ASSUME NEW plan \in Plans PROVE PlanInOrder(plan)
<1>1. ASSUME NEW adjusts, plan = Plan(adjusts, <<>>), adjusts \cap Cacheable = {}
      PROVE  PlanInOrder(plan)
  BY <1>1 DEF Plan, PlanInOrder, Adjusts, Cacheable
<1>2. ASSUME NEW group, plan = Plan({}, <<group>>)
      PROVE  PlanInOrder(plan)
  BY <1>2 DEF Plan, PlanInOrder, Adjusts
<1>3. ASSUME NEW first, NEW second, plan = Plan({}, <<first, second>>),
             first.asks \cap second.asks = {}
      PROVE  PlanInOrder(plan)
  BY <1>3 DEF Plan, PlanInOrder, Adjusts, Asks
<1>4. CASE plan = Idle.plan
  BY <1>1, <1>4 DEF Idle
<1>5. CASE plan \in {handleRepay, handleCreatePawnOffer, handleFundPawnOffer}
  BY <1>1, <1>5 DEF handleRepay, handleCreatePawnOffer, handleFundPawnOffer, Cacheable
<1>6. CASE plan \in {refreshWalletAssets, fetchLiveUserOrders, handleBorrow,
                     handleCancelPawnOffer, handleDepositLiquidity}
  BY <1>2, <1>6 DEF refreshWalletAssets, fetchLiveUserOrders, handleBorrow,
                    handleCancelPawnOffer, handleDepositLiquidity
<1>7. CASE plan \in {loadProtocolData, handleRepayPawnOffer, handleCreatePool,
                     handleClaimYield, handleStakeSkr, handleUnstakeSkr}
  BY <1>3, <1>7 DEF loadProtocolData, handleRepayPawnOffer, handleCreatePool,
                    handleClaimYield, handleStakeSkr, handleUnstakeSkr, Read, Forced
<1> QED BY <1>4, <1>5, <1>6, <1>7 DEF Plans, Loads, Handlings

\* A handler that looks after the figure and does not work it out reads it
\* afresh; one that does not look after it never does.
GroupIsFresh(group) == group.shown /\ (group.forced \/ group.asks \cap Cacheable = {})

LEMMA HandlersLook ==
    ASSUME NEW plan \in Handlings
    PROVE  /\ LooksAfter(plan) /\ ~Adjusts(plan) =>
                  \E k \in DOMAIN plan.reads : Fresh(plan.reads[k])
           /\ ~LooksAfter(plan) => \A k \in DOMAIN plan.reads : ~Fresh(plan.reads[k])
<1>1. CASE plan = handleDepositLiquidity
  <2>1. plan.reads = <<Read({"pools"})>> /\ plan.adjusts = {}
    BY <1>1 DEF handleDepositLiquidity, Plan
  <2>2. ~Fresh(Read({"pools"}))
    BY DEF Fresh, Asks, Read, Cacheable
  <2> QED BY <1>1, <2>1, <2>2 DEF LooksAfter, Adjusts
<1>2. CASE plan # handleDepositLiquidity
  <2>1. ASSUME NEW k \in DOMAIN plan.reads
        PROVE  GroupIsFresh(plan.reads[k])
    <3>1. GroupIsFresh(Read({"assets"})) /\ GroupIsFresh(Read({"profile"}))
      BY DEF GroupIsFresh, Read, Cacheable
    <3>2. \A f : GroupIsFresh(Forced(f))
      BY DEF GroupIsFresh, Forced, Read
    <3>3. CASE plan \in {handleRepay, handleCreatePawnOffer, handleFundPawnOffer}
      BY <3>3 DEF handleRepay, handleCreatePawnOffer, handleFundPawnOffer, Plan
    <3>4. CASE plan \in {handleBorrow, handleCancelPawnOffer}
      BY <3>1, <3>4 DEF handleBorrow, handleCancelPawnOffer, refreshWalletAssets, Plan
    <3>5. CASE plan \in {handleRepayPawnOffer, handleStakeSkr, handleUnstakeSkr}
      BY <3>1, <3>5 DEF handleRepayPawnOffer, handleStakeSkr, handleUnstakeSkr, Plan
    <3>6. CASE plan \in {handleCreatePool, handleClaimYield}
      BY <3>1, <3>2, <3>6 DEF handleCreatePool, handleClaimYield, Plan
    <3> QED BY <1>2, <3>3, <3>4, <3>5, <3>6 DEF Handlings
  <2>2. ASSUME NEW k \in DOMAIN plan.reads, Asks(plan.reads[k])
        PROVE  Fresh(plan.reads[k])
    BY <2>1, <2>2 DEF GroupIsFresh, Fresh, Asks
  <2> QED BY <1>2, <2>2 DEF LooksAfter, Fresh
<1> QED BY <1>1, <1>2

\* Holding, in terms of what is held.
LEMMA Holding ==
    ASSUME FigureType, NEW t \in Tasks, InOrder(t)
    PROVE  /\ Holds(t) <=> task[t].hold.at # "none"
           /\ Holds(t) => task[t].hold.at \in {"awaits", "got"}
           /\ task[t] \in TaskState /\ task[t].hold \in Hold /\ reading[t] \in Request
<1>1. task[t] \in TaskState /\ reading[t] \in Request
  BY DEF FigureType
<1>2. task[t].hold \in Hold /\ task[t].hold.at \in {"none", "awaits", "got"}
  BY <1>1 DEF TaskState, Hold
<1> QED BY <1>1, <1>2 DEF InOrder, Holds, NoHold

\* The task t is replaced by `next`.
Becomes(t, next) == task' = [task EXCEPT ![t] = next]

LEMMA Became ==
    ASSUME FigureType, NEW t \in Tasks, NEW next \in TaskState, Becomes(t, next)
    PROVE  /\ task' \in [Tasks -> TaskState] /\ task'[t] = next
           /\ \A u \in Tasks : u # t => task'[u] = task[u]
BY DEF FigureType, Becomes

\* A task that does not hold the figure asks for the next group of its plan.
AskState(plan, step, hold) ==
    [plan |-> plan, at |-> "await", step |-> step, hold |-> hold, tx |-> 0]
Awaits(t) == [at |-> "awaits", from |-> t, value |-> 0]
Gets(value) == [at |-> "got", from |-> NoOne, value |-> value]

LEMMA AskEffect ==
    ASSUME NEW t \in Tasks, NEW plan, NEW step, Ask(t, plan, step),
           FigureType, Ordered, ~Holds(t)
    PROVE  LET group == plan.reads[step] IN
           \/ /\ ~Asks(group) /\ Becomes(t, AskState(plan, step, NoHold))
              /\ UNCHANGED <<reading, cache, tangled>>
           \/ /\ Asks(group) /\ figure \in Cacheable /\ ~group.forced
              /\ cache.recent /\ cache.inflight = NoOne
              /\ Becomes(t, AskState(plan, step, Gets(cache.value)))
              /\ UNCHANGED <<reading, cache, tangled>>
           \/ /\ Asks(group) /\ figure \in Cacheable /\ ~group.forced
              /\ cache.inflight \in Tasks /\ cache.inflight # t
              /\ Becomes(t, AskState(plan, step, Awaits(cache.inflight)))
              /\ UNCHANGED <<reading, cache, tangled>>
           \/ /\ Asks(group) /\ Becomes(t, AskState(plan, step, Awaits(t)))
              /\ reading' = [reading EXCEPT ![t].at = "asked"]
              /\ cache' = [cache EXCEPT !.inflight = IF figure \in Cacheable THEN t ELSE NoOne]
              /\ tangled' = (Meets(t) \/ (tangled /\ ~group.shown))
<1> DEFINE group == plan.reads[step]
<1>1. CASE ~Asks(group)
  BY <1>1 DEF Ask, Becomes, AskState
<1>2. CASE Asks(group) /\ TakesCached(group)
  BY <1>2 DEF Ask, TakesCached, Becomes, AskState, Gets
<1>3. CASE Asks(group) /\ ~TakesCached(group)
  <2>1. /\ Becomes(t, AskState(plan, step, Awaits(Awaited(t, group))))
        /\ IF Awaited(t, group) # t THEN UNCHANGED <<reading, cache, tangled>>
           ELSE /\ reading' = [reading EXCEPT ![t].at = "asked"]
                /\ cache' = [cache EXCEPT !.inflight = IF figure \in Cacheable THEN t ELSE NoOne]
                /\ tangled' = (Meets(t) \/ (tangled /\ ~group.shown))
    BY <1>3 DEF Ask, Becomes, AskState, Awaits
  <2>2. CASE Awaited(t, group) = t
    BY <1>3, <2>1, <2>2
  <2>3. CASE Awaited(t, group) # t
    <3>1. Shares(group) /\ Awaited(t, group) = cache.inflight
      BY <2>3 DEF Awaited
    <3>2. cache.inflight \in Tasks
      BY <3>1 DEF Shares, FigureType, CacheState
    <3> QED BY <1>3, <2>1, <2>3, <3>1, <3>2 DEF Shares
  <2> QED BY <2>2, <2>3
<1> QED BY <1>1, <1>2, <1>3

\* A task that a step does not touch is where it was.
LEMMA Untouched ==
    ASSUME figure' = figure, NEW u \in Tasks, task'[u] = task[u]
    PROVE  /\ Holds(u)' <=> Holds(u)
           /\ WillAdjust(u)' <=> WillAdjust(u)
           /\ WillReadAfresh(u)' <=> WillReadAfresh(u)
           /\ WillShow(u)' <=> WillShow(u)
<1>1. Holds(u)' <=> Holds(u)
  BY DEF Holds
<1>2. WillAdjust(u)' <=> WillAdjust(u)
  BY DEF WillAdjust, Adjusts
<1>3. WillReadAfresh(u)' <=> WillReadAfresh(u)
  BY DEF WillReadAfresh, Fresh, Asks
<1>4. WillShow(u)' <=> WillShow(u)
  BY <1>1 DEF WillShow
<1> QED BY <1>1, <1>2, <1>3, <1>4

LEMMA OrderKept ==
    ASSUME FigureType, Ordered, NEW t \in Tasks, NEW next \in TaskState, Becomes(t, next),
           figure' = figure, sent' \in Nat, sent' >= sent,
           \A f \in Tasks : reading[f].at # "none" => reading'[f].at # "none",
           \A u \in Tasks \ {t} : reading'[u].at # "none" => reading[u].at # "none",
           cache'.inflight # NoOne =>
               figure \in Cacheable /\ reading'[cache'.inflight].at # "none",
           InOrder(t)'
    PROVE  Ordered'
<1>1. /\ task'[t] = next /\ \A u \in Tasks : u # t => task'[u] = task[u]
  BY Became
<1>2. ASSUME NEW u \in Tasks, u # t PROVE InOrder(u)'
  <2>1. InOrder(u) /\ task'[u] = task[u] /\ (Holds(u)' <=> Holds(u))
    BY <1>1, <1>2, Untouched DEF Ordered
  <2>2. /\ task[u].hold \in Hold /\ (task[u].hold.at = "got" => task[u].hold.value <= sent')
        /\ task[u].tx <= sent'
    <3>1. /\ task[u].hold \in Hold /\ task[u].hold.value \in Nat /\ sent \in Nat
          /\ task[u].tx \in Nat
      BY <2>1, Holding DEF Hold, FigureType, TaskState
    <3> QED BY <2>1, <3>1 DEF InOrder
  <2> QED BY <1>2, <2>1, <2>2 DEF InOrder, Asks
<1> QED BY <1>2 DEF Ordered

\* A step of a task that neither holds the figure nor will work it out, before
\* and after, and still reads it afresh if it would.
LEMMA QuietKeeps ==
    ASSUME FigureInv, NEW t \in Tasks, NEW next \in TaskState, Becomes(t, next),
           UNCHANGED <<figure, reading, cache, screen, dealt>>, ~tangled,
           ~Holds(t), ~Holds(t)', ~WillAdjust(t), ~WillAdjust(t)',
           WillReadAfresh(t) => WillReadAfresh(t)'
    PROVE  OneRead' /\ AdjustsAlone' /\ LookedAfter'
<1>1. /\ task'[t] = next /\ \A u \in Tasks : u # t => task'[u] = task[u]
  BY Became DEF FigureInv
<1>2. \A u \in Tasks : /\ Holds(u)' <=> Holds(u)
                       /\ WillAdjust(u)' <=> WillAdjust(u)
                       /\ WillReadAfresh(u) => WillReadAfresh(u)'
                       /\ Holds(u) \/ WillAdjust(u) => u # t /\ task'[u] = task[u]
                       /\ WillShow(u) => WillShow(u)'
  BY <1>1, Untouched DEF WillShow
<1>3. OneRead'
  BY <1>2 DEF FigureInv, OneRead
<1>4. AdjustsAlone'
  BY <1>2 DEF FigureInv, AdjustsAlone, Meets
<1>5. \A u \in Tasks, x \in dealt : Holds(u) /\ Carries(u, x) => Carries(u, x)'
  BY <1>2 DEF Carries
<1>6. ASSUME NEW x \in dealt, Current(x) PROVE Current(x)'
  BY <1>2, <1>5, <1>6 DEF Current, ShownOnce
<1>7. LookedAfter'
  BY <1>2, <1>6 DEF FigureInv, LookedAfter
<1> QED BY <1>3, <1>4, <1>7

\* What is cached is never worked out.
LEMMA CachedIsNotAdjusted ==
    ASSUME FigureType, NEW t \in Tasks, WillAdjust(t)
    PROVE  figure \notin Cacheable /\ task[t].plan.reads = <<>>
<1>1. task[t].plan \in Plans
  BY DEF FigureType, TaskState
<1> QED BY <1>1, PlansInOrder DEF WillAdjust, PlanInOrder

LEMMA AskKeeps ==
    ASSUME FigureInv, NEW t \in Tasks, NEW plan \in Plans, NEW step \in DOMAIN plan.reads,
           Ask(t, plan, step), ~Holds(t), ~WillAdjust(t),
           WillReadAfresh(t) => task[t].plan = plan /\ task[t].step + 1 = step,
           UNCHANGED <<figure, sent, screen, dealt>>
    PROVE  FigureInv'
<1> DEFINE group == plan.reads[step]
           next(hold) == AskState(plan, step, hold)
<1>0. /\ FigureType /\ UpToSent /\ Ordered /\ OneRead /\ AdjustsAlone /\ LookedAfter
      /\ InOrder(t) /\ cache \in CacheState /\ sent \in Nat
      /\ task[t] \in TaskState /\ NoOne \notin Tasks /\ cache.inflight \in Tasks \cup {NoOne}
      /\ PlanInOrder(plan) /\ step \in Nat /\ step # 0
      /\ reading[t] \in Request /\ reading[t].at = "none"
  <2>1. PlanInOrder(plan)
    BY PlansInOrder
  <2>2. step \in Nat /\ step # 0
    BY <2>1 DEF PlanInOrder
  <2>3. FigureType /\ Ordered /\ InOrder(t) /\ (Holds(t) <=> task[t].hold.at # "none")
        /\ reading[t] \in Request
    BY Holding DEF FigureInv, Ordered
  <2>4. reading[t].at = "none"
    BY <2>3 DEF InOrder
  <2> QED BY <2>1, <2>2, <2>3, <2>4, FigureAssumption
       DEF FigureInv, FigureType, CacheState
<1>1. \A hold \in Hold : next(hold) \in TaskState
  BY <1>0 DEF TaskState, AskState
<1>2. ASSUME NEW hold \in Hold, Becomes(t, next(hold))
      PROVE  /\ task' \in [Tasks -> TaskState]
             /\ task'[t].plan = plan /\ task'[t].at = "await" /\ task'[t].step = step
             /\ task'[t].hold = hold /\ task'[t].tx = 0
             /\ \A u \in Tasks : u # t => task'[u] = task[u]
             /\ ~WillAdjust(t)'
             /\ \A u \in Tasks : u # t => /\ Holds(u)' <=> Holds(u)
                                          /\ WillAdjust(u)' <=> WillAdjust(u)
                                          /\ WillReadAfresh(u)' <=> WillReadAfresh(u)
                                          /\ WillShow(u)' <=> WillShow(u)
  <2>1. /\ task' \in [Tasks -> TaskState] /\ task'[t] = next(hold)
        /\ \A u \in Tasks : u # t => task'[u] = task[u]
    BY <1>0, <1>1, <1>2, Became
  <2>2. \A u \in Tasks : u # t => /\ Holds(u)' <=> Holds(u)
                                  /\ WillAdjust(u)' <=> WillAdjust(u)
                                  /\ WillReadAfresh(u)' <=> WillReadAfresh(u)
                                  /\ WillShow(u)' <=> WillShow(u)
    BY <2>1, Untouched
  <2>3. task'[t].plan = plan /\ task'[t].at = "await" /\ task'[t].step = step
        /\ task'[t].hold = hold /\ task'[t].tx = 0
    BY <2>1 DEF AskState
  <2> QED BY <2>1, <2>2, <2>3 DEF WillAdjust
<1>3. \A f \in Tasks, v \in Nat : Awaits(f) \in Hold /\ Gets(v) \in Hold /\ NoHold \in Hold
  BY DEF Awaits, Gets, Hold, NoHold
<1>4. ~Fresh(group) => (WillReadAfresh(t) => \E k \in DOMAIN plan.reads : k > step /\ Fresh(plan.reads[k]))
  <2> SUFFICES ASSUME ~Fresh(group), WillReadAfresh(t)
               PROVE  \E k \in DOMAIN plan.reads : k > step /\ Fresh(plan.reads[k])
    OBVIOUS
  <2>1. PICK k \in DOMAIN plan.reads : k > task[t].step /\ Fresh(plan.reads[k])
    BY DEF WillReadAfresh
  <2>2. k # step /\ task[t].step + 1 = step /\ k \in Nat /\ task[t].step \in Nat
    BY <1>0, <2>1 DEF PlanInOrder, TaskState
  <2> QED BY <1>0, <2>1, <2>2
<1>5. CASE /\ ~Asks(group) /\ Becomes(t, next(NoHold))
           /\ UNCHANGED <<reading, cache, tangled>>
  <2>1. /\ task' \in [Tasks -> TaskState] /\ task'[t].hold = NoHold
        /\ task'[t].plan = plan /\ task'[t].at = "await" /\ task'[t].step = step
        /\ task'[t].tx = 0
        /\ ~WillAdjust(t)'
    BY <1>2, <1>3, <1>5
  <2>2. FigureType' /\ UpToSent'
    BY <1>0, <1>5, <2>1 DEF FigureType, UpToSent
  <2>3. InOrder(t)' /\ ~Holds(t)'
    BY <1>0, <1>5, <2>1 DEF InOrder, Holds, NoHold, Asks
  <2>4. Ordered'
    BY <1>0, <1>1, <1>3, <1>5, <2>3, OrderKept DEF Ordered
  <2>5. WillReadAfresh(t) => WillReadAfresh(t)'
    <3>1. ~Fresh(group)
      BY <1>5 DEF Fresh
    <3> QED BY <1>4, <2>1, <3>1 DEF WillReadAfresh, Fresh, Asks
  <2>6. ~tangled => OneRead' /\ AdjustsAlone' /\ LookedAfter'
    BY <1>1, <1>3, <1>5, <2>1, <2>3, <2>5, QuietKeeps
  <2>7. OneRead' /\ AdjustsAlone' /\ LookedAfter'
    BY <1>5, <2>6 DEF OneRead, AdjustsAlone, LookedAfter
  <2> QED BY <2>2, <2>4, <2>7 DEF FigureInv
<1>6. ASSUME NEW hold \in {Gets(cache.value), Awaits(cache.inflight)},
             Asks(group), figure \in Cacheable, ~group.forced,
             hold = Gets(cache.value) => cache.recent /\ cache.inflight = NoOne,
             hold # Gets(cache.value) => cache.inflight \in Tasks /\ cache.inflight # t,
             Becomes(t, next(hold)), UNCHANGED <<reading, cache, tangled>>
      PROVE  FigureInv'
  <2> DEFINE f == cache.inflight
  <2>1. hold \in Hold
    BY <1>0, <1>3, <1>6 DEF CacheState
  <2>2. /\ task' \in [Tasks -> TaskState] /\ task'[t].hold = hold
        /\ task'[t].plan = plan /\ task'[t].at = "await" /\ task'[t].step = step
        /\ task'[t].tx = 0
        /\ \A u \in Tasks : u # t => /\ Holds(u)' <=> Holds(u)
                                     /\ WillReadAfresh(u)' <=> WillReadAfresh(u)
                                     /\ WillShow(u)' <=> WillShow(u)
                                     /\ task'[u] = task[u]
    BY <1>2, <1>6, <2>1
  <2>3. \/ /\ hold = Gets(cache.value) /\ hold.at = "got" /\ hold.value = cache.value
           /\ f = NoOne /\ cache.recent
        \/ /\ hold.at = "awaits" /\ hold.from = f /\ f \in Tasks /\ f # t
           /\ reading[f].at # "none"
    BY <1>0, <1>6 DEF Gets, Awaits, Ordered
  <2>4. FigureType' /\ UpToSent'
    BY <1>0, <1>6, <2>2 DEF FigureType, UpToSent
  <2>5. Holds(t)'
    BY <2>2, <2>3 DEF Holds, NoHold
  <2>6. InOrder(t)'
    BY <1>0, <1>6, <2>2, <2>3, <2>5 DEF InOrder, Asks, UpToSent
  <2>7. Ordered'
    BY <1>0, <1>1, <1>6, <2>1, <2>6, OrderKept DEF Ordered
  <2>8. OneRead'
    BY <1>0, <1>6, <2>2, <2>3 DEF OneRead
  <2>9. AdjustsAlone'
    <3>1. \A u \in Tasks : ~WillAdjust(u)
      BY <1>0, <1>6, CachedIsNotAdjusted
    <3>2. \A u \in Tasks : ~WillAdjust(u)'
      BY <1>2, <1>6, <2>1, <3>1
    <3> QED BY <3>2 DEF AdjustsAlone
  <2>10. ASSUME NEW u \in Tasks, WillReadAfresh(u), ~tangled
         PROVE  \E w \in Tasks : WillReadAfresh(w)'
    <3>1. CASE u # t
      BY <2>2, <2>10, <3>1
    <3>2. CASE u = t
      <4>1. ~Fresh(group)
        BY <1>6 DEF Fresh
      <4> QED BY <1>4, <2>2, <2>10, <3>2, <4>1 DEF WillReadAfresh, Fresh, Asks
    <3> QED BY <3>1, <3>2
  <2>11. ASSUME NEW x \in dealt, Current(x) PROVE Current(x)'
    <3>1. \A u \in Tasks : u # t /\ Carries(u, x) => Carries(u, x)'
      BY <1>6, <2>2 DEF Carries
    <3>2. Carries(t, x)'
      <4>1. CASE hold.at = "got"
        BY <1>6, <2>2, <2>3, <2>11, <4>1 DEF Carries, Current
      <4>2. CASE hold.at = "awaits"
        <5>1. f \in Tasks /\ f # t /\ hold.from = f /\ InOrder(f) /\ reading[f].at # "none"
          BY <1>0, <2>3, <4>2 DEF Ordered
        <5>2. task[f].hold.at = "awaits" /\ task[f].hold.from = f /\ Holds(f)
          BY <1>0, <5>1, Holding DEF InOrder
        <5>3. Carries(f, x)
          BY <2>11, <5>1, <5>2 DEF Current
        <5> QED BY <1>6, <2>2, <4>2, <5>1, <5>2, <5>3 DEF Carries
      <4> QED BY <2>3, <4>1, <4>2
    <3>3. WillShow(t) => FALSE
      BY DEF WillShow
    <3> QED BY <1>6, <2>2, <2>11, <3>1, <3>2, <3>3 DEF Current, ShownOnce
  <2>12. LookedAfter'
    <3>1. \A u \in Tasks : ~WillAdjust(u)
      BY <1>0, <1>6, CachedIsNotAdjusted
    <3> QED BY <1>0, <1>6, <2>10, <2>11, <3>1 DEF LookedAfter
  <2> QED BY <2>4, <2>7, <2>8, <2>9, <2>12 DEF FigureInv
<1>7. CASE /\ Asks(group) /\ Becomes(t, next(Awaits(t)))
           /\ reading' = [reading EXCEPT ![t].at = "asked"]
           /\ cache' = [cache EXCEPT !.inflight = IF figure \in Cacheable THEN t ELSE NoOne]
           /\ tangled' = (Meets(t) \/ (tangled /\ ~group.shown))
  <2>1. /\ task' \in [Tasks -> TaskState] /\ task'[t].hold = Awaits(t)
        /\ task'[t].plan = plan /\ task'[t].at = "await" /\ task'[t].step = step
        /\ task'[t].tx = 0
        /\ ~WillAdjust(t)'
        /\ \A u \in Tasks : u # t => /\ Holds(u)' <=> Holds(u)
                                     /\ WillAdjust(u)' <=> WillAdjust(u)
                                     /\ WillReadAfresh(u)' <=> WillReadAfresh(u)
                                     /\ WillShow(u)' <=> WillShow(u)
                                     /\ task'[u] = task[u]
    BY <1>2, <1>3, <1>7
  <2>2. /\ Awaits(t).at = "awaits" /\ Awaits(t).from = t
    BY DEF Awaits
  <2>3. /\ reading' \in [Tasks -> Request] /\ reading'[t].at = "asked"
        /\ reading'[t].value = reading[t].value
        /\ \A u \in Tasks : u # t => reading'[u] = reading[u]
    BY <1>0, <1>7 DEF FigureType, Request
  <2>4. /\ cache' \in CacheState /\ cache'.value = cache.value
        /\ cache'.inflight = IF figure \in Cacheable THEN t ELSE NoOne
    BY <1>0, <1>7 DEF CacheState
  <2>5. FigureType' /\ UpToSent'
    <3>1. tangled' \in BOOLEAN
      BY <1>7
    <3>2. \A u \in Tasks : reading'[u].value <= sent
      BY <1>0, <2>3 DEF UpToSent
    <3> QED BY <1>0, <2>1, <2>3, <2>4, <3>1, <3>2 DEF FigureType, UpToSent
  <2>6. Holds(t)'
    BY <2>1, <2>2 DEF Holds, NoHold
  <2>7. InOrder(t)'
    BY <1>0, <1>7, <2>1, <2>2, <2>3, <2>6 DEF InOrder, Asks
  <2>8. Ordered'
    <3>1. \A f \in Tasks : reading[f].at # "none" => reading'[f].at # "none"
      BY <2>3
    <3>2. \A u \in Tasks \ {t} : reading'[u].at # "none" => reading[u].at # "none"
      BY <2>3
    <3>3. cache'.inflight # NoOne =>
              figure \in Cacheable /\ reading'[cache'.inflight].at # "none"
      BY <2>3, <2>4
    <3>4. next(Awaits(t)) \in TaskState /\ sent' \in Nat /\ sent' >= sent
      BY <1>0, <1>1, <1>3
    <3> HIDE DEF next
    <3> QED BY <1>0, <1>7, <2>7, <3>1, <3>2, <3>3, <3>4, OrderKept
  <2>9. CASE tangled'
    BY <2>5, <2>8, <2>9 DEF FigureInv, OneRead, AdjustsAlone, LookedAfter
  <2>10. CASE ~tangled'
    <3>1. ~Meets(t) /\ (tangled => group.shown)
      BY <1>7, <2>10
    <3>2. \A u \in Tasks : /\ u # t => ~Holds(u) /\ ~Holds(u)' /\ ~WillShow(u)
                           /\ ~WillAdjust(u) /\ ~WillAdjust(u)'
      BY <2>1, <3>1 DEF Meets, WillShow
    <3>3. OneRead'
      BY <2>1, <2>2, <2>4, <3>2 DEF OneRead
    <3>4. AdjustsAlone'
      BY <3>2 DEF AdjustsAlone
    <3>5. ASSUME NEW x \in dealt, ShownOnce(x) \/ group.shown PROVE Current(x)'
      <4>1. Carries(t, x)'
        BY <2>1, <2>2, <2>3 DEF Carries
      <4>2. group.shown => WillShow(t)'
        BY <2>1, <2>6 DEF WillShow
      <4>3. ShownOnce(x)' <=> ShownOnce(x)
        BY DEF ShownOnce
      <4>4. figure' \in Cacheable => cache'.inflight # NoOne
        BY <1>0, <2>4
      <4> QED BY <3>2, <3>5, <4>1, <4>2, <4>3, <4>4 DEF Current
    <3>6. LookedAfter'
      <4>1. CASE group.shown
        BY <3>5, <4>1 DEF LookedAfter
      <4>2. CASE ~group.shown
        <5>1. ~tangled
          BY <3>1, <4>2
        <5>2. ASSUME NEW u \in Tasks, WillReadAfresh(u)
              PROVE  \E w \in Tasks : WillReadAfresh(w)'
          <6>1. CASE u # t
            BY <2>1, <5>2, <6>1
          <6>2. CASE u = t
            <7>1. ~Fresh(group)
              BY <4>2 DEF Fresh
            <7> QED BY <1>4, <2>1, <5>2, <6>2, <7>1 DEF WillReadAfresh, Fresh, Asks
          <6> QED BY <6>1, <6>2
        <5>3. ASSUME NEW x \in dealt, Current(x) PROVE ShownOnce(x)
          <6>1. \A u \in Tasks : ~WillShow(u)
            BY <3>2 DEF WillShow
          <6> QED BY <5>3, <6>1 DEF Current
        <5> QED BY <1>0, <3>2, <3>5, <5>1, <5>2, <5>3 DEF LookedAfter
      <4> QED BY <4>1, <4>2
    <3> QED BY <2>5, <2>8, <3>3, <3>4, <3>6 DEF FigureInv
  <2> QED BY <2>9, <2>10
<1> HIDE DEF next
<1>8. Gets(cache.value) # Awaits(cache.inflight)
  BY DEF Gets, Awaits
<1> QED
  <2> HIDE DEF group
  <2>1. \/ /\ ~Asks(group) /\ Becomes(t, next(NoHold)) /\ UNCHANGED <<reading, cache, tangled>>
        \/ /\ Asks(group) /\ figure \in Cacheable /\ ~group.forced
           /\ cache.recent /\ cache.inflight = NoOne
           /\ Becomes(t, next(Gets(cache.value))) /\ UNCHANGED <<reading, cache, tangled>>
        \/ /\ Asks(group) /\ figure \in Cacheable /\ ~group.forced
           /\ cache.inflight \in Tasks /\ cache.inflight # t
           /\ Becomes(t, next(Awaits(cache.inflight)))
           /\ UNCHANGED <<reading, cache, tangled>>
        \/ /\ Asks(group) /\ Becomes(t, next(Awaits(t)))
           /\ reading' = [reading EXCEPT ![t].at = "asked"]
           /\ cache' = [cache EXCEPT !.inflight = IF figure \in Cacheable THEN t ELSE NoOne]
           /\ tangled' = (Meets(t) \/ (tangled /\ ~group.shown))
    BY <1>0, AskEffect DEF next, group
  <2> QED BY <1>5, <1>6, <1>7, <1>8, <2>1

LEMMA IdleState ==
    Idle \in TaskState /\ Idle.at = "idle" /\ Idle.hold = NoHold /\ Idle.tx = 0
BY DEF Idle, TaskState, Plans, Hold, NoHold

\* A step of a task that holds nothing and asks for nothing, to one of the
\* states in which it is not awaiting anything.
LEMMA RestKeeps ==
    ASSUME FigureInv, NEW t \in Tasks, NEW next \in TaskState, Becomes(t, next),
           UNCHANGED <<figure, reading, cache>>,
           screen' \in [seen : Nat, added : SUBSET Nat],
           screen'.seen <= sent', \A x \in screen'.added : x <= sent',
           sent' \in Nat, sent' >= sent, dealt' \subseteq Nat, \A x \in dealt' : x <= sent',
           tangled' \in BOOLEAN, ~Holds(t), next.hold = NoHold, next.at # "await",
           next.tx <= sent',
           next.at \in {"wallet", "sent"} => next.step = 0 /\ next.plan \in Handlings,
           ~tangled' => OneRead' /\ AdjustsAlone' /\ LookedAfter'
    PROVE  FigureInv'
<1>1. /\ FigureType /\ UpToSent /\ Ordered /\ InOrder(t) /\ sent \in Nat
  BY DEF FigureInv, Ordered, FigureType
<1>2. /\ task' \in [Tasks -> TaskState] /\ task'[t] = next
  BY <1>1, Became
<1>3. FigureType'
  BY <1>1, <1>2 DEF FigureType
<1>4. UpToSent'
  <2>1. /\ cache.value \in Nat /\ cache.value <= sent
        /\ \A u \in Tasks : reading[u].value \in Nat /\ reading[u].value <= sent
    BY <1>1 DEF FigureType, CacheState, Request, UpToSent
  <2>2. cache'.value <= sent'
    BY <1>1, <2>1
  <2>3. \A u \in Tasks : reading'[u].value <= sent'
    BY <1>1, <2>1
  <2> QED BY <2>2, <2>3 DEF UpToSent
<1>5. reading[t].at = "none"
  <2>1. reading[t].at # "none" => task[t].hold.at = "awaits"
    BY <1>1 DEF InOrder
  <2> QED BY <1>1, <2>1, Holding
<1>6. InOrder(t)'
  BY <1>2, <1>5 DEF InOrder, Holds, NoHold
<1>7. Ordered'
  BY <1>1, <1>6, OrderKept DEF Ordered
<1> QED BY <1>3, <1>4, <1>7 DEF FigureInv, OneRead, AdjustsAlone, LookedAfter

\* Tapping a button.
LEMMA TapKeeps ==
    ASSUME FigureInv, NEW t \in Tasks, NEW plan \in Handlings, Tap(t, plan)
    PROVE  FigureInv'
<1> DEFINE next == [Idle EXCEPT !.plan = plan, !.at = "wallet"]
<1>1. /\ FigureType /\ UpToSent /\ task[t] = Idle /\ Becomes(t, next)
      /\ UNCHANGED <<figure, sent, reading, cache, screen, dealt, tangled, faults>>
  BY DEF FigureInv, Tap, Becomes
<1>2. /\ next \in TaskState /\ next.hold = NoHold /\ next.at = "wallet" /\ next.step = 0
      /\ next.plan = plan /\ next.tx = 0
  BY DEF Idle, TaskState, Plans, Hold, NoHold
<1> HIDE DEF next
<1>3. task'[t] = next
  BY <1>1, <1>2, Became
<1>4. /\ ~Holds(t) /\ ~Holds(t)' /\ ~WillAdjust(t) /\ ~WillAdjust(t)' /\ ~WillReadAfresh(t)
  BY <1>1, <1>2, <1>3, IdleState DEF Holds, WillAdjust, WillReadAfresh
<1>5. ~tangled' => OneRead' /\ AdjustsAlone' /\ LookedAfter'
  BY <1>1, <1>2, <1>4, QuietKeeps
<1> QED BY <1>1, <1>2, <1>4, <1>5, RestKeeps DEF FigureType, UpToSent

\* What is in the wallet or sent holds nothing.
LEMMA SentHoldsNothing ==
    ASSUME FigureInv, NEW t \in Tasks, task[t].at \in {"wallet", "sent"}
    PROVE  /\ ~Holds(t) /\ task[t] \in TaskState /\ task[t].hold = NoHold
           /\ task[t].step = 0 /\ task[t].plan \in Handlings /\ PlanInOrder(task[t].plan)
<1>1. FigureType /\ InOrder(t)
  BY DEF FigureInv, Ordered
<1>2. ~Holds(t) /\ task[t].step = 0 /\ task[t].plan \in Handlings
  BY <1>1 DEF InOrder
<1>3. task[t].hold = NoHold
  BY <1>2 DEF Holds
<1>4. task[t] \in TaskState
  BY <1>1, Holding
<1>5. PlanInOrder(task[t].plan)
  BY <1>2, PlansInOrder DEF Plans
<1> QED BY <1>2, <1>3, <1>4, <1>5

LEMMA SentState ==
    ASSUME NEW s \in TaskState, NEW n
    PROVE  [[s EXCEPT !.at = "sent"] EXCEPT !.tx = n] =
           [plan |-> s.plan, at |-> "sent", step |-> s.step, hold |-> s.hold, tx |-> n]
<1>1. [s EXCEPT !.at = "sent"] =
      [plan |-> s.plan, at |-> "sent", step |-> s.step, hold |-> s.hold, tx |-> s.tx]
  BY DEF TaskState
<1>2. [[plan |-> s.plan, at |-> "sent", step |-> s.step, hold |-> s.hold, tx |-> s.tx]
          EXCEPT !.tx = n] =
      [plan |-> s.plan, at |-> "sent", step |-> s.step, hold |-> s.hold, tx |-> n]
  OBVIOUS
<1> QED BY <1>1, <1>2

\* The program executes the transaction.
LEMMA ExecutedKeeps ==
    ASSUME FigureInv, NEW t \in Tasks, Executed(t)
    PROVE  FigureInv'
<1> DEFINE plan == task[t].plan
           next == [plan |-> plan, at |-> "sent", step |-> task[t].step,
                    hold |-> task[t].hold, tx |-> sent + 1]
<1>1. /\ FigureType /\ UpToSent /\ OneRead /\ AdjustsAlone /\ LookedAfter
      /\ task[t].at = "wallet" /\ sent \in Nat /\ sent' = sent + 1
      /\ task' = [task EXCEPT ![t] = [[task[t] EXCEPT !.at = "sent"] EXCEPT !.tx = sent + 1]]
      /\ dealt' = IF LooksAfter(plan) THEN dealt \cup {sent + 1} ELSE dealt
      /\ tangled' = (tangled \/ (Adjusts(plan) /\ Meets(t)))
      /\ UNCHANGED <<figure, reading, cache, screen>>
      /\ screen.seen \in Nat /\ screen.added \subseteq Nat
      /\ screen.seen <= sent /\ \A x \in screen.added \cup dealt : x <= sent
      /\ dealt \subseteq Nat
  BY DEF FigureInv, FigureType, UpToSent, Executed
<1>2. /\ ~Holds(t) /\ task[t] \in TaskState /\ task[t].hold = NoHold
      /\ task[t].step = 0 /\ plan \in Handlings /\ PlanInOrder(plan)
  BY <1>1, SentHoldsNothing
<1>3. /\ next \in TaskState /\ next.at = "sent" /\ next.tx = sent + 1
      /\ next.plan = plan /\ next.hold = NoHold /\ next.step = 0
  BY <1>1, <1>2 DEF TaskState
<1>13. Becomes(t, next)
  BY <1>1, <1>2, SentState DEF Becomes
<1> HIDE DEF next
<1>4. /\ task'[t] = next /\ \A u \in Tasks : u # t => task'[u] = task[u]
  BY <1>1, <1>3, <1>13, Became
<1>5. \A u \in Tasks : u # t => /\ Holds(u)' <=> Holds(u)
                                /\ WillAdjust(u)' <=> WillAdjust(u)
                                /\ WillReadAfresh(u)' <=> WillReadAfresh(u)
                                /\ WillShow(u)' <=> WillShow(u)
  BY <1>1, <1>4, Untouched
<1>6. ~Holds(t)' /\ ~WillAdjust(t) /\ ~WillReadAfresh(t) /\ (WillAdjust(t)' <=> Adjusts(plan))
  BY <1>1, <1>3, <1>4 DEF Holds, WillAdjust, WillReadAfresh, Adjusts
<1>7. ASSUME ~tangled', ~Adjusts(plan)
      PROVE  OneRead' /\ AdjustsAlone' /\ LookedAfter'
  <2>1. OneRead' /\ AdjustsAlone' /\ (LooksAfter(plan) \/ LookedAfter')
    <3>1. ~WillAdjust(t)'
      BY <1>6, <1>7
    <3>2. OneRead'
      BY <1>1, <1>2, <1>4, <1>5, <1>6, <1>7 DEF OneRead
    <3>3. AdjustsAlone'
      BY <1>1, <1>2, <1>4, <1>5, <1>6, <1>7, <3>1 DEF AdjustsAlone, Meets
    <3>4. CASE ~LooksAfter(plan)
      <4>1. \A u \in Tasks, x \in dealt : Holds(u) /\ Carries(u, x) => Carries(u, x)'
        BY <1>1, <1>2, <1>4 DEF Carries
      <4>2. \A u \in Tasks : WillShow(u) => WillShow(u)'
        BY <1>2, <1>5 DEF WillShow
      <4>3. \A x \in dealt : Current(x) => Current(x)'
        BY <1>1, <1>2, <1>5, <1>6, <4>1, <4>2 DEF Current, ShownOnce
      <4> QED BY <1>1, <1>4, <1>5, <1>6, <1>7, <3>2, <3>3, <3>4, <4>3 DEF LookedAfter
    <3> QED BY <3>2, <3>3, <3>4
  <2>2. ASSUME LooksAfter(plan) PROVE LookedAfter'
    <3>1. PICK k \in DOMAIN plan.reads : Fresh(plan.reads[k])
      BY <1>2, <1>7, <2>2, HandlersLook
    <3>2. k > 0
      BY <1>2 DEF PlanInOrder
    <3>3. WillReadAfresh(t)'
      BY <1>1, <1>3, <1>4, <3>1, <3>2 DEF WillReadAfresh, Fresh, Asks
    <3> QED BY <3>3 DEF LookedAfter
  <2> QED BY <2>1, <2>2
<1>8. ASSUME ~tangled', Adjusts(plan)
      PROVE  OneRead' /\ AdjustsAlone' /\ LookedAfter'
  <2>1. /\ ~Meets(t) /\ ~tangled /\ figure \notin Cacheable /\ LooksAfter(plan)
        /\ dealt' = dealt \cup {sent + 1}
    BY <1>1, <1>2, <1>8 DEF PlanInOrder, LooksAfter
  <2>2. \A u \in Tasks : /\ ~Holds(u) /\ ~Holds(u)' /\ ~WillAdjust(u)
                         /\ u # t => ~WillAdjust(u)'
                         /\ WillReadAfresh(u) => WillReadAfresh(u)'
    BY <1>2, <1>5, <1>6, <2>1 DEF Meets
  <2>3. OneRead'
    BY <2>2 DEF OneRead
  <2>4. AdjustsAlone'
    <3>1. screen.seen < sent + 1 /\ sent + 1 \notin screen.added
      BY <1>1
    <3> QED BY <1>1, <1>3, <1>4, <2>2, <3>1 DEF AdjustsAlone, Meets
  <2>5. ASSUME NEW x \in dealt, Current(x) PROVE Current(x)'
    BY <1>1, <2>1, <2>2, <2>5 DEF Current, ShownOnce, WillShow
  <2>6. WillAdjust(t)' /\ task'[t].tx = sent + 1
    BY <1>3, <1>4, <1>6, <1>8
  <2>7. LookedAfter'
    BY <1>1, <2>1, <2>2, <2>5, <2>6 DEF LookedAfter
  <2> QED BY <2>3, <2>4, <2>7
<1>9. dealt' \subseteq Nat /\ \A x \in dealt' : x <= sent'
  BY <1>1
<1>10. /\ screen' \in [seen : Nat, added : SUBSET Nat]
       /\ screen'.seen <= sent' /\ \A x \in screen'.added : x <= sent'
  BY <1>1 DEF FigureType
<1>11. tangled' \in BOOLEAN
  BY <1>1
<1> HIDE DEF plan
<1>12. sent' \in Nat /\ sent' >= sent
  BY <1>1
<1> QED BY <1>1, <1>2, <1>3, <1>7, <1>8, <1>9, <1>10, <1>11, <1>12, <1>13, RestKeeps

\* Cancelled, or the confirmation is lost.
LEMMA GivesUpKeeps ==
    ASSUME FigureInv, NEW t \in Tasks, GivesUp(t)
    PROVE  FigureInv'
<1>1. /\ FigureType /\ UpToSent /\ task[t].at \in {"wallet", "sent"} /\ Becomes(t, Idle)
      /\ UNCHANGED <<figure, sent, reading, cache, screen, dealt>>
      /\ tangled' \in BOOLEAN /\ (~tangled' => ~tangled)
      /\ ~tangled' /\ task[t].at = "sent" => ~LooksAfter(task[t].plan)
  BY DEF FigureInv, FigureType, GivesUp, Becomes
<1>2. ~Holds(t) /\ task[t].plan \in Handlings
  BY <1>1, SentHoldsNothing
<1>3. task'[t] = Idle
  BY <1>1, IdleState, Became
<1>4. ~Holds(t)' /\ ~WillAdjust(t)'
  BY <1>3, IdleState DEF Holds, WillAdjust
<1>5. ASSUME ~tangled' PROVE ~WillAdjust(t) /\ ~WillReadAfresh(t)
  <2>1. CASE task[t].at = "wallet"
    BY <2>1 DEF WillAdjust, WillReadAfresh
  <2>2. CASE task[t].at = "sent"
    <3>1. ~LooksAfter(task[t].plan)
      BY <1>1, <1>5, <2>2
    <3> QED BY <1>2, <3>1, HandlersLook DEF WillAdjust, WillReadAfresh, LooksAfter
  <2> QED BY <1>1, <2>1, <2>2
<1>6. ~tangled' => OneRead' /\ AdjustsAlone' /\ LookedAfter'
  BY <1>1, <1>2, <1>4, <1>5, IdleState, QuietKeeps
<1> QED BY <1>1, <1>2, <1>6, IdleState, RestKeeps DEF FigureType, UpToSent

\* What the app works out for itself.
LEMMA WorkOutKeeps ==
    ASSUME FigureInv, NEW t \in Tasks, WorkOut(t)
    PROVE  FigureInv'
<1> DEFINE plan == task[t].plan
           tx == task[t].tx
<1>1. /\ FigureType /\ UpToSent /\ OneRead /\ AdjustsAlone /\ LookedAfter /\ InOrder(t)
      /\ task[t].at \in {"wallet", "sent"} /\ plan.reads = <<>> /\ Becomes(t, Idle)
      /\ screen' = IF Adjusts(plan) THEN [screen EXCEPT !.added = @ \cup {tx}] ELSE screen
      /\ tangled' = (tangled \/ (Adjusts(plan) /\ (Meets(t) \/ task[t].at = "wallet")))
      /\ UNCHANGED <<figure, sent, reading, cache, dealt>>
  BY DEF FigureInv, Ordered, WorkOut, Returns, Becomes
<1>2. /\ ~Holds(t) /\ PlanInOrder(plan) /\ tx \in Nat /\ tx <= sent
      /\ screen.seen \in Nat /\ screen.added \subseteq Nat /\ screen.seen <= sent
      /\ \A x \in screen.added : x <= sent
      /\ screen \in [seen : Nat, added : SUBSET Nat] /\ sent \in Nat
  <2>1. ~Holds(t) /\ PlanInOrder(plan) /\ task[t] \in TaskState
    BY <1>1, SentHoldsNothing
  <2> QED BY <1>1, <2>1 DEF TaskState, InOrder, FigureType, UpToSent
<1>3. task'[t] = Idle /\ \A u \in Tasks : u # t => task'[u] = task[u]
  BY <1>1, IdleState, Became
<1>4. ~Holds(t)' /\ ~WillAdjust(t)' /\ ~WillReadAfresh(t)
  <2>1. DOMAIN plan.reads = 1..0
    BY <1>1, NumberedReads
  <2> QED BY <1>3, <2>1, IdleState DEF Holds, WillAdjust, WillReadAfresh
<1>5. CASE ~Adjusts(plan)
  <2>1. /\ screen' = screen /\ tangled' \in BOOLEAN /\ (~tangled' => ~tangled)
        /\ ~WillAdjust(t)
    BY <1>1, <1>5 DEF WillAdjust
  <2>2. ~tangled' => OneRead' /\ AdjustsAlone' /\ LookedAfter'
    BY <1>1, <1>2, <1>4, <2>1, IdleState, QuietKeeps
  <2> QED BY <1>1, <1>2, <2>1, <2>2, IdleState, RestKeeps DEF FigureType, UpToSent
<1>6. CASE Adjusts(plan)
  <2>1. /\ screen'.seen = screen.seen /\ screen'.added = screen.added \cup {tx}
        /\ screen' \in [seen : Nat, added : SUBSET Nat]
        /\ \A x \in screen'.added : x <= sent
    BY <1>1, <1>2, <1>6
  <2>2. ASSUME ~tangled' PROVE OneRead' /\ AdjustsAlone' /\ LookedAfter'
    <3>1. ~tangled /\ ~Meets(t) /\ WillAdjust(t) /\ figure \notin Cacheable
      BY <1>1, <1>2, <1>6, <2>2 DEF WillAdjust, PlanInOrder
    <3>2. screen.seen < tx /\ tx \notin screen.added
      BY <1>1, <3>1 DEF AdjustsAlone
    <3>3. \A u \in Tasks : /\ ~Holds(u) /\ ~Holds(u)' /\ ~WillAdjust(u)'
                           /\ u # t => ~WillAdjust(u)
                           /\ WillReadAfresh(u) => WillReadAfresh(u)'
      BY <1>1, <1>2, <1>3, <1>4, <3>1, Untouched DEF Meets
    <3>4. OneRead' /\ AdjustsAlone'
      BY <3>3 DEF OneRead, AdjustsAlone
    <3>5. ASSUME NEW x \in dealt, Current(x) \/ x = tx PROVE Current(x)'
      <4>1. Current(x) => ShownOnce(x)
        BY <3>3 DEF Current, WillShow
      <4>2. ShownOnce(x)'
        <5>1. CASE x = tx
          BY <1>2, <2>1, <3>2, <5>1 DEF ShownOnce
        <5>2. CASE x # tx
          BY <2>1, <3>5, <4>1, <5>2 DEF ShownOnce
        <5> QED BY <5>1, <5>2
      <4> QED BY <1>1, <3>1, <3>3, <4>2 DEF Current
    <3>6. LookedAfter'
      BY <1>1, <3>1, <3>3, <3>5 DEF LookedAfter
    <3> QED BY <3>4, <3>6
  <2> QED BY <1>1, <1>2, <2>1, <2>2, IdleState, RestKeeps DEF FigureType, UpToSent
<1> QED BY <1>5, <1>6

\* A load, and what a handler reads again.
LEMMA BeginKeeps ==
    ASSUME FigureInv, NEW t \in Tasks, NEW plan \in Loads, Begin(t, plan)
    PROVE  FigureInv'
<1>1. plan \in Plans /\ 1 \in DOMAIN plan.reads
  BY NumberedReads DEF Plans, Loads, loadProtocolData, fetchLiveUserOrders, refreshWalletAssets,
     Plan
<1>2. ~Holds(t) /\ ~WillAdjust(t) /\ ~WillReadAfresh(t)
  BY IdleState DEF Begin, Holds, WillAdjust, WillReadAfresh
<1> QED BY <1>1, <1>2, AskKeeps DEF Begin

LEMMA ReadAgainKeeps ==
    ASSUME FigureInv, NEW t \in Tasks, ReadAgain(t)
    PROVE  FigureInv'
<1> DEFINE plan == task[t].plan
<1>1. task[t].at \in {"wallet", "sent"} /\ plan.reads # <<>> /\ Ask(t, plan, 1)
      /\ UNCHANGED <<figure, sent, screen, dealt>>
  BY DEF ReadAgain, Returns
<1>2. ~Holds(t) /\ task[t].step = 0 /\ plan \in Plans /\ PlanInOrder(plan)
  BY <1>1, SentHoldsNothing DEF Plans
<1>3. 1 \in DOMAIN plan.reads /\ ~WillAdjust(t)
  BY <1>1, <1>2 DEF PlanInOrder, WillAdjust
<1> HIDE DEF plan
<1>4. WillReadAfresh(t) => task[t].plan = plan /\ task[t].step + 1 = 1
  BY <1>2 DEF plan
<1> QED BY <1>1, <1>2, <1>3, <1>4, AskKeeps

\* A request finds what it includes.
LEMMA FoundKeeps ==
    ASSUME FigureInv, NEW t \in Tasks, reading[t].at # "none", NEW at \in {"tokens", "read"},
           NEW v \in Nat, v <= sent, reading' = [reading EXCEPT ![t] = [at |-> at, value |-> v]],
           UNCHANGED <<figure, sent, task, cache, screen, dealt>>, tangled' \in BOOLEAN,
           ~tangled' => /\ ~tangled
                        /\ \A x \in Nat : x <= sent /\ (reading[t].at = "asked" \/ x <= reading[t].value)
                               => x <= v
    PROVE  FigureInv'
<1>1. /\ FigureType /\ UpToSent /\ Ordered /\ OneRead /\ AdjustsAlone /\ LookedAfter
  BY DEF FigureInv
<1>2. /\ reading' \in [Tasks -> Request] /\ reading'[t].at = at /\ reading'[t].value = v
      /\ \A u \in Tasks : u # t => reading'[u] = reading[u]
      /\ \A u \in Tasks : reading'[u].at # "none" <=> reading[u].at # "none"
  BY <1>1 DEF FigureType, Request
<1>3. \A u \in Tasks : /\ Holds(u)' <=> Holds(u)
                       /\ WillAdjust(u)' <=> WillAdjust(u)
                       /\ WillReadAfresh(u)' <=> WillReadAfresh(u)
                       /\ WillShow(u)' <=> WillShow(u)
  BY Untouched
<1>4. FigureType' /\ UpToSent'
  BY <1>1, <1>2 DEF FigureType, UpToSent
<1>5. Ordered'
  <2>1. ASSUME NEW u \in Tasks PROVE InOrder(u)'
    <3>1. InOrder(u)
      BY <1>1 DEF Ordered
    <3>2. task[u].hold.at = "awaits" => reading'[task[u].hold.from].at # "none"
      BY <1>2, <3>1 DEF InOrder
    <3> QED BY <1>2, <1>3, <3>1, <3>2 DEF InOrder, Asks
  <2>2. cache.inflight # NoOne => reading'[cache.inflight].at # "none"
    BY <1>1, <1>2 DEF Ordered, FigureType, CacheState
  <2> QED BY <1>1, <2>1, <2>2 DEF Ordered
<1>6. ASSUME ~tangled' PROVE OneRead' /\ AdjustsAlone' /\ LookedAfter'
  <2>1. ~tangled /\ \A x \in Nat : x <= sent /\ (reading[t].at = "asked" \/ x <= reading[t].value)
                                       => x <= v
    BY <1>6
  <2>2. OneRead'
    BY <1>1, <1>3, <2>1 DEF OneRead
  <2>3. AdjustsAlone'
    BY <1>1, <1>3, <2>1 DEF AdjustsAlone, Meets
  <2>4. ASSUME NEW x \in dealt, Current(x) PROVE Current(x)'
    <3>1. x \in Nat /\ x <= sent
      BY <1>1 DEF FigureType, UpToSent
    <3>2. ASSUME NEW u \in Tasks, Holds(u) PROVE Carries(u, x)'
      <4>1. Carries(u, x) /\ InOrder(u)
        BY <1>1, <2>4, <3>2 DEF Current, Ordered
      <4>2. task[u].hold.at = "awaits" => task[u].hold.from \in Tasks
        BY <4>1 DEF InOrder
      <4>3. task[u].hold.at \in {"awaits", "got"}
        BY <1>1, <3>2, <4>1, Holding
      <4> QED BY <1>2, <2>1, <3>1, <4>1, <4>2, <4>3 DEF Carries
    <3> QED BY <1>3, <2>4, <3>2 DEF Current, ShownOnce
  <2>5. LookedAfter'
    BY <1>1, <1>3, <2>1, <2>4 DEF LookedAfter
  <2> QED BY <2>2, <2>3, <2>5
<1>7. OneRead' /\ AdjustsAlone' /\ LookedAfter'
  BY <1>6 DEF OneRead, AdjustsAlone, LookedAfter
<1> QED BY <1>4, <1>5, <1>7 DEF FigureInv

LEMMA LookKeeps ==
    ASSUME FigureInv, NEW t \in Tasks, Look(t)
    PROVE  FigureInv'
<1>1. /\ FigureType /\ UpToSent /\ sent \in Nat /\ reading[t] \in Request
      /\ reading[t].value \in Nat /\ reading[t].value <= sent
  BY DEF FigureInv, FigureType, UpToSent, Request
<1>2. ASSUME NEW v \in 0..sent, Sees(v)
      PROVE  v \in Nat /\ v <= sent /\ tangled' \in BOOLEAN /\ (~tangled' => ~tangled /\ v = sent)
  <2>1. v \in Nat /\ v <= sent
    BY <1>1
  <2>2. CASE v = sent /\ UNCHANGED tangled
    BY <1>1, <2>1, <2>2 DEF FigureType
  <2>3. CASE tangled' = TRUE
    BY <2>1, <2>3
  <2> QED BY <1>2, <2>2, <2>3 DEF Sees
<1>3. ASSUME NEW v \in 0..sent, Sees(v), Fetched(t, v), reading[t].at = "asked" PROVE FigureInv'
  <2>1. "read" \in {"tokens", "read"}
    OBVIOUS
  <2>2. ~tangled' => \A x \in Nat : x <= sent => x <= v
    BY <1>2, <1>3
  <2> QED BY <1>2, <1>3, <2>1, <2>2, FoundKeeps DEF Fetched
<1>4. CASE FetchPools(t) \/ FetchProfile(t) \/ FetchYield(t)
  BY <1>3, <1>4 DEF FetchPools, FetchProfile, FetchYield, Asked
<1>5. CASE FetchSol(t)
  <2>1. reading[t].at = "asked" /\ UNCHANGED <<figure, sent, task, cache, screen, dealt>>
    BY <1>5 DEF FetchSol, Asked
  <2>2. PICK v \in 0..sent :
            Sees(v) /\ reading' = [reading EXCEPT ![t] = [at |-> "tokens", value |-> v]]
    BY <1>5 DEF FetchSol
  <2>3. ~tangled' => \A x \in Nat : x <= sent => x <= v
    BY <1>2, <2>2
  <2>4. "tokens" \in {"tokens", "read"}
    OBVIOUS
  <2> QED BY <1>2, <2>1, <2>2, <2>3, <2>4, FoundKeeps
<1>6. CASE FetchTokens(t)
  <2>1. reading[t].at = "tokens"
    BY <1>6 DEF FetchTokens
  <2>2. PICK v \in 0..sent :
            Sees(v) /\ Fetched(t, IF v < reading[t].value THEN v ELSE reading[t].value)
    BY <1>6 DEF FetchTokens
  <2> DEFINE least == IF v < reading[t].value THEN v ELSE reading[t].value
  <2>3. least \in Nat /\ least <= sent /\ (v = sent => least = reading[t].value)
    BY <1>1
  <2>4. "read" \in {"tokens", "read"}
    OBVIOUS
  <2> HIDE DEF least
  <2>5. Fetched(t, least) /\ (~tangled' => least = reading[t].value)
    BY <1>2, <2>2, <2>3 DEF least
  <2> QED BY <1>2, <2>1, <2>2, <2>3, <2>4, <2>5, FoundKeeps DEF Fetched
<1> QED BY <1>4, <1>5, <1>6 DEF Look

\* An answer goes to all who wait for it.
LEMMA AnswerKeeps ==
    ASSUME FigureInv, NEW t \in Tasks, Answer(t)
    PROVE  FigureInv'
<1> DEFINE value == reading[t].value
           Waits(u) == task[u].hold.at = "awaits" /\ task[u].hold.from = t
           answered(u) == [task[u] EXCEPT !.hold = Gets(value)]
<1>1. /\ FigureType /\ UpToSent /\ Ordered /\ OneRead /\ AdjustsAlone /\ LookedAfter
      /\ reading[t].at = "read" /\ reading' = [reading EXCEPT ![t] = NoRequest]
      /\ task' = [u \in Tasks |-> IF Waits(u) THEN answered(u) ELSE task[u]]
      /\ cache' = IF figure \notin Cacheable THEN cache
                  ELSE [value |-> value, recent |-> TRUE, inflight |-> NoOne]
      /\ UNCHANGED <<figure, sent, screen, dealt, tangled, faults>>
  BY DEF FigureInv, Answer, Gets
<1>2. /\ Gets(value).at = "got" /\ Gets(value).value = value /\ Gets(value) # NoHold
      /\ value \in Nat /\ value <= sent /\ Gets(value) \in Hold
  BY <1>1 DEF Gets, NoHold, FigureType, Request, UpToSent, Hold
<1>3. /\ Holds(t) /\ Waits(t) /\ (figure \in Cacheable /\ ~tangled => cache.inflight = t)
  <2>1. Waits(t) /\ InOrder(t)
    BY <1>1 DEF Ordered, InOrder
  <2>2. Holds(t)
    BY <1>1, <2>1, Holding
  <2> QED BY <1>1, <2>1, <2>2 DEF OneRead
<1>4. ASSUME NEW u \in Tasks
      PROVE  /\ task'[u] \in TaskState
             /\ task'[u].plan = task[u].plan /\ task'[u].at = task[u].at
             /\ task'[u].step = task[u].step /\ task'[u].tx = task[u].tx
             /\ task'[u].hold = IF Waits(u) THEN Gets(value) ELSE task[u].hold
  <2>1. task[u] \in TaskState /\ task'[u] = IF Waits(u) THEN answered(u) ELSE task[u]
    BY <1>1 DEF FigureType
  <2> HIDE DEF Waits
  <2> QED BY <1>2, <2>1 DEF TaskState
<1>5. ASSUME NEW u \in Tasks
      PROVE  /\ Holds(u)' <=> Holds(u)
             /\ WillAdjust(u)' <=> WillAdjust(u)
             /\ WillReadAfresh(u)' <=> WillReadAfresh(u)
             /\ WillShow(u)' <=> WillShow(u)
  <2>1. InOrder(u) /\ (Holds(u) <=> task[u].hold.at # "none")
    BY <1>1, Holding DEF Ordered
  <2>2. Holds(u)' <=> Holds(u)
    BY <1>2, <1>4, <2>1 DEF Holds
  <2>3. WillAdjust(u)' <=> WillAdjust(u)
    BY <1>1, <1>4 DEF WillAdjust, Adjusts
  <2>4. WillReadAfresh(u)' <=> WillReadAfresh(u)
    BY <1>1, <1>4 DEF WillReadAfresh, Fresh, Asks
  <2>5. WillShow(u)' <=> WillShow(u)
    BY <1>4, <2>2 DEF WillShow
  <2> QED BY <2>2, <2>3, <2>4, <2>5
<1>6. /\ reading' \in [Tasks -> Request] /\ reading'[t].at = "none" /\ reading'[t].value = 0
      /\ \A u \in Tasks : u # t => reading'[u] = reading[u]
      /\ cache' \in CacheState /\ cache'.value <= sent
      /\ figure \in Cacheable => cache'.inflight = NoOne /\ cache'.value = value
      /\ figure \notin Cacheable => cache' = cache
  BY <1>1, <1>2 DEF FigureType, UpToSent, Request, NoRequest, CacheState
<1>7. FigureType' /\ UpToSent'
  <2>1. task' \in [Tasks -> TaskState]
    BY <1>1, <1>4
  <2> QED BY <1>1, <1>2, <1>6, <2>1 DEF FigureType, UpToSent
<1>8. Ordered'
  <2>1. ASSUME NEW u \in Tasks PROVE InOrder(u)'
    <3>1. InOrder(u)
      BY <1>1 DEF Ordered
    <3>2. CASE Waits(u)
      <4>1. reading'[u].at = "none"
        <5>1. CASE u = t
          BY <1>6, <5>1
        <5>2. CASE u # t
          BY <1>6, <3>1, <3>2, <5>2 DEF InOrder
        <5> QED BY <5>1, <5>2
      <4>2. task'[u].hold = Gets(value)
        BY <1>4, <3>2
      <4> QED BY <1>1, <1>2, <1>4, <1>5, <3>1, <4>1, <4>2 DEF InOrder, Asks
    <3>3. CASE ~Waits(u)
      <4>1. u # t /\ reading'[u] = reading[u] /\ task'[u].hold = task[u].hold
        BY <1>3, <1>4, <1>6, <3>3
      <4>2. task[u].hold.at = "awaits" => reading'[task[u].hold.from].at # "none"
        BY <1>6, <3>1, <3>3 DEF InOrder
      <4> QED BY <1>1, <1>4, <1>5, <3>1, <4>1, <4>2 DEF InOrder, Asks
    <3> QED BY <3>2, <3>3
  <2>2. cache'.inflight # NoOne => FALSE
    BY <1>1, <1>6 DEF Ordered
  <2> QED BY <2>1, <2>2 DEF Ordered
<1>9. ASSUME ~tangled PROVE OneRead' /\ AdjustsAlone' /\ LookedAfter'
  <2>1. OneRead'
    <3>1. CASE figure \in Cacheable
      <4>1. ASSUME NEW u \in Tasks, Holds(u)
            PROVE  task'[u].hold.at = "got" /\ task'[u].hold.value = cache'.value
        <5>1. Waits(u)
          BY <1>1, <1>3, <1>9, <3>1, <4>1, FigureAssumption DEF OneRead
        <5> QED BY <1>2, <1>4, <1>6, <3>1, <5>1
      <4> QED BY <1>1, <1>5, <1>6, <3>1, <4>1 DEF OneRead
    <3>2. CASE figure \notin Cacheable
      BY <1>1, <1>5, <1>9, <3>2 DEF OneRead
    <3> QED BY <3>1, <3>2
  <2>2. AdjustsAlone'
    BY <1>1, <1>4, <1>5, <1>9 DEF AdjustsAlone, Meets
  <2>3. ASSUME NEW x \in dealt, Current(x) PROVE Current(x)'
    <3>1. x <= value
      BY <1>1, <1>3, <2>3 DEF Current, Carries
    <3>2. ASSUME NEW u \in Tasks, Holds(u) PROVE Carries(u, x)'
      <4>1. Carries(u, x) /\ InOrder(u) /\ task[u].hold.at \in {"awaits", "got"}
        BY <1>1, <2>3, <3>2, Holding DEF Current, Ordered
      <4>2. CASE Waits(u)
        BY <1>2, <1>4, <3>1, <4>2 DEF Carries
      <4>3. CASE ~Waits(u)
        <5>1. task'[u].hold = task[u].hold
          BY <1>4, <4>3
        <5>2. task[u].hold.at = "awaits" => task[u].hold.from \in Tasks \ {t}
          BY <4>1, <4>3 DEF InOrder
        <5> QED BY <1>6, <4>1, <5>1, <5>2 DEF Carries
      <4> QED BY <4>2, <4>3
    <3> QED BY <1>1, <1>5, <1>6, <2>3, <3>1, <3>2 DEF Current, ShownOnce
  <2>4. LookedAfter'
    BY <1>1, <1>4, <1>5, <1>9, <2>3 DEF LookedAfter
  <2> QED BY <2>1, <2>2, <2>4
<1>10. OneRead' /\ AdjustsAlone' /\ LookedAfter'
  BY <1>1, <1>9 DEF OneRead, AdjustsAlone, LookedAfter
<1> QED BY <1>7, <1>8, <1>10 DEF FigureInv

\* What was read ten seconds ago is not shared any more.
LEMMA TenSecondsKeep ==
    ASSUME FigureInv, TenSecondsPass
    PROVE  FigureInv'
<1>1. /\ FigureType /\ UpToSent /\ Ordered /\ OneRead /\ AdjustsAlone /\ LookedAfter
      /\ cache' = [cache EXCEPT !.recent = FALSE]
      /\ UNCHANGED <<figure, sent, task, reading, screen, dealt, tangled>>
  BY DEF FigureInv, TenSecondsPass
<1>2. /\ cache' \in CacheState /\ cache'.value = cache.value /\ ~cache'.recent
      /\ cache'.inflight = cache.inflight
  BY <1>1 DEF FigureType, CacheState
<1>3. \A u \in Tasks : /\ Holds(u)' <=> Holds(u)
                       /\ WillAdjust(u)' <=> WillAdjust(u)
                       /\ WillReadAfresh(u)' <=> WillReadAfresh(u)
                       /\ WillShow(u)' <=> WillShow(u)
  BY <1>1, Untouched
<1>4. FigureType' /\ UpToSent'
  BY <1>1, <1>2 DEF FigureType, UpToSent
<1>5. Ordered'
  BY <1>1, <1>2, <1>3 DEF Ordered, InOrder, Asks
<1>6. OneRead'
  BY <1>1, <1>2, <1>3 DEF OneRead
<1>7. AdjustsAlone'
  BY <1>1, <1>3 DEF AdjustsAlone, Meets
<1>8. \A x \in dealt : Current(x) => Current(x)'
  BY <1>1, <1>2, <1>3 DEF Current, ShownOnce, Carries
<1>9. LookedAfter'
  BY <1>1, <1>3, <1>8 DEF LookedAfter
<1> QED BY <1>4, <1>5, <1>6, <1>7, <1>9 DEF FigureInv

\* A figure that has arrived is shown, and nothing else of the plan is about it.
LEMMA ArrivedKeeps ==
    ASSUME FigureInv, NEW t \in Tasks, Show(t), Holds(t)
    PROVE  FigureInv'
<1> DEFINE plan == task[t].plan
           step == task[t].step
           group == plan.reads[step]
           value == task[t].hold.value
           later == AskState(plan, step + 1, NoHold)
<1>1. /\ FigureType /\ UpToSent /\ Ordered /\ OneRead /\ AdjustsAlone /\ LookedAfter
      /\ InOrder(t) /\ task[t].at = "await" /\ sent \in Nat
      /\ UNCHANGED <<figure, sent, dealt>>
      /\ screen \in [seen : Nat, added : SUBSET Nat]
      /\ screen.seen <= sent /\ \A x \in screen.added : x <= sent
  BY DEF FigureInv, Ordered, Show, FigureType, UpToSent
<1>2. /\ task[t] \in TaskState /\ plan \in Plans /\ step \in Nat /\ PlanInOrder(plan)
      /\ task[t].hold.at = "got" /\ value \in Nat /\ value <= sent
      /\ reading[t].at = "none"
  <2>1. /\ task[t] \in TaskState /\ task[t].hold \in Hold /\ task[t].hold.at \in {"awaits", "got"}
    BY <1>1, Holding
  <2>2. task[t].hold.at = "got"
    BY <2>1 DEF Show
  <2>3. plan \in Plans /\ step \in Nat /\ value \in Nat
    BY <2>1 DEF TaskState, Hold
  <2> QED BY <1>1, <2>1, <2>2, <2>3, PlansInOrder DEF InOrder
<1>3. /\ step \in DOMAIN plan.reads /\ Asks(group)
      /\ \A k \in DOMAIN plan.reads : k # step => ~Asks(plan.reads[k])
  BY <1>1, <1>2 DEF InOrder, PlanInOrder
<1>4. PICK next \in {Idle, later} :
          Becomes(t, next) /\ UNCHANGED <<reading, cache, tangled>>
                  /\ (next = later => step + 1 \in DOMAIN plan.reads)
  <2>1. CASE step < Len(plan.reads)
    <3>1. step + 1 \in DOMAIN plan.reads /\ step + 1 # step
      BY <1>2, <2>1 DEF PlanInOrder
    <3>2. Ask(t, plan, step + 1) /\ ~Asks(plan.reads[step + 1])
      BY <1>3, <2>1, <3>1 DEF Show
    <3>3. Becomes(t, later) /\ UNCHANGED <<reading, cache, tangled>>
      BY <3>2 DEF Ask, Becomes, AskState
    <3> QED BY <3>1, <3>3
  <2>2. CASE ~(step < Len(plan.reads))
    <3>1. Becomes(t, Idle) /\ UNCHANGED <<reading, cache, tangled>>
      BY <2>2 DEF Show, Becomes
    <3>2. Idle # later
      BY DEF Idle, AskState
    <3> QED BY <3>1, <3>2
  <2> QED BY <2>1, <2>2
<1>5. /\ next \in TaskState /\ next.hold = NoHold /\ next.at \in {"idle", "await"}
      /\ next.tx = 0
      /\ next.at = "await" => /\ next.plan = plan /\ next.step = step + 1
                              /\ step + 1 \in DOMAIN plan.reads
  <2>1. CASE next = Idle
    BY <2>1, IdleState
  <2>2. CASE next = later
    <3>1. NoHold \in Hold /\ step + 1 \in Nat
      BY <1>2 DEF NoHold, Hold
    <3> QED BY <1>2, <1>4, <2>2, <3>1 DEF AskState, TaskState
  <2> QED BY <1>4, <2>1, <2>2
<1> HIDE DEF later
<1>6. /\ task' \in [Tasks -> TaskState] /\ task'[t] = next
      /\ \A u \in Tasks : u # t => task'[u] = task[u]
  BY <1>1, <1>4, <1>5, Became
<1>7. \A u \in Tasks : u # t => /\ Holds(u)' <=> Holds(u)
                                /\ WillAdjust(u)' <=> WillAdjust(u)
                                /\ WillReadAfresh(u)' <=> WillReadAfresh(u)
                                /\ WillShow(u)' <=> WillShow(u)
  BY <1>1, <1>6, Untouched
<1>8. ~Holds(t)' /\ ~WillAdjust(t)' /\ ~WillReadAfresh(t)
  <2>1. ~Holds(t)' /\ ~WillAdjust(t)'
    BY <1>5, <1>6 DEF Holds, WillAdjust
  <2>2. \A k \in DOMAIN plan.reads : k > step => k # step
    BY <1>2
  <2>3. ~WillReadAfresh(t)
    BY <1>3, <2>2 DEF WillReadAfresh, Fresh
  <2> QED BY <2>1, <2>3
<1>9. /\ screen' \in [seen : Nat, added : SUBSET Nat] /\ screen'.seen <= sent
      /\ \A x \in screen'.added : x <= sent
      /\ group.shown => screen'.seen = value /\ screen'.added = {}
      /\ ~group.shown => screen' = screen
  <2>1. screen' = IF group.shown THEN [seen |-> value, added |-> {}] ELSE screen
    BY DEF Show
  <2> HIDE DEF group, value
  <2> QED BY <1>1, <1>2, <2>1
<1>10. FigureType' /\ UpToSent'
  BY <1>1, <1>4, <1>6, <1>9 DEF FigureType, UpToSent
<1>11. InOrder(t)'
  <2>1. next.at = "await" => ~Asks(plan.reads[next.step])
    BY <1>2, <1>3, <1>5
  <2> QED BY <1>1, <1>2, <1>4, <1>5, <1>6, <1>8, <2>1 DEF InOrder, NoHold, Asks
<1>12. Ordered'
  BY <1>1, <1>4, <1>5, <1>11, OrderKept DEF Ordered
<1>13. ASSUME ~tangled PROVE OneRead' /\ AdjustsAlone' /\ LookedAfter'
  <2>1. \A u \in Tasks : ~WillAdjust(u) /\ ~WillAdjust(u)'
    <3>1. ~WillAdjust(t)
      BY <1>1 DEF WillAdjust
    <3>2. \A u \in Tasks : u # t => ~WillAdjust(u)
      BY <1>1, <1>13 DEF AdjustsAlone, Meets
    <3> QED BY <1>7, <1>8, <3>1, <3>2
  <2>2. OneRead'
    BY <1>1, <1>4, <1>6, <1>7, <1>8, <1>13 DEF OneRead
  <2>3. AdjustsAlone'
    BY <2>1 DEF AdjustsAlone
  <2>4. ASSUME NEW x \in dealt, Current(x) PROVE Current(x)'
    <3>1. x <= value
      BY <1>2, <2>4 DEF Current, Carries
    <3>2. \A u \in Tasks : u # t /\ Carries(u, x) => Carries(u, x)'
      BY <1>4, <1>6 DEF Carries
    <3>3. ShownOnce(x)' \/ \E u \in Tasks : WillShow(u)'
      <4>1. CASE group.shown
        BY <1>9, <3>1, <4>1 DEF ShownOnce
      <4>2. CASE ~group.shown
        <5>1. ~WillShow(t) /\ (ShownOnce(x)' <=> ShownOnce(x))
          BY <1>9, <4>2 DEF WillShow, ShownOnce
        <5> QED BY <1>7, <2>4, <5>1 DEF Current
      <4> QED BY <4>1, <4>2
    <3> QED BY <1>1, <1>4, <1>7, <1>8, <2>4, <3>2, <3>3 DEF Current
  <2>5. LookedAfter'
    BY <1>1, <1>7, <1>8, <1>13, <2>1, <2>4 DEF LookedAfter
  <2> QED BY <2>2, <2>3, <2>5
<1>14. OneRead' /\ AdjustsAlone' /\ LookedAfter'
  BY <1>4, <1>13 DEF OneRead, AdjustsAlone, LookedAfter
<1> QED BY <1>10, <1>12, <1>14 DEF FigureInv

\* Something else has arrived.
LEMMA ShowKeeps ==
    ASSUME FigureInv, NEW t \in Tasks, Show(t)
    PROVE  FigureInv'
<1> DEFINE plan == task[t].plan
           step == task[t].step
<1>1. /\ FigureType /\ task[t] \in TaskState /\ plan \in Plans /\ step \in Nat
      /\ PlanInOrder(plan) /\ task[t].at = "await" /\ ~WillAdjust(t)
      /\ UNCHANGED <<figure, sent, dealt>>
  <2>1. FigureType /\ task[t] \in TaskState /\ plan \in Plans /\ step \in Nat
    BY DEF FigureInv, FigureType, TaskState
  <2> QED BY <2>1, PlansInOrder DEF Show, WillAdjust
<1>2. CASE ~Holds(t) /\ step < Len(plan.reads)
  <2>1. step + 1 \in DOMAIN plan.reads /\ Ask(t, plan, step + 1) /\ screen' = screen
    BY <1>1, <1>2 DEF PlanInOrder, Show
  <2> QED BY <1>1, <1>2, <2>1, AskKeeps
<1>3. CASE ~Holds(t) /\ ~(step < Len(plan.reads))
  <2>1. /\ Becomes(t, Idle) /\ UNCHANGED <<reading, cache, tangled, screen>>
    BY <1>3 DEF Show, Becomes
  <2>2. ~WillReadAfresh(t)
    BY <1>1, <1>3 DEF WillReadAfresh, PlanInOrder
  <2>3. task'[t] = Idle
    BY <1>1, <2>1, IdleState, Became
  <2>4. ~Holds(t)' /\ ~WillAdjust(t)'
    BY <2>3, IdleState DEF Holds, WillAdjust
  <2>5. ~tangled' => OneRead' /\ AdjustsAlone' /\ LookedAfter'
    BY <1>1, <1>3, <2>1, <2>2, <2>4, IdleState, QuietKeeps
  <2> QED BY <1>1, <1>3, <2>1, <2>5, IdleState, RestKeeps DEF FigureInv, FigureType, UpToSent
<1> QED BY <1>2, <1>3, ArrivedKeeps

LEMMA FigureInvInit == FigureInit => FigureInv
<1> SUFFICES ASSUME FigureInit PROVE FigureInv
  OBVIOUS
<1>1. /\ sent = 0 /\ figure \in Figures /\ dealt = {} /\ tangled = FALSE
      /\ cache = [value |-> 0, recent |-> FALSE, inflight |-> NoOne]
      /\ screen = [seen |-> 0, added |-> {}]
      /\ \A t \in Tasks : task[t] = Idle /\ reading[t] = NoRequest
      /\ task = [t \in Tasks |-> Idle] /\ reading = [t \in Tasks |-> NoRequest]
  BY DEF FigureInit
<1>2. NoRequest \in Request /\ NoRequest.at = "none" /\ NoRequest.value = 0
      /\ NoHold.at = "none"
  BY DEF NoRequest, Request, NoHold
<1>3. \A t \in Tasks : ~Holds(t) /\ ~WillAdjust(t)
  BY <1>1, IdleState DEF Holds, WillAdjust
<1>4. FigureType
  BY <1>1, <1>2, IdleState DEF FigureType, CacheState
<1>5. UpToSent
  BY <1>1, <1>2 DEF UpToSent
<1>6. Ordered
  BY <1>1, <1>2, <1>3, IdleState DEF Ordered, InOrder
<1>7. OneRead /\ AdjustsAlone /\ LookedAfter
  BY <1>1, <1>3 DEF OneRead, AdjustsAlone, LookedAfter
<1> QED BY <1>4, <1>5, <1>6, <1>7 DEF FigureInv

LEMMA FigureInvStep == FigureInv /\ [FigureNext]_figureVars => FigureInv'
<1> SUFFICES ASSUME FigureInv, [FigureNext]_figureVars PROVE FigureInv'
  OBVIOUS
<1>1. CASE TenSecondsPass
  BY <1>1, TenSecondsKeep
<1>2. ASSUME NEW t \in Tasks, TaskStep(t) PROVE FigureInv'
  BY <1>2, ExecutedKeeps, GivesUpKeeps, WorkOutKeeps, ReadAgainKeeps, LookKeeps, AnswerKeeps,
     ShowKeeps DEF TaskStep
<1>3. ASSUME NEW t \in Tasks, NEW p \in Loads, Begin(t, p) PROVE FigureInv'
  BY <1>3, BeginKeeps
<1>4. ASSUME NEW t \in Tasks, NEW p \in Handlings, Tap(t, p) PROVE FigureInv'
  BY <1>4, TapKeeps
<1>5. CASE UNCHANGED figureVars
  BY <1>5 DEF figureVars, FigureInv, FigureType, UpToSent, Ordered, InOrder, OneRead, AdjustsAlone,
     LookedAfter, Holds, Asks, WillAdjust, Adjusts, Meets, WillReadAfresh, Fresh, Current,
     ShownOnce, Carries, WillShow
<1> QED BY <1>1, <1>2, <1>3, <1>4, <1>5 DEF FigureNext

\* "Post-mutation refreshes pass { force: true } and bypass it"
\* (onChainService.ts:80-82): whatever the tasks under way, once nobody is at
\* work on a figure and no reads or adjustments of it met or went wrong, every
\* transaction whose handler looks after it is on the screen exactly once.
THEOREM DealingsAreShown == FigureSpec => []DealingsShowOnce
<1>1. FigureInit => FigureInv
  BY FigureInvInit
<1>2. FigureInv /\ [FigureNext]_figureVars => FigureInv'
  BY FigureInvStep
<1>3. FigureInv => DealingsShowOnce
  BY FigureInvHolds
<1> QED BY <1>1, <1>2, <1>3, PTL DEF FigureSpec
=============================================================================
