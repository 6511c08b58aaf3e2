--------------------------- MODULE ExpressBorrow ---------------------------
(***************************************************************************)
(* The borrow form of the phone app (P2PExpressView.tsx) over the live     *)
(* prices: it sizes the collateral of a loan with the price on the screen  *)
(* and hands the request to App.tsx, which scales it for the program.      *)
(*                                                                         *)
(* SKR is sized in whole coins, rounded up, SOL in thousandths, rounded to *)
(* the nearest.                                                            *)
(***************************************************************************)
EXTENDS LivePrices

CONSTANTS
    FormNetwork,    \* fetchLivePrices() is called without a network
    Amounts,        \* loans asked for, in dollars
    Balances,       \* wallet balances, in the smallest units the form deals in
    Ltv,            \* maxLtvBps of the pool, in percent
    Part            \* [Assets -> units per coin: 1 for SKR, 1000 for SOL]

ASSUME FormAssumption ==
    /\ FormNetwork \in Networks /\ Ltv \in 1..100
    /\ Amounts \subseteq Nat \ {0} /\ Balances \subseteq Nat
    /\ Part \in [Assets -> Nat \ {0}]

VARIABLE request    \* what the form is asking App.tsx to borrow

formVars == <<priceVars, request>>

Nothing == [amount |-> 0, asset |-> Sol, units |-> 0, price |-> Hardcoded, balance |-> 0]

FormInit == PriceInit /\ request = Nothing

CeilDiv(m, n) == (m + n - 1) \div n
RoundDiv(m, n) == (2 * m + n) \div (2 * n)

\* Collateral in units, times Ltv * price: (amount / ltv) / price
Raw(amount, asset) == amount * 100 * Part[asset]
Worth(asset) == Ltv * form.prices[asset]

\* Slip: SKR is rounded to the nearest too.
RequiredNearest(amount, asset) == RoundDiv(Raw(amount, asset), Worth(asset))

Required(amount, asset) ==
    IF asset = Sol THEN RoundDiv(Raw(amount, asset), Worth(asset))
    ELSE CeilDiv(Raw(amount, asset), Worth(asset))

\* requiredCollateralUnits > userBalance; SOL is compared before it is rounded.
Insufficient(amount, asset, balance) ==
    IF asset = Sol THEN Raw(amount, asset) > balance * Worth(asset)
    ELSE Required(amount, asset) > balance

\* The form shows the prices there are at once and asks for others.
OpenForm(i) ==
    /\ ~form.open
    /\ StartPoll(i, FormNetwork)
    /\ form' = [Shown(live, source) EXCEPT !.open = TRUE]
    /\ UNCHANGED <<chainFeed, live, recent, source, request>>

CloseForm ==
    /\ form.open
    /\ form' = [form EXCEPT !.open = FALSE]
    /\ request' = Nothing
    /\ UNCHANGED <<chainFeed, live, recent, source, listening, pushes, poll>>

\* The button is disabled without a live price source or enough collateral,
\* and while a request is being submitted.
Offered == form.open /\ form.available /\ request = Nothing

Borrow(amount, asset, balance) ==
    /\ Offered
    /\ ~Insufficient(amount, asset, balance)
    /\ request' = [amount |-> amount, asset |-> asset, units |-> Required(amount, asset),
                   price |-> form.prices[asset], balance |-> balance]
    /\ UNCHANGED priceVars

Submitted ==
    /\ request # Nothing
    /\ request' = Nothing
    /\ UNCHANGED priceVars

\* BORROW MAX: ninety percent of what the balance is good for, at least ten dollars
BorrowMax(asset, balance) ==
    LET most == (balance * 90 * form.prices[asset] * Ltv) \div (10000 * Part[asset])
    IN  balance > 0 /\ Borrow(IF most > 10 THEN most ELSE 10, asset, balance)

PricesMove == PriceNext /\ UNCHANGED request

FormNext ==
    \/ PricesMove \/ CloseForm \/ Submitted
    \/ \E i \in Polls : OpenForm(i)
    \/ \E asset \in Assets, balance \in Balances :
            BorrowMax(asset, balance) \/ \E amount \in Amounts : Borrow(amount, asset, balance)

FormSpec == FormInit /\ [][FormNext]_formVars

-----------------------------------------------------------------------------
\* While it is open the form shows livePrices, and offers loans exactly when
\* the source is not the baseline, whatever polls and pushes wrote them and in
\* whatever order they ended; only a poll still under way may have written
\* prices the listeners have not been told of.
FormShowsTheLivePrices ==
    form.open /\ (\A i \in Polls : poll[i].fresh = {}) =>
        form.prices = live /\ (form.available <=> source # "fallback-baseline")

\* At the price it was sized with, the collateral of a request carries its
\* loan (the program compares collateral value times LTV with the loan) and
\* fits the wallet's balance: for SKR exactly, for SOL but for the half a
\* thousandth that rounding to the nearest may take or add (what it takes, the
\* program misses where the loan is at the limit, and refuses).
QuotesAreSound ==
    LET half == IF request.asset = Sol THEN 1 ELSE 0
        worth == Ltv * request.price
    IN  request # Nothing =>
            /\ (2 * request.units + half) * worth >= 2 * Raw(request.amount, request.asset)
            /\ 2 * request.units <= 2 * request.balance + half
=============================================================================
