--------------------------- MODULE ScreenFigures ---------------------------
(***************************************************************************)
(* The figures on the phone's screens (pools, SKR yield, profile, wallet   *)
(* assets) after the user's own transactions: App.tsx reads some of them   *)
(* again, through cachedFetch or not, and works out others by itself.      *)
(*                                                                         *)
(* One wallet on one network, and of the four figures the one a behaviour  *)
(* is about: what is read along with it only takes its time.  What the     *)
(* figure says is how many of the wallet's transactions it includes;       *)
(* nobody else's matter here.                                              *)
(***************************************************************************)
EXTENDS Naturals, Sequences

CONSTANTS
    Tasks,      \* names for the loads, refreshes and handlers under way
    NoOne,
    MaxSent,    \* bound on the wallet's transactions
    MaxFaults   \* bound on failed or late endpoints, lost and misread confirmations

ASSUME FigureAssumption == NoOne \notin Tasks /\ MaxSent \in Nat /\ MaxFaults \in Nat

Figures == {"pools", "yield", "profile", "assets"}
Cacheable == {"pools", "yield"}     \* what goes through cachedFetch

VARIABLES
    figure,     \* what this behaviour follows
    sent,       \* how many of the wallet's transactions the chain has executed
    task,       \* [Tasks -> what is under way]
    reading,    \* [Tasks -> the task's own request for the figure]
    cache,      \* its entry of fetchCache
    screen,     \* transactions up to `seen` were read, `added` worked out
    dealt,      \* the transactions whose handlers look after the figure
    tangled,    \* whether reads of it overlapped or went wrong lately
    faults

figureVars == <<figure, sent, task, reading, cache, screen, dealt, tangled, faults>>

\* A task's hold on the figure: it awaits the request of `from`, or has got it.
NoHold == [at |-> "none", from |-> NoOne, value |-> 0]
NoRequest == [at |-> "none", value |-> 0]

-----------------------------------------------------------------------------
(* What App.tsx does about the figures: `adjusts` at once, then `reads`,   *)
(* one group after the other, each shown when all of it has arrived.       *)

Read(figures) == [asks |-> figures, forced |-> FALSE, shown |-> TRUE]
Forced(figures) == [Read(figures) EXCEPT !.forced = TRUE]
Unshown(figures) == [Read(figures) EXCEPT !.shown = FALSE]
Plan(adjusts, reads) == [adjusts |-> adjusts, reads |-> reads]

refreshWalletAssets == Plan({}, <<Read({"assets"})>>)
loadProtocolData == Plan({}, <<Read({"pools", "yield", "profile"}), Read({"assets"})>>)
\* A part of the load: the names of the loans' pools.
fetchLiveUserOrders == Plan({}, <<Unshown({"pools"})>>)

handleBorrow == refreshWalletAssets
handleRepay == Plan({"assets", "profile"}, <<>>)
handleCreatePawnOffer == Plan({"assets"}, <<>>)
handleFundPawnOffer == Plan({"assets", "profile"}, <<>>)
handleRepayPawnOffer == Plan({}, <<Read({"assets"}), Read({"profile"})>>)
handleCancelPawnOffer == refreshWalletAssets
handleCreatePool == Plan({}, <<Forced({"pools"}), Read({"assets"})>>)
handleClaimYield == Plan({}, <<Forced({"yield"}), Read({"assets"})>>)
handleStakeSkr == Plan({}, <<Read({"assets"}), Read({"profile"})>>)
handleUnstakeSkr == Plan({}, <<Read({"assets"}), Read({"profile"})>>)
\* Not awaited, and not forced.
handleDepositLiquidity == Plan({}, <<Read({"pools"})>>)

Loads == {loadProtocolData, fetchLiveUserOrders, refreshWalletAssets}
Handlings ==
    {handleBorrow, handleRepay, handleCreatePawnOffer, handleFundPawnOffer, handleRepayPawnOffer,
     handleCancelPawnOffer, handleCreatePool, handleClaimYield, handleStakeSkr,
     handleUnstakeSkr, handleDepositLiquidity}

Adjusts(plan) == figure \in plan.adjusts
Asks(group) == figure \in group.asks

\* The handler means to show the transaction's effect; after a deposit the
\* pools may be the ones of up to ten seconds before.
LooksAfter(plan) ==
    \/ Adjusts(plan)
    \/ plan # handleDepositLiquidity /\ \E k \in DOMAIN plan.reads : Asks(plan.reads[k])

Idle == [plan |-> Plan({}, <<>>), at |-> "idle", step |-> 0, hold |-> NoHold, tx |-> 0]

FigureInit ==
    /\ figure \in Figures
    /\ sent = 0 /\ faults = 0
    /\ task = [t \in Tasks |-> Idle]
    /\ reading = [t \in Tasks |-> NoRequest]
    /\ cache = [value |-> 0, recent |-> FALSE, inflight |-> NoOne]
    /\ screen = [seen |-> 0, added |-> {}]
    /\ dealt = {} /\ tangled = FALSE

-----------------------------------------------------------------------------
(* Reads and adjustments that meet.                                        *)

Holds(t) == task[t].hold # NoHold
WillAdjust(t) == task[t].at = "sent" /\ Adjusts(task[t].plan)
WillRead(t) ==
    /\ task[t].at \in {"sent", "await"}
    /\ \E k \in DOMAIN task[t].plan.reads : k > task[t].step /\ Asks(task[t].plan.reads[k])

\* Another task has read the figure, or will change it, for what it did earlier.
Meets(t) == \E u \in Tasks \ {t} : Holds(u) \/ WillAdjust(u)

Fault == faults < MaxFaults /\ faults' = faults + 1

-----------------------------------------------------------------------------
(* Asking: cachedFetch, for the figures that go through it.                *)

\* Unless it is forced, an ask shares the request under way, or takes a value
\* less than ten seconds old.
Shares(group) == figure \in Cacheable /\ ~group.forced /\ cache.inflight # NoOne
TakesCached(group) ==
    figure \in Cacheable /\ ~group.forced /\ cache.inflight = NoOne /\ cache.recent

\* Slip: a forced ask shares the request under way as well.
AwaitedUnforced(t, group) ==
    IF figure \in Cacheable /\ cache.inflight # NoOne THEN cache.inflight ELSE t

\* Whose request answers the ask
Awaited(t, group) == IF Shares(group) THEN cache.inflight ELSE t

\* A request that meets no other of the figure, and is shown, starts it afresh.
Ask(t, plan, step) ==
    LET group == plan.reads[step]
        Waiting(hold) == task' = [task EXCEPT ![t] =
            [plan |-> plan, at |-> "await", step |-> step, hold |-> hold, tx |-> 0]]
    IN  \/ /\ ~Asks(group)
           /\ Waiting(NoHold)
           /\ UNCHANGED <<reading, cache, tangled>>
        \/ /\ Asks(group) /\ TakesCached(group)
           /\ Waiting([at |-> "got", from |-> NoOne, value |-> cache.value])
           /\ UNCHANGED <<reading, cache, tangled>>
        \/ /\ Asks(group) /\ ~TakesCached(group)
           /\ Waiting([at |-> "awaits", from |-> Awaited(t, group), value |-> 0])
           /\ IF Awaited(t, group) # t THEN UNCHANGED <<reading, cache, tangled>>
              ELSE /\ reading' = [reading EXCEPT ![t].at = "asked"]
                   /\ cache' = [cache EXCEPT !.inflight = IF figure \in Cacheable THEN t ELSE NoOne]
                   /\ tangled' = (Meets(t) \/ (tangled /\ ~group.shown))

-----------------------------------------------------------------------------
(* Loads and handlers.                                                     *)

\* Connecting, a tap on the circle, opening the list of assets.
Begin(t, plan) ==
    /\ task[t] = Idle
    /\ Ask(t, plan, 1)
    /\ UNCHANGED <<figure, sent, screen, dealt, faults>>

Tap(t, plan) ==
    /\ task[t] = Idle
    /\ task' = [task EXCEPT ![t] = [Idle EXCEPT !.plan = plan, !.at = "wallet"]]
    /\ UNCHANGED <<figure, sent, reading, cache, screen, dealt, tangled, faults>>

\* The program executes the transaction; the app does not know yet.
Executed(t) ==
    /\ task[t].at = "wallet" /\ sent < MaxSent
    /\ sent' = sent + 1
    /\ task' = [task EXCEPT ![t].at = "sent", ![t].tx = sent + 1]
    /\ dealt' = IF LooksAfter(task[t].plan) THEN dealt \cup {sent + 1} ELSE dealt
    /\ tangled' = (tangled \/ (Adjusts(task[t].plan) /\ Meets(t)))
    /\ UNCHANGED <<figure, reading, cache, screen, faults>>

\* Cancelled in the wallet; or executed, and the confirmation is lost.
GivesUp(t) ==
    /\ \/ task[t].at = "wallet" /\ UNCHANGED <<tangled, faults>>
       \/ task[t].at = "sent" /\ Fault /\ tangled' = (tangled \/ LooksAfter(task[t].plan))
    /\ task' = [task EXCEPT ![t] = Idle]
    /\ UNCHANGED <<figure, sent, reading, cache, screen, dealt>>

\* Past signAndSendSeekerTransaction: a transaction the program refused is
\* taken for one it executed.
Returns(t) ==
    \/ task[t].at = "sent" /\ UNCHANGED faults
    \/ task[t].at = "wallet" /\ Fault

WorkOut(t) ==
    /\ Returns(t)
    /\ task[t].plan.reads = <<>>
    /\ screen' = IF Adjusts(task[t].plan) THEN [screen EXCEPT !.added = @ \cup {task[t].tx}] ELSE screen
    /\ tangled' = (tangled \/ (Adjusts(task[t].plan) /\ (Meets(t) \/ task[t].at = "wallet")))
    /\ task' = [task EXCEPT ![t] = Idle]
    /\ UNCHANGED <<figure, sent, reading, cache, dealt>>

ReadAgain(t) ==
    /\ Returns(t)
    /\ task[t].plan.reads # <<>>
    /\ Ask(t, task[t].plan, 1)
    /\ UNCHANGED <<figure, sent, screen, dealt>>

-----------------------------------------------------------------------------
(* Answers.                                                                *)

\* An endpoint looks at the chain; a second endpoint may be behind the first,
\* and when all fail the figure is shown as if there were nothing.
Sees(value) ==
    \/ value = sent /\ UNCHANGED <<tangled, faults>>
    \/ value < sent /\ Fault /\ tangled' = TRUE

Fetched(t, value) ==
    /\ reading' = [reading EXCEPT ![t] = [at |-> "read", value |-> value]]
    /\ UNCHANGED <<figure, sent, task, cache, screen, dealt>>

Asked(t, of) == figure = of /\ reading[t].at = "asked"

FetchPools(t) == Asked(t, "pools") /\ \E v \in 0..sent : Sees(v) /\ Fetched(t, v)
FetchProfile(t) == Asked(t, "profile") /\ \E v \in 0..sent : Sees(v) /\ Fetched(t, v)

\* The vault and the position, always asked for together: the older of the two.
FetchYield(t) == Asked(t, "yield") /\ \E v \in 0..sent : Sees(v) /\ Fetched(t, v)

\* First the SOL, then, after the prices, the tokens: what the wallet's assets
\* are known to include is what the SOL does.
FetchSol(t) ==
    /\ Asked(t, "assets")
    /\ \E v \in 0..sent :
        /\ Sees(v)
        /\ reading' = [reading EXCEPT ![t] = [at |-> "tokens", value |-> v]]
    /\ UNCHANGED <<figure, sent, task, cache, screen, dealt>>

FetchTokens(t) ==
    /\ reading[t].at = "tokens"
    /\ \E v \in 0..sent : Sees(v) /\ Fetched(t, IF v < reading[t].value THEN v ELSE reading[t].value)

Look(t) == FetchPools(t) \/ FetchProfile(t) \/ FetchYield(t) \/ FetchSol(t) \/ FetchTokens(t)

Answer(t) ==
    LET Waits(u) == task[u].hold.at = "awaits" /\ task[u].hold.from = t
        Got == [at |-> "got", from |-> NoOne, value |-> reading[t].value]
    IN  /\ reading[t].at = "read"
        /\ reading' = [reading EXCEPT ![t] = NoRequest]
        /\ task' = [u \in Tasks |-> IF Waits(u) THEN [task[u] EXCEPT !.hold = Got] ELSE task[u]]
        /\ cache' = IF figure \notin Cacheable THEN cache
                    ELSE [value |-> reading[t].value, recent |-> TRUE, inflight |-> NoOne]
        /\ UNCHANGED <<figure, sent, screen, dealt, tangled, faults>>

\* All of a group has arrived; the next is asked for in the same breath.
Show(t) ==
    /\ task[t].at = "await" /\ task[t].hold.at # "awaits"
    /\ screen' = IF Holds(t) /\ task[t].plan.reads[task[t].step].shown
                 THEN [seen |-> task[t].hold.value, added |-> {}] ELSE screen
    /\ IF task[t].step < Len(task[t].plan.reads)
       THEN Ask(t, task[t].plan, task[t].step + 1)
       ELSE task' = [task EXCEPT ![t] = Idle] /\ UNCHANGED <<reading, cache, tangled>>
    /\ UNCHANGED <<figure, sent, dealt, faults>>

TenSecondsPass ==
    /\ cache.recent
    /\ cache' = [cache EXCEPT !.recent = FALSE]
    /\ UNCHANGED <<figure, sent, task, reading, screen, dealt, tangled, faults>>

-----------------------------------------------------------------------------
TaskStep(t) ==
    Executed(t) \/ GivesUp(t) \/ WorkOut(t) \/ ReadAgain(t) \/ Look(t) \/ Answer(t) \/ Show(t)

FigureNext ==
    \/ TenSecondsPass
    \/ \E t \in Tasks :
        TaskStep(t) \/ (\E p \in Loads : Begin(t, p)) \/ (\E p \in Handlings : Tap(t, p))

FigureSpec == FigureInit /\ [][FigureNext]_figureVars

-----------------------------------------------------------------------------
\* "Post-mutation refreshes pass { force: true } and bypass it"
\* (onChainService.ts:80-82): once nobody is at work on the figure, every
\* transaction whose handler looks after it is on the screen exactly once,
\* read from the chain or worked out by the app: not missing because a cached
\* value came back, and not counted twice because it was read before it was
\* worked out; unless reads or adjustments of the figure met, or one went wrong.
DealingsShowOnce ==
    ~tangled /\ (\A t \in Tasks : ~(Holds(t) \/ WillAdjust(t) \/ WillRead(t))) =>
        \A tx \in dealt : (tx <= screen.seen) # (tx \in screen.added)
=============================================================================
