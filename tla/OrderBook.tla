----------------------------- MODULE OrderBook -----------------------------
(***************************************************************************)
(* The phone app's list of pool loans: on the screen (App.tsx, ordersRef), *)
(* in the secure store (getCachedOrders, setCachedOrders) and on the chain *)
(* (fetchLiveUserOrders), and what connecting, switching, loading and the  *)
(* borrow, repay and grace handlers do to them.                            *)
(*                                                                         *)
(* A home is a wallet on a network: the store keeps one list for each.     *)
(* What a handler or a load captured when it began it keeps, whatever home *)
(* the app has moved to since.                                             *)
(***************************************************************************)
EXTENDS Naturals

CONSTANTS
    Homes,          \* wallets, each on one network
    NoHome,         \* no wallet is connected
    LoanIds,
    Jobs,           \* names for the hydrations and loads under way
    Handlers,       \* names for the handlers under way
    MaxMishaps      \* calls that fail, answers that lag, kills, and moves, second loads or
                    \* second handlers in mid-course

ASSUME OrderAssumption == NoHome \notin Homes /\ MaxMishaps \in Nat

VARIABLES
    chain,      \* [LoanIds -> whose loan it is and where it stands]
    phone,      \* the home of session and selectedNetwork
    orders,     \* ordersRef, what the screen lists
    disk,       \* [Homes -> the stored list]
    job,        \* [Jobs -> hydrations and loads]
    handler,    \* [Handlers -> handlers waiting for the wallet or the store]
    history     \* loans to be stored or not, as far as nothing excuses them; mishaps

orderVars == <<chain, phone, orders, disk, job, handler, history>>

\* A list is a set of loans; what it says of them (terms, grace) is left out.
NoJob == [kind |-> "none", at |-> "idle", home |-> NoHome, cached |-> {}, list |-> {}]
NoHandler == [kind |-> "none", at |-> "idle", home |-> NoHome, loan |-> NoHome, list |-> {}]

OpenAt(home) == {l \in LoanIds : chain[l] = [home |-> home, status |-> "open"]}
TakenAt(home) == {l \in LoanIds : chain[l].home = home /\ chain[l].status # "none"}

Differ(list, other) == (list \ other) \cup (other \ list)

OrderInit ==
    /\ chain = [l \in LoanIds |-> [home |-> NoHome, status |-> "none"]]
    /\ phone = NoHome /\ orders = {}
    /\ disk = [h \in Homes |-> {}]
    /\ job = [j \in Jobs |-> NoJob]
    /\ handler = [i \in Handlers |-> NoHandler]
    /\ history = [mixed |-> FALSE, kept |-> {}, repaid |-> {}, mishaps |-> 0]

-----------------------------------------------------------------------------
(* The chain, as others change it.                                         *)

Elsewhere ==
    /\ \E l \in LoanIds :
        \/ \E h \in Homes : /\ chain[l].home = NoHome
                            /\ chain' = [chain EXCEPT ![l] = [home |-> h, status |-> "open"]]
        \/ chain[l].status = "open" /\ chain' = [chain EXCEPT ![l].status = "closed"]
    /\ UNCHANGED <<phone, orders, disk, job, handler, history>>

-----------------------------------------------------------------------------
(* Connecting, switching and disconnecting.                                *)

Mishap == history.mishaps < MaxMishaps
Excusing(loans) ==
    history' = [history EXCEPT !.kept = @ \ loans, !.repaid = @ \ loans, !.mishaps = @ + 1]
Overlapping(another) == IF another THEN Mishap /\ Excusing({}) ELSE UNCHANGED history
Races(racing) ==
    history' = IF racing THEN [history EXCEPT !.kept = {}, !.repaid = {}] ELSE history

UnderWay == (\E j \in Jobs : job[j] # NoJob) \/ (\E i \in Handlers : handler[i] # NoHandler)

Begins(js, h) ==
    LET Started(j) == [NoJob EXCEPT !.home = h, !.at = "cache",
                            !.kind = IF j = js[1] THEN "load" ELSE "hydration"]
    IN  [j \in Jobs |-> IF \E k \in DOMAIN js : js[k] = j THEN Started(j) ELSE job[j]]

Moves ==
    IF UnderWay
    THEN Mishap /\ history' = [mixed |-> TRUE, kept |-> {}, repaid |-> {}, mishaps |-> history.mishaps + 1]
    ELSE UNCHANGED history

\* The effect of a new public key or network: hydration and load start together.
SetHome(h) ==
    /\ h # phone
    /\ phone' = h
    /\ \E load, hydration \in {j \in Jobs : job[j] = NoJob} :
            load # hydration /\ job' = Begins(<<load, hydration>>, h)
    /\ Moves
    /\ UNCHANGED <<chain, orders, disk, handler>>

Disconnect ==
    /\ phone # NoHome
    /\ phone' = NoHome /\ orders' = {}
    /\ Moves
    /\ UNCHANGED <<chain, disk, job, handler>>

\* What a write under way is to change.
Unstored(i) ==
    IF handler[i].at = "store" THEN Differ(handler[i].list, disk[handler[i].home]) ELSE {}

\* The process ends: session and screen are not kept, the store is.
Kill ==
    /\ phone # NoHome /\ Mishap
    /\ phone' = NoHome /\ orders' = {}
    /\ job' = [j \in Jobs |-> NoJob] /\ handler' = [i \in Handlers |-> NoHandler]
    /\ Excusing(UNION {Unstored(i) : i \in Handlers})
    /\ UNCHANGED <<chain, disk>>

\* A tap on the circle, and the second load of a new address.
Reload ==
    /\ phone # NoHome
    /\ \E j \in Jobs : job[j] = NoJob /\ job' = Begins(<<j>>, phone)
    /\ Overlapping(\E j \in Jobs : job[j] # NoJob)
    /\ UNCHANGED <<chain, phone, orders, disk, handler>>

-----------------------------------------------------------------------------
(* Hydrations and loads.                                                   *)

At(j, kind, at) == job[j].kind = kind /\ job[j].at = at

Reads(j, list) ==
    job' = [job EXCEPT ![j].cached = list,
                       ![j].at = IF job[j].kind = "load" THEN "scan" ELSE "apply"]

\* A failed read is an empty list.
ReadCache(j) ==
    /\ job[j].at = "cache"
    /\ \/ /\ Reads(j, disk[job[j].home])
          /\ Races(\E i \in Handlers : handler[i].at = "store")
       \/ Mishap /\ Reads(j, {}) /\ Excusing(LoanIds)
    /\ UNCHANGED <<chain, phone, orders, disk, handler>>

\* Slip: an empty cache leaves the list that is on the screen.
HydrateUnlessEmpty(j) ==
    /\ At(j, "hydration", "apply")
    /\ orders' = IF job[j].cached = {} THEN orders ELSE job[j].cached
    /\ job' = [job EXCEPT ![j] = NoJob]
    /\ UNCHANGED <<chain, phone, disk, handler, history>>

Hydrate(j) ==
    /\ At(j, "hydration", "apply")
    /\ orders' = job[j].cached
    /\ job' = [job EXCEPT ![j] = NoJob]
    /\ UNCHANGED <<chain, phone, disk, handler, history>>

Finds(j, list) ==
    job' = [job EXCEPT ![j].list = list, ![j].cached = {}, ![j].at = "save"]

\* The scan of the program's accounts finds the loans, fails, or is answered by
\* an endpoint that is behind: with loans closed since, without the latest.
FindLoans(j) ==
    LET home == job[j].home IN
    /\ At(j, "load", "scan")
    /\ \E found \in SUBSET TakenAt(home) :
        /\ IF found = {} THEN job' = [job EXCEPT ![j].at = "walk"] ELSE Finds(j, found)
        /\ IF found = OpenAt(home) THEN UNCHANGED history
           ELSE Mishap /\ Excusing(IF found = {} THEN {} ELSE Differ(found, OpenAt(home)))
    /\ UNCHANGED <<chain, phone, orders, disk, handler>>

\* Slip: an answer without a loan empties the list.
FinalForgets(cached, found) == found

\* finalizeOrders: nothing found, so the stored orders stay.
Final(cached, found) == IF found = {} THEN cached ELSE found

\* The last twenty signatures lead to all the loans, to none or to some, or to
\* accounts as an endpoint behind has them.
Walk(j) ==
    LET home == job[j].home IN
    /\ At(j, "load", "walk")
    /\ \E found \in SUBSET TakenAt(home) :
        /\ Finds(j, Final(job[j].cached, found))
        /\ IF found \in {{}, OpenAt(home)} THEN UNCHANGED history
           ELSE /\ found \subseteq OpenAt(home) \/ Mishap
                /\ Excusing(Differ(found, OpenAt(home)))
    /\ UNCHANGED <<chain, phone, orders, disk, handler>>

\* Both fetchLiveUserOrders and loadProtocolData store the list, the latter
\* after putting it on the screen.  A write that fails is ignored.
Save(j) ==
    /\ job[j].at \in {"save", "save again"}
    /\ \/ disk' = [disk EXCEPT ![job[j].home] = job[j].list] /\ UNCHANGED history
       \/ Mishap /\ UNCHANGED disk /\ Excusing({})
    /\ job' = [job EXCEPT ![j] = IF @.at = "save" THEN [@ EXCEPT !.at = "apply"] ELSE NoJob]
    /\ UNCHANGED <<chain, phone, orders, handler>>

ShowLoans(j) ==
    /\ At(j, "load", "apply")
    /\ orders' = job[j].list
    /\ job' = [job EXCEPT ![j].at = "save again"]
    /\ UNCHANGED <<chain, phone, disk, handler, history>>

-----------------------------------------------------------------------------
(* The handlers.                                                           *)

Press(i, kind, l) ==
    /\ phone # NoHome /\ handler[i] = NoHandler
    /\ handler' = [handler EXCEPT ![i] =
            [NoHandler EXCEPT !.kind = kind, !.at = "sign", !.home = phone, !.loan = l]]
    /\ Overlapping(\E k \in Handlers : handler[k] # NoHandler)
    /\ UNCHANGED <<phone, orders, disk, job>>

\* A loan id nobody has used; a listed order's buttons.
PressBorrow(i, l) ==
    /\ chain[l].home = NoHome
    /\ chain' = [chain EXCEPT ![l].home = phone]
    /\ Press(i, "borrow", l)
PressRepay(i, l) == l \in orders /\ Press(i, "repay", l) /\ UNCHANGED chain
PressGrace(i, l) == l \in orders /\ Press(i, "grace", l) /\ UNCHANGED chain

\* What the program makes of the transaction.
Accepted(i) ==
    LET h == handler[i] IN
    chain[h.loan] = [home |-> h.home, status |-> IF h.kind = "borrow" THEN "none" ELSE "open"]

TakesEffect(i) ==
    chain' = [chain EXCEPT ![handler[i].loan].status =
                IF handler[i].kind = "repay" THEN "closed" ELSE "open"]

\* The wallet cancels, or the confirmation is lost; whether the transaction
\* landed all the same is not known to the handler, which gives up.
HandlerFails(i) ==
    /\ handler[i].at = "sign"
    /\ \/ UNCHANGED <<chain, history>>
       \/ Mishap /\ Accepted(i) /\ TakesEffect(i) /\ Excusing({})
    /\ handler' = [handler EXCEPT ![i] = NoHandler]
    /\ UNCHANGED <<phone, orders, disk, job>>

\* The confirmation's own error is never looked at: a transaction the program
\* refused is taken for one it accepted.
Confirm(i) ==
    /\ handler[i].at = "sign"
    /\ \/ Accepted(i) /\ TakesEffect(i) /\ UNCHANGED history
       \/ Mishap /\ UNCHANGED chain /\ Excusing({handler[i].loan})
    /\ handler' = [handler EXCEPT ![i].at = "list"]
    /\ UNCHANGED <<phone, orders, disk, job>>

\* Slip: a repaid order stays on the list.
UpdatedKeeps(i) ==
    IF handler[i].kind = "borrow" THEN orders \cup {handler[i].loan} ELSE orders

Updated(i) ==
    CASE handler[i].kind = "borrow" -> orders \cup {handler[i].loan}
      [] handler[i].kind = "repay" -> orders \ {handler[i].loan}
      [] OTHER -> orders

\* A load, or another handler past its confirmation, is under way as well.
Racing(i) ==
    \/ \E j \in Jobs : job[j] # NoJob
    \/ \E k \in Handlers \ {i} : handler[k].at \in {"list", "store"}

\* The list on the screen changes at once, and its write to the store begins.
UpdateList(i) ==
    LET h == handler[i] IN
    /\ h.at = "list"
    /\ orders' = Updated(i)
    /\ handler' = [handler EXCEPT ![i].list = Updated(i), ![i].at = "store"]
    /\ LET mixed == history.mixed \/ \E j \in Jobs : job[j].kind = "hydration" IN
       history' = IF mixed \/ Racing(i)
                  THEN [history EXCEPT !.mixed = mixed, !.kept = {}, !.repaid = {}]
                  ELSE [history EXCEPT
                        !.kept = IF h.kind = "borrow" THEN @ \cup {h.loan} ELSE @ \cap Updated(i),
                        !.repaid = IF h.kind = "repay" /\ chain[h.loan] = [home |-> h.home, status |-> "closed"]
                                   THEN @ \cup {h.loan} ELSE @]
    /\ UNCHANGED <<chain, phone, disk, job>>

\* A write that fails is ignored, and the handler reports success.
Store(i) ==
    LET h == handler[i] IN
    /\ h.at = "store"
    /\ \/ disk' = [disk EXCEPT ![h.home] = h.list] /\ Races(Racing(i))
       \/ Mishap /\ UNCHANGED disk /\ Excusing(Unstored(i))
    /\ handler' = [handler EXCEPT ![i] = NoHandler]
    /\ UNCHANGED <<chain, phone, orders, job>>

-----------------------------------------------------------------------------
JobStep(j) == ReadCache(j) \/ Hydrate(j) \/ FindLoans(j) \/ Walk(j) \/ Save(j) \/ ShowLoans(j)

HandlerStep(i) == HandlerFails(i) \/ Confirm(i) \/ UpdateList(i) \/ Store(i)

OrderNext ==
    \/ Elsewhere \/ Disconnect \/ Kill \/ Reload
    \/ \E h \in Homes : SetHome(h)
    \/ \E j \in Jobs : JobStep(j)
    \/ \E i \in Handlers :
        HandlerStep(i) \/ \E l \in LoanIds : PressBorrow(i, l) \/ PressRepay(i, l) \/ PressGrace(i, l)

OrderSpec == OrderInit /\ [][OrderNext]_orderVars

-----------------------------------------------------------------------------
\* "Strictly namespaced by network" (getCachedOrders), and by wallet: a stored
\* list holds loans of its own home only, through any number of switches,
\* unless one came while a load or a handler was under way, or a handler put
\* its order on a list that was still to be hydrated.
OrdersStayHome ==
    \A h \in Homes : \A l \in disk[h] : history.mixed \/ chain[l].home = h

Written == \A i \in Handlers : handler[i].at \notin {"list", "store"}

\* What the phone did itself the store does not forget: a loan taken on it and
\* still open stays listed, whatever scans fail or find nothing and whatever
\* loads cannot store what they found, and a loan repaid on it does not come
\* back (the next load that finds no loan would keep it for ever).  Excepted are
\* the loans the code itself loses sight of: those that a failed write of a
\* handler, or a kill during one, was to put on the list or take off it, and
\* those an endpoint's answer has wrong or leaves out; the loan of a refused
\* transaction that was taken for an accepted one; and all of them when a stored
\* list cannot be read, or is read or written while a handler's is.
StoreMatchesDealings ==
    Written =>
        /\ \A l \in history.kept : chain[l].status = "open" => l \in disk[chain[l].home]
        /\ \A l \in history.repaid : \A h \in Homes : l \notin disk[h]
=============================================================================
