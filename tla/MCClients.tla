----------------------------- MODULE MCClients -----------------------------
(***************************************************************************)
(* The programs around the program, on small instances.  The job that      *)
(* publishes prices (PriceKeeper; the upgrade authority is the keeper as   *)
(* well, and one pool lends USDC) and, on the phone, the form that sizes   *)
(* collateral with those prices (ExpressBorrow), the figures on the other  *)
(* screens (ScreenFigures), the list of loans (OrderBook) and the          *)
(* transactions that are built and executed (TxWire).                      *)
(*                                                                         *)
(* They share no state (the feed is a moving price to the phone), so that  *)
(* in a behaviour one of them runs and the others stay as they started.    *)
(***************************************************************************)
EXTENDS PriceKeeper, ExpressBorrow, ScreenFigures, OrderBook, TxWire, TLC

CONSTANTS root, h1, h2, l1, l2, n1, n2

MCKeys == {root}
MCPools == {"pool"}
MCNone == {}
MCPoolAuthority == [p \in MCPools |-> root]
MCBaseline == [m \in FeedMints |-> 100]

\* Units per coin: quarters for SOL, whole coins for SKR.
MCPart == [SOL |-> 4, SKR |-> 1]

MCHomes == {h1, h2}
MCLoanIds == {l1, l2}
MCNames == {n1, n2}     \* polls and tasks, jobs and handlers
Alike == Permutations(MCHomes) \cup Permutations(MCLoanIds) \cup Permutations(MCNames)

VARIABLE running    \* which of them runs

clientVars == <<keeperVars, formVars, figureVars, orderVars, wireVars, running>>

ClientInit ==
    /\ KeeperInit /\ FormInit /\ FigureInit /\ OrderInit /\ WireInit
    /\ running \in {"keeper", "form", "figures", "orders", "wire"}
    /\ running # "figures" => figure = "pools"
    /\ running # "wire" => cluster = DefaultCluster

ClientNext ==
    /\ UNCHANGED running
    /\ \/ /\ running = "keeper" /\ KeeperNext
          /\ UNCHANGED <<formVars, figureVars, orderVars, wireVars>>
       \/ /\ running = "form" /\ FormNext
          /\ UNCHANGED <<keeperVars, figureVars, orderVars, wireVars>>
       \/ /\ running = "figures" /\ FigureNext
          /\ UNCHANGED <<keeperVars, formVars, orderVars, wireVars>>
       \/ /\ running = "orders" /\ OrderNext
          /\ UNCHANGED <<keeperVars, formVars, figureVars, wireVars>>
       \/ /\ running = "wire" /\ WireNext
          /\ UNCHANGED <<keeperVars, formVars, figureVars, orderVars>>

\* A request keeps the price it was made at, and nothing reads it but its end:
\* requests are followed while no poll is under way, polls without requests.
RequestsApart ==
    /\ request # Nothing => request' = Nothing
    /\ request' # Nothing => \A i \in Polls : poll[i] = NoPoll

\* After a move in mid-course the properties of OrderBook claim nothing, for
\* good: such states are not followed any further.
Unmixed == ~history.mixed

ClientSpec == ClientInit /\ [][ClientNext]_clientVars
=============================================================================
