---------------------------- MODULE MCPriceFeeds ----------------------------
(***************************************************************************)
(* Small instances of PriceFeeds for TLC: the upgrade authority, and a     *)
(* desk with one pool, which lends wrapped SOL.                            *)
(***************************************************************************)
EXTENDS PriceFeeds

CONSTANTS root, desk

MCKeys == {root, desk}
MCPools == {"pool"}
MCNone == {}
MCPoolAuthority == [p \in MCPools |-> desk]
MCBaseline == [m \in FeedMints |-> 3]
MCOnePrice == {1}
MCTwoPrices == {1, 2}
MCSolAndSkr == {"SOL", "SKR"}
=============================================================================
