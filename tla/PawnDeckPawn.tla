---------------------------- MODULE PawnDeckPawn ----------------------------
(***************************************************************************)
(* Peer-to-peer pawns keep the same promise as pool loans.  Listing and    *)
(* cancelling, as often as the creator likes, are not seen by it: a pawn   *)
(* is opened when the offer is funded.                                     *)
(***************************************************************************)
EXTENDS PawnDeck

PawnState(status) ==
    CASE status \in {"None", "Open"}            -> "idle"
      [] status \in {"Funded", "InGracePeriod"} -> "open"
      [] status = "Repaid"                      -> "returned"
      [] OTHER                                  -> "seized"

Pawn == INSTANCE PawnPromise WITH
    Pawns    <- Offers,
    Grace    <- GracePeriod,
    clock    <- now,
    pawn     <- [o \in Offers |-> PawnState(offer[o].status)],
    maturity <- [o \in Offers |-> offer[o].due_time]

\* Every behaviour of the deck is one the promise allows: an offer is funded
\* at most once, its due time is never moved, and the funder gets the
\* collateral no earlier than a grace period after it.
KeepsPawnPromise == Pawn!PawnSpec
=============================================================================
