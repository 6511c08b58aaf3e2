---------------------------- MODULE LoanPoolPawn ----------------------------
(***************************************************************************)
(* Pool loans keep the pawn promise: the refinement mapping from loan      *)
(* orders to pawns.  The grace period, its trigger and all bookkeeping are *)
(* steps the promise does not see.                                         *)
(***************************************************************************)
EXTENDS LoanPool

PawnState(status) ==
    CASE status = "None"      -> "idle"
      [] status = "Repaid"    -> "returned"
      [] status = "Defaulted" -> "seized"
      [] OTHER                -> "open"

Pawn == INSTANCE PawnPromise WITH
    Pawns    <- Loans,
    Grace    <- GracePeriod,
    clock    <- now,
    pawn     <- [l \in Loans |-> PawnState(loan[l].status)],
    maturity <- [l \in Loans |-> loan[l].due_time]

\* Every behaviour of the pool, seen through the mapping, is one the promise
\* allows: in particular no default before due_time + GracePeriod even when
\* grace is triggered late, and no loan id is ever opened twice.
KeepsPawnPromise == Pawn!PawnSpec
=============================================================================
