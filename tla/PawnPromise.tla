---------------------------- MODULE PawnPromise ----------------------------
(***************************************************************************)
(* What a pawn shop promises, whoever the lender is: collateral taken for  *)
(* a loan is handed out exactly once, back to the borrower when the debt   *)
(* is paid, or to the lender, but never before a full grace period after   *)
(* maturity, and the maturity agreed at the start is never moved.  How the *)
(* grace period is started, and by whom, is not part of the promise.       *)
(*                                                                         *)
(* Pool loans (LoanPool) and peer-to-peer offers (PawnDeck) both implement *)
(* it.                                                                     *)
(***************************************************************************)
EXTENDS Integers

CONSTANTS Pawns, Grace

VARIABLES clock, pawn, maturity

pawnVars == <<clock, pawn, maturity>>

States == {"idle", "open", "returned", "seized"}

PawnInit ==
    /\ clock = 0
    /\ pawn = [p \in Pawns |-> "idle"]
    /\ maturity = [p \in Pawns |-> 0]

\* A pawn is opened with a maturity that is not in the past.
Open(p) ==
    /\ pawn[p] = "idle"
    /\ pawn' = [pawn EXCEPT ![p] = "open"]
    /\ maturity'[p] >= clock
    /\ maturity' = [maturity EXCEPT ![p] = maturity'[p]]
    /\ UNCHANGED clock

Return(p) ==
    /\ pawn[p] = "open"
    /\ pawn' = [pawn EXCEPT ![p] = "returned"]
    /\ UNCHANGED <<clock, maturity>>

Seize(p) ==
    /\ pawn[p] = "open"
    /\ clock >= maturity[p] + Grace
    /\ pawn' = [pawn EXCEPT ![p] = "seized"]
    /\ UNCHANGED <<clock, maturity>>

Pass ==
    /\ clock' = clock + 1
    /\ UNCHANGED <<pawn, maturity>>

PawnNext ==
    \/ \E p \in Pawns :
          \/ Open(p)
          \/ Return(p)
          \/ Seize(p)
    \/ Pass

PawnSpec == PawnInit /\ [][PawnNext]_pawnVars

=============================================================================
