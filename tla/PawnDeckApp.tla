---------------------------- MODULE PawnDeckApp ----------------------------
(***************************************************************************)
(* The pawn deck as one phone sees it: the list of offers the app shows    *)
(* and the list, fund, repay and cancel transactions its user signs from   *)
(* that screen (mobile/App.tsx, mobile/src/components/MerchantDesksView.tsx,      *)
(* mobile/src/solana/onChainService.ts and seekerWallet.ts).               *)
(*                                                                         *)
(* The chain underneath is PawnDeck.  Between what the screen shows, what  *)
(* the user signs, what the program executes and what the app then writes  *)
(* over its list, other wallets act, and so does this one, from elsewhere. *)
(* How long an answer is cached is abstracted: one of any age can be       *)
(* shown, and answers can be shown in any order.                           *)
(*                                                                         *)
(* Beside the state of the code the model notes what each item on the      *)
(* screen is worth, by where it came from and what the chain has done      *)
(* since; the property at the end says what that worth comes to.           *)
(***************************************************************************)
EXTENDS PawnDeck, FiniteSets

CONSTANTS
    Me,             \* the wallet connected to the phone
    PawnMints,      \* collateral given to the form for a new offer
    MaxAnswers,     \* RPC answers in flight or cached (model checking only)
    Slots           \* what identifies transactions in flight at one time

ASSUME AppAssumption == Me \in Users /\ PawnMints \subseteq Mints /\ MaxAnswers \in Nat \ {0}

VARIABLES
    answers,    \* offer scans, in flight or in the fetch cache: their items,
                \* and which of these the chain has changed since the scan
    shown,      \* offersRef, the offers on the screen: a set of items
    signed,     \* [Slots -> transactions being signed, sent or confirmed]
    word        \* what the item of an offer is worth: "sure", the offer as it
                \* is; "old", as it has been; "guess", neither

appVars == <<answers, shown, signed, word>>
allVars == <<vars, appVars>>

Id(item) == item.address[2]
NoTx == [outcome |-> "unused"]

\* The accounts of the program that hold an offer.
OnChain == {[address |-> o, account |-> offer[o]] :
                o \in {p \in Offers : offer[p].status # "None"}}

AppInit ==
    /\ Init
    /\ answers = {} /\ shown = {} /\ signed = [s \in Slots |-> NoTx]
    /\ word = [o \in Offers |-> "old"]

-----------------------------------------------------------------------------
(* Loading.  A failed scan is answered by an empty list, not by an error,  *)
(* and to show that answer changes nothing: it has no action of its own.   *)

Scan ==
    /\ \E kept \in SUBSET answers :
          /\ Cardinality(kept) < MaxAnswers
          /\ answers' = kept \cup {[items |-> OnChain, old |-> {}]}
    /\ UNCHANGED <<vars, shown, signed, word>>

\* Slip: an offer that is on the screen already stays as it is there.
MergedKeepsListed(local, chain) ==
    local \cup {item \in chain : \A l \in local : Id(l) # Id(item)}
\* Offers the answer does not mention stay on the screen; they are told apart
\* by their id alone.
Merged(local, chain) ==
    chain \cup {item \in local : \A c \in chain : Id(c) # Id(item)}

\* Nothing is noted of offers that are not on the screen.
OnScreen(worth) ==
    [o \in Offers |->
        IF \E item \in shown' : item.address = o THEN worth[o] ELSE "old"]

LoadOffers(answer) ==
    LET told == {item.address : item \in answer.items} IN
    /\ answer \in answers
    /\ shown' = Merged(shown, answer.items)
    /\ word' = OnScreen([o \in Offers |->
           IF o \notin told THEN word[o] ELSE IF o \in answer.old THEN "old" ELSE "sure"])
    /\ UNCHANGED <<vars, answers, signed>>

-----------------------------------------------------------------------------
(* Signing from the screen.  The buttons depend on who listed the offer    *)
(* and on its status as shown.                                             *)

Sign(s, kind, address) ==
    /\ signed[s] = NoTx
    /\ signed' = [signed EXCEPT ![s] =
           [kind |-> kind, address |-> address, outcome |-> "sent"]]
    /\ UNCHANGED <<vars, answers, shown, word>>

\* The fund button passes the id of the offer it is on; the handler looks the
\* id up in the list, whose order is the RPC's, and finds any offer with it.
TapFund(s, item) ==
    /\ item \in shown
    /\ item.account.status = "Open" /\ Creator(item.address) # Me
    /\ \E found \in shown :
          /\ Id(found) = Id(item)
          /\ found.account.status = "Open"
          /\ Sign(s, "Fund", found.address)

\* The other two pass the offer, and derive its address from the wallet's own.
TapRepay(s, item) ==
    /\ item \in shown
    /\ item.account.status = "Funded" /\ Creator(item.address) = Me
    /\ Sign(s, "Repay", item.address)

TapCancel(s, item) ==
    /\ item \in shown
    /\ item.account.status = "Open" /\ Creator(item.address) = Me
    /\ Sign(s, "Cancel", item.address)

\* The form for a new offer makes up its id at random, from a range that all
\* creators share; trying again makes up another.
ListPawn(s, id, terms) ==
    /\ signed[s] = NoTx
    /\ terms.requested_amount > 0 /\ terms.collateral_amount > 0
    /\ signed' = [signed EXCEPT ![s] = [kind |-> "List", address |-> <<Me, id>>,
                                       terms |-> terms, outcome |-> "sent"]]
    /\ UNCHANGED <<vars, answers, shown, word>>

TapList(s) ==
    \E id \in OfferIds, x \in Requests, c \in CollateralAmounts, m \in PawnMints,
      lm \in LiquidityMints, i \in Interests, d \in Durations :
        ListPawn(s, id, [NoOffer EXCEPT !.status = "Open", !.requested_amount = x,
                             !.collateral_amount = c, !.collateral_mint = m,
                             !.liquidity_mint = lm, !.interest_offered = i, !.duration = d])

-----------------------------------------------------------------------------
(* What becomes of a transaction.                                          *)

CreatesListed(address, terms) ==
    \E price \in Prices :
        CreateOffer(address, terms.requested_amount, terms.collateral_amount,
                    terms.collateral_mint, terms.liquidity_mint,
                    terms.interest_offered, terms.duration, price)

Executes(tx) ==
    \/ tx.kind = "List" /\ CreatesListed(tx.address, tx.terms)
    \/ tx.kind = "Fund" /\ FundOffer(Me, tx.address)
    \/ tx.kind = "Repay" /\ RepayOffer(tx.address)
    \/ tx.kind = "Cancel" /\ CancelOffer(tx.address)

\* What a step of the deck makes of what the phone knows: it is old news of
\* an offer that the step has changed.
Changed == {o \in Offers : offer'[o] # offer[o]}
Overtaken ==
    [s \in Slots |->
        IF signed[s].outcome = "executed" /\ signed[s].address \in Changed
        THEN [signed[s] EXCEPT !.outcome = "overtaken"] ELSE signed[s]]
Ages ==
    /\ answers' = {[answer EXCEPT !.old = @ \cup
                       (Changed \cap {item.address : item \in answer.items})] :
                           answer \in answers}
    /\ word' = [o \in Offers |->
           IF word[o] = "sure" /\ o \in Changed THEN "old" ELSE word[o]]
    /\ UNCHANGED shown

Lands(s) ==
    /\ signed[s].outcome = "sent"
    /\ Executes(signed[s])
    /\ Ages
    /\ signed' = [Overtaken EXCEPT ![s].outcome = "executed"]

\* Included in a block but refused by the program: nothing changes on chain.
Reverts(s) ==
    /\ signed[s].outcome = "sent"
    /\ ~ENABLED Executes(signed[s])
    /\ signed' = [signed EXCEPT ![s].outcome = "refused"]
    /\ UNCHANGED <<vars, answers, shown, word>>

\* Every item with the id of the transaction's offer is overwritten, or makes
\* room for the offer just listed.
Marked(items, tx) ==
    LET hit(item) == Id(item) = tx.address[2]
    IN  CASE tx.kind = "List" ->
               {item \in items : ~hit(item)}
                   \cup {[address |-> tx.address, account |-> tx.terms]}
          [] tx.kind = "Fund" ->
               {IF hit(item)
                THEN [item EXCEPT !.account.status = "Funded", !.account.funder = Me]
                ELSE item : item \in items}
          [] tx.kind = "Repay" ->
               {IF hit(item)
                THEN [item EXCEPT !.account.status = "Repaid"]
                ELSE item : item \in items}
          [] tx.kind = "Cancel" -> {item \in items : ~hit(item)}

\* What the mark is worth, on the offer the transaction is about and on others
\* that have its id.
Worth(tx, o) ==
    CASE o[2] # tx.address[2] -> word[o]
      [] o = tx.address /\ tx.outcome = "executed" -> "sure"
      [] o = tx.address /\ tx.outcome = "overtaken" -> "old"
      [] OTHER -> "guess"

\* Confirmed.  The confirmation also answers for a transaction the program
\* refused, and the error in it is not looked at.
Report(s) ==
    /\ signed[s].outcome \in {"executed", "overtaken", "refused"}
    /\ shown' = Marked(shown, signed[s])
    /\ word' = OnScreen([o \in Offers |-> Worth(signed[s], o)])
    /\ signed' = [signed EXCEPT ![s] = NoTx]
    /\ UNCHANGED <<vars, answers>>

\* Cancelled in the wallet, expired, or the connection lost: nothing is marked.
GiveUp(s) ==
    /\ signed[s] # NoTx
    /\ signed' = [signed EXCEPT ![s] = NoTx]
    /\ UNCHANGED <<vars, answers, shown, word>>

-----------------------------------------------------------------------------
\* Everybody else, and this wallet from elsewhere: any step of the deck.
Chain == Next /\ Ages /\ signed' = Overtaken

App ==
    \/ Scan
    \/ \E answer \in answers : LoadOffers(answer)
    \/ \E s \in Slots :
          \/ Lands(s) \/ Reverts(s) \/ Report(s) \/ GiveUp(s)
          \/ TapList(s)
          \/ \E item \in shown :
                TapFund(s, item) \/ TapRepay(s, item) \/ TapCancel(s, item)

AppNext == Chain \/ App

AppSpec == AppInit /\ [][AppNext]_allVars

-----------------------------------------------------------------------------
(* Properties.                                                             *)

\* How far an offer has moved on; from 1 on it only moves up.
Rank(status) ==
    CASE status \in {"None", "Open"} -> 0
      [] status = "Funded" -> 1
      [] status = "InGracePeriod" -> 2
      [] OTHER -> 3

\* The item is no further along than the offer itself, and while it shows a
\* debt it names the wallet the debt is owed to.
Real(item) ==
    LET account == offer[item.address]
        rank == Rank(item.account.status)
    IN  /\ Rank(account.status) >= rank
        /\ rank \in {1, 2} => account.funder = item.account.funder

\* The screen may lag behind the chain but does not run ahead of it, and it
\* catches up.  An answer that was scanned since an offer last changed, or the
\* phone's own transaction on it, confirmed before anybody else's, brings the
\* offer's status on the screen to what it is, whatever was there before:
\* marks, older answers put over them, items of other wallets with the same
\* id.  It stays right until the offer changes, and from then on, or when the
\* answer is older, the item shows what the offer has been.  Excepted are
\* guesses, until an answer puts them right: the mark of a transaction the
\* program refused, and the mark on another wallet's offer with the same id.
ScreenKeepsUp ==
    \A item \in shown :
        /\ word[item.address] # "guess" => Real(item)
        /\ word[item.address] = "sure" =>
               item.account.status = offer[item.address].status
=============================================================================
