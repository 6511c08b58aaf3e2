---------------------------- MODULE TxWireProofs ----------------------------
(***************************************************************************)
(* Proofs about the transactions of TxWire.  What a builder lists fits     *)
(* what its handler looks for (Fits), and accounts that come to be later   *)
(* do not change that.                                                     *)
(***************************************************************************)
EXTENDS TxWire, WellFoundedInduction, TLAPS

-----------------------------------------------------------------------------
(* The lookups.                                                            *)

\* Some numbers have a least one.
LEMMA LeastNumber ==
    ASSUME NEW S, S \subseteq Nat, S # {}
    PROVE  \E i \in S : \A j \in S : i <= j
<1> DEFINE R == {ss \in Nat \X Nat : ss[1] < ss[2]}
<1>1. R = OpToRel(<, Nat)
  BY DEF OpToRel
<1>2. IsWellFoundedOn(R, Nat)
  BY <1>1, NatLessThanWellFounded
<1>3. PICK i \in S : \A j \in S : ~ (<<j, i>> \in R)
  <2> HIDE DEF R
  <2> QED BY <1>2, WFMin
<1>4. \A j \in S : i <= j
  <2> SUFFICES ASSUME NEW j \in S PROVE i <= j
    OBVIOUS
  <2>1. <<j, i>> \in Nat \X Nat /\ <<j, i>> \notin R
    BY <1>3
  <2> QED BY <2>1
<1> QED BY <1>4

\* Of the places of accounts there is a last one and a first one.
LEMMA PlacesEnd ==
    ASSUME NEW names, NEW accounts \in Seq(names), NEW wanted, Places(accounts, wanted) # {}
    PROVE  /\ Max(Places(accounts, wanted)) \in Places(accounts, wanted)
           /\ \A j \in Places(accounts, wanted) : Max(Places(accounts, wanted)) >= j
           /\ Min(Places(accounts, wanted)) \in Places(accounts, wanted)
<1> DEFINE P == Places(accounts, wanted)
           Q == {n \in Nat : \E i \in P : n = Len(accounts) - i}
<1>1. P \subseteq Nat /\ \A i \in P : i <= Len(accounts)
  BY DEF Places
<1>2. Len(accounts) \in Nat
  OBVIOUS
<1>3. \E i \in P : \A j \in P : i <= j
  BY <1>1, LeastNumber
<1>4. \E i \in P : \A j \in P : i >= j
  <2>1. \A i \in P : Len(accounts) - i \in Q
    BY <1>1, <1>2
  <2>2. PICK n \in Q : \A m \in Q : n <= m
    BY <2>1, LeastNumber
  <2>3. PICK i \in P : n = Len(accounts) - i
    OBVIOUS
  <2>4. \A j \in P : i >= j
    <3> SUFFICES ASSUME NEW j \in P PROVE i >= j
      OBVIOUS
    <3>1. Len(accounts) - i <= Len(accounts) - j
      BY <2>1, <2>2, <2>3
    <3> QED BY <3>1, <1>1, <1>2
  <2> QED BY <2>4
<1> HIDE DEF P
<1>5. Max(P) \in P /\ \A j \in P : Max(P) >= j
  BY <1>4 DEF Max
<1>6. Min(P) \in P
  BY <1>3 DEF Min
<1> QED BY <1>5, <1>6 DEF P

\* A lookup answers none, or one of those looked for that is listed.
LEMMA LastIsWanted ==
    ASSUME NEW names, NEW accounts \in Seq(names), NEW wanted
    PROVE  IF Places(accounts, wanted) = {} THEN LastOf(accounts, wanted) = None
           ELSE LastOf(accounts, wanted) \in wanted
BY PlacesEnd DEF LastOf, Places

-----------------------------------------------------------------------------
(* What is taken of a list.                                                *)

\* The roles accounts are listed for.
Names == {"admin", "admin_config", "authority", "borrower", "caller", "clock", "collateral",
          "collateral_mint", "creator", "creator_tokens", "depositor", "destination",
          "escrow", "feed", "funder", "loan", "mint", "offer", "pool", "position", "profile",
          "rent", "skr_mint", "slash_tokens", "stake_escrow", "system_program",
          "token_program", "tokens", "treasury", "treasury_tokens", "usdc_mint", "user",
          "vault", "yield_tokens", "yield_vault"}

\* The accounts in t are those listed for their roles, or none.
Understood(t) ==
    \A r \in DOMAIN t :
        /\ t[r] \in {r, None}
        /\ Listed(r) /\ Exists(r) => t[r] = r \/ SolFromTreasury

\* A list starts with the accounts for some roles.
Starts(keys, roles) ==
    /\ keys \in Seq(Names) /\ roles \in Seq(Names)
    /\ Len(roles) <= Len(keys)
    /\ \A i \in 1..Len(roles) : keys[i] = roles[i]

\* Lookups that are understood each are so together.
LEMMA JoinUnderstood ==
    ASSUME NEW STATE s, NEW STATE t, Understood(s), Understood(t)
    PROVE  Understood(With(s, t))
BY DEF Understood, With

\* What is taken by position is what the list starts with.
LEMMA FirstUnderstood ==
    ASSUME NEW STATE roles, Starts(tx.keys, roles)
    PROVE  /\ Understood(First(roles))
           /\ \A r \in ToSet(roles) : First(roles)[r] = r
<1>1. DOMAIN roles = 1..Len(roles)
  BY DEF Starts
<1>2. \A r \in ToSet(roles) : First(roles)[r] = r
  <2> SUFFICES ASSUME NEW r \in ToSet(roles) PROVE First(roles)[r] = r
    OBVIOUS
  <2>1. \E i \in DOMAIN roles : roles[i] = r
    BY DEF ToSet
  <2> DEFINE c == CHOOSE i \in DOMAIN roles : roles[i] = r
  <2>2. c \in DOMAIN roles /\ roles[c] = r
    BY <2>1
  <2>3. tx.keys[c] = r
    BY <1>1, <2>2 DEF Starts
  <2> QED BY <2>3 DEF First
<1>3. DOMAIN First(roles) = ToSet(roles)
  BY DEF First
<1> QED BY <1>2, <1>3 DEF Understood

\* What the list holds besides is behind it.
LEMMA RestHolds ==
    ASSUME NEW STATE roles, Starts(tx.keys, roles)
    PROVE  /\ Rest(roles) \in Seq(Names)
           /\ Len(Rest(roles)) = Len(tx.keys) - Len(roles)
           /\ \A i \in 1..Len(Rest(roles)) : Rest(roles)[i] = tx.keys[Len(roles) + i]
           /\ \A r : r \notin ToSet(roles) /\ Listed(r)
                      => \E i \in DOMAIN Rest(roles) : Rest(roles)[i] = r
           /\ \A i \in DOMAIN Rest(roles) : Listed(Rest(roles)[i])
<1> DEFINE rest == Rest(roles)
<1>1. rest \in Seq(Names) /\ Len(rest) = Len(tx.keys) - Len(roles)
      /\ \A i \in 1..Len(rest) : rest[i] = tx.keys[Len(roles) + i]
  BY DEF Starts, Rest
<1>2. ASSUME NEW r, r \notin ToSet(roles), Listed(r)
      PROVE  \E i \in DOMAIN rest : rest[i] = r
  <2>1. PICK i \in DOMAIN tx.keys : tx.keys[i] = r
    BY <1>2 DEF Listed
  <2>2. i \in 1..Len(tx.keys) /\ Len(tx.keys) \in Nat /\ Len(roles) \in Nat
    BY DEF Starts
  <2>3. i > Len(roles)
    <3> SUFFICES ASSUME i <= Len(roles) PROVE FALSE
      BY <2>2
    <3>1. roles[i] = r /\ i \in DOMAIN roles
      BY <2>1, <2>2 DEF Starts
    <3> QED BY <3>1, <1>2 DEF ToSet
  <2>4. i - Len(roles) \in 1..Len(rest)
    BY <1>1, <2>2, <2>3
  <2>5. rest[i - Len(roles)] = r
    BY <1>1, <2>1, <2>2, <2>4
  <2> QED BY <1>1, <2>4, <2>5
<1>3. ASSUME NEW i \in DOMAIN rest PROVE Listed(rest[i])
  <2>1. Len(tx.keys) \in Nat /\ Len(roles) \in Nat /\ DOMAIN tx.keys = 1..Len(tx.keys)
    BY DEF Starts
  <2>2. i \in 1..Len(rest)
    BY <1>1
  <2>3. Len(roles) + i \in DOMAIN tx.keys
    BY <1>1, <2>1, <2>2
  <2> QED BY <1>1, <2>2, <2>3 DEF Listed
<1> QED BY <1>1, <1>2, <1>3

\* A lookup by address in a list.
LEMMA LookupByAddress ==
    ASSUME tx.keys \in Seq(Names), NEW r
    PROVE  LastOf(tx.keys, {r}) = IF Listed(r) THEN r ELSE None
<1>1. Places(tx.keys, {r}) = {} <=> ~Listed(r)
  BY DEF Places, Listed
<1>2. IF Places(tx.keys, {r}) = {} THEN LastOf(tx.keys, {r}) = None
      ELSE LastOf(tx.keys, {r}) \in {r}
  BY LastIsWanted
<1> QED BY <1>1, <1>2

\* What is looked for behind the first accounts, by address or by content.
LEMMA FoundUnderstood ==
    ASSUME NEW STATE roles, Starts(tx.keys, roles), NEW byAddress, NEW byContent,
           ToSet(roles) \cap (byAddress \cup byContent) = {}
    PROVE  /\ Understood(Found(Rest(roles), byAddress, byContent))
           /\ DOMAIN Found(Rest(roles), byAddress, byContent) = byAddress \cup byContent
           /\ \A r \in byAddress :
                 Found(Rest(roles), byAddress, byContent)[r] = IF Listed(r) THEN r ELSE None
<1> DEFINE rest == Rest(roles)
           s == [r \in byAddress |-> LastOf(rest, {r})]
           t == [r \in byContent |-> LastOf(rest, Existing({r}))]
<1>1. /\ rest \in Seq(Names)
      /\ \A r : r \notin ToSet(roles) /\ Listed(r) => \E i \in DOMAIN rest : rest[i] = r
      /\ \A i \in DOMAIN rest : Listed(rest[i])
  BY RestHolds
<1> HIDE DEF rest
<1>2. ASSUME NEW r \in byAddress PROVE s[r] = IF Listed(r) THEN r ELSE None
  <2>1. Places(rest, {r}) = {} <=> ~Listed(r)
    BY <1>1 DEF Places
  <2>2. IF Places(rest, {r}) = {} THEN s[r] = None ELSE s[r] \in {r}
    BY <1>1, LastIsWanted
  <2> QED BY <2>1, <2>2
<1>3. Understood(s)
  BY <1>2 DEF Understood
<1>4. Understood(t)
  <2> SUFFICES ASSUME NEW r \in byContent
               PROVE  t[r] \in {r, None} /\ (Listed(r) /\ Exists(r) => t[r] = r)
    BY DEF Understood
  <2>1. Existing({r}) \subseteq {r} /\ (Exists(r) => Existing({r}) = {r})
    BY DEF Existing
  <2>2. Listed(r) => Places(rest, {r}) # {}
    BY <1>1 DEF Places
  <2>3. IF Places(rest, Existing({r})) = {} THEN t[r] = None ELSE t[r] \in Existing({r})
    BY <1>1, LastIsWanted
  <2> QED BY <2>1, <2>2, <2>3
<1>5. Found(rest, byAddress, byContent) = With(s, t)
  BY DEF Found
<1>6. DOMAIN With(s, t) = byAddress \cup byContent /\ \A r \in byAddress : With(s, t)[r] = s[r]
  BY DEF With
<1>7. Understood(With(s, t))
  <2> HIDE DEF s, t
  <2> QED BY <1>3, <1>4, JoinUnderstood
<1>8. \A r \in byAddress : With(s, t)[r] = IF Listed(r) THEN r ELSE None
  <2> HIDE DEF s, t
  <2> QED BY <1>2, <1>6
<1> HIDE DEF s, t
<1> QED BY <1>5, <1>6, <1>7, <1>8 DEF rest

-----------------------------------------------------------------------------
(* What a list must be like for the handler to understand it.              *)

In(keys, r) == \E i \in DOMAIN keys : keys[i] = r

\* What the handlers take by position that look for more behind it.
BorrowRoles == <<"borrower", "pool", "loan", "vault", "tokens", "collateral", "escrow",
                 "collateral_mint", "token_program", "system_program">>
RepayRoles == <<"borrower", "loan", "tokens", "destination", "escrow", "collateral">>
CreateRoles == <<"creator", "offer", "collateral", "escrow", "collateral_mint",
                 "token_program", "system_program">>
CancelRoles == <<"creator", "offer", "escrow", "collateral">>
GraceRoles == <<"caller", "loan">>
ClaimRoles == <<"caller", "loan", "escrow", "destination">>
StakeRoles == <<"user", "profile", "tokens", "stake_escrow", "system_program",
                "token_program", "skr_mint">>
UnstakeRoles == <<"user", "profile", "tokens", "stake_escrow", "token_program">>
TreasuryRoles == <<"admin", "admin_config", "treasury", "destination">>

\* The treasury's tokens are last, or all behind the roles are programs.
RepayFits(keys) ==
    /\ Starts(keys, RepayRoles) /\ Len(keys) > 6
    /\ \/ keys[Len(keys)] = "treasury_tokens"
       \/ \A i \in 7..Len(keys) : keys[i] \in {"token_program", "system_program"}

\* The treasury is listed, or all behind the roles are known.
ClaimFits(keys) ==
    /\ Starts(keys, ClaimRoles)
    /\ \/ In(keys, "treasury")
       \/ \A i \in 5..Len(keys) : keys[i] \in {"token_program", "system_program", "clock"}

GraceFits(keys) ==
    /\ Starts(keys, GraceRoles) /\ Len(keys) > 2
    /\ In(keys, "pool") => keys[3] = "pool"

BorrowFits(keys) ==
    /\ Starts(keys, BorrowRoles)
    /\ In(keys, "yield_vault") <=> In(keys, "yield_tokens")

\* The vault comes with the position.
YieldFits(keys) == In(keys, "yield_vault") <=> In(keys, "position")

TreasuryFits(keys) ==
    /\ Starts(keys, TreasuryRoles)
    /\ \/ Len(keys) = 5
       \/ Len(keys) = 7 /\ keys[5] = "treasury_tokens" /\ keys[7] = "system_program"

ByPosition == {"InitializePool", "DepositLiquidity", "WithdrawLiquidity", "FundP2POffer",
               "InitializeSkrYieldVault", "DepositSkrYield", "WithdrawUnusedYield",
               "ClaimSkrYield"}

Fits(op, keys) ==
    \/ op = "BorrowFromPool" /\ BorrowFits(keys)
    \/ op = "RepayLoan" /\ RepayFits(keys)
    \/ op = "CreateP2POffer" /\ Starts(keys, CreateRoles)
    \/ op = "CancelP2POffer" /\ Starts(keys, CancelRoles)
    \/ op = "TriggerGracePeriod" /\ GraceFits(keys)
    \/ op = "ClaimDefault" /\ ClaimFits(keys)
    \/ op = "StakeSKR" /\ Starts(keys, StakeRoles) /\ YieldFits(keys)
    \/ op = "UnstakeSKR" /\ Starts(keys, UnstakeRoles) /\ YieldFits(keys) /\ ~In(keys, "pool")
    \/ op = "WithdrawTreasury" /\ TreasuryFits(keys)
    \/ op \in ByPosition /\ Starts(keys, Roles(op))

\* The yield accounts are taken together.
Paired(t) ==
    LET both(r, s) == {r, s} \subseteq DOMAIN t => (t[r] = None <=> t[s] = None)
    IN  both("yield_vault", "yield_tokens") /\ both("yield_vault", "position")

-----------------------------------------------------------------------------
(* A list that fits is understood.                                         *)

LEMMA BorrowUnderstood ==
    ASSUME BorrowFits(tx.keys)
    PROVE  Understood(TakesBorrow) /\ Paired(TakesBorrow)
<1> DEFINE A == {"profile", "yield_vault", "yield_tokens", "feed"}
           C == {"treasury_tokens"}
           first == First(BorrowRoles)
           found == Found(Rest(BorrowRoles), A, C)
<1>1. Starts(tx.keys, BorrowRoles) /\ (Listed("yield_vault") <=> Listed("yield_tokens"))
  BY DEF BorrowFits, In, Listed
<1>2. ToSet(BorrowRoles) \cap (A \cup C) = {} /\ "position" \notin ToSet(BorrowRoles)
  BY DEF BorrowRoles, ToSet
<1>3. /\ Understood(found) /\ DOMAIN found = A \cup C
      /\ \A r \in A : found[r] = IF Listed(r) THEN r ELSE None
  <2>1. Starts(tx.keys, BorrowRoles) /\ ToSet(BorrowRoles) \cap (A \cup C) = {}
    BY <1>1, <1>2
  <2> HIDE DEF A, C
  <2> QED BY <2>1, FoundUnderstood, Zenon
<1>4. Understood(first) /\ DOMAIN first = ToSet(BorrowRoles)
  BY <1>1, FirstUnderstood DEF First
<1>5. TakesBorrow = With(first, found)
  BY DEF TakesBorrow, BorrowRoles
<1> HIDE DEF first, found
<1>6. Paired(With(first, found))
  BY <1>1, <1>2, <1>3, <1>4 DEF Paired, With, None
<1> QED BY <1>3, <1>4, <1>5, <1>6, JoinUnderstood

LEMMA CreateUnderstood ==
    ASSUME Starts(tx.keys, CreateRoles)
    PROVE  Understood(TakesCreateP2POffer) /\ Paired(TakesCreateP2POffer)
<1> DEFINE first == First(CreateRoles)
           found == Found(Rest(CreateRoles), {"feed"}, {"usdc_mint"})
<1>1. ToSet(CreateRoles) \cap {"feed", "usdc_mint", "yield_vault"} = {}
  BY DEF CreateRoles, ToSet
<1>2. Understood(found) /\ DOMAIN found = {"feed", "usdc_mint"}
  BY <1>1, FoundUnderstood
<1>3. Understood(first) /\ DOMAIN first = ToSet(CreateRoles)
  BY FirstUnderstood DEF First
<1>4. TakesCreateP2POffer = With(first, found)
  BY DEF TakesCreateP2POffer, CreateRoles
<1> HIDE DEF first, found
<1>5. Paired(With(first, found))
  BY <1>1, <1>2, <1>3 DEF Paired, With
<1> QED BY <1>2, <1>3, <1>4, <1>5, JoinUnderstood

LEMMA CancelUnderstood ==
    ASSUME Starts(tx.keys, CancelRoles)
    PROVE  Understood(TakesCancel) /\ Paired(TakesCancel)
<1> DEFINE first == First(CancelRoles)
           found == Found(Rest(CancelRoles), {"token_program", "system_program"}, {})
<1>1. ToSet(CancelRoles) \cap {"token_program", "system_program", "yield_vault"} = {}
  BY DEF CancelRoles, ToSet
<1>2. Understood(found) /\ DOMAIN found = {"token_program", "system_program"}
  BY <1>1, FoundUnderstood
<1>3. Understood(first) /\ DOMAIN first = ToSet(CancelRoles)
  BY FirstUnderstood DEF First
<1>4. TakesCancel = With(first, found)
  BY DEF TakesCancel, CancelRoles
<1> HIDE DEF first, found
<1>5. Paired(With(first, found))
  BY <1>1, <1>2, <1>3 DEF Paired, With
<1> QED BY <1>2, <1>3, <1>4, <1>5, JoinUnderstood

LEMMA GraceUnderstood ==
    ASSUME GraceFits(tx.keys)
    PROVE  Understood(TakesGrace) /\ Paired(TakesGrace)
<1> DEFINE first == First(GraceRoles)
           pool == [r \in {"pool"} |-> IF tx.keys[3] = "pool" THEN "pool" ELSE None]
<1>1. Starts(tx.keys, GraceRoles) /\ (Listed("pool") => tx.keys[3] = "pool")
  BY DEF GraceFits, In, Listed
<1>2. Understood(pool)
  BY <1>1 DEF Understood
<1>3. Understood(first) /\ DOMAIN first = ToSet(GraceRoles)
  BY <1>1, FirstUnderstood DEF First
<1>4. "yield_vault" \notin ToSet(GraceRoles)
  BY DEF GraceRoles, ToSet
<1>5. TakesGrace = With(first, pool)
  BY DEF TakesGrace, GraceRoles
<1>6. DOMAIN pool = {"pool"}
  OBVIOUS
<1> HIDE DEF first, pool
<1>7. Paired(With(first, pool))
  BY <1>3, <1>4, <1>6 DEF Paired, With
<1> QED BY <1>2, <1>3, <1>5, <1>7, JoinUnderstood

\* The treasury is the last account of no other kind.
LEMMA RepayUnderstood ==
    ASSUME RepayFits(tx.keys)
    PROVE  Understood(TakesRepay) /\ Paired(TakesRepay)
<1> DEFINE rest == Rest(RepayRoles)
           programs == {"token_program", "system_program"}
           known == Existing({"token_program", "system_program", "pool", "profile"})
           first == First(RepayRoles)
           found == Found(rest, programs, {"pool", "profile"})
           wanted == ToSet(rest) \ known
           treasury == [r \in {"treasury_tokens"} |-> LastOf(rest, wanted)]
<1>1. Starts(tx.keys, RepayRoles)
  BY DEF RepayFits
<1>2. ToSet(RepayRoles) \cap (programs \cup {"pool", "profile"}) = {}
      /\ "yield_vault" \notin ToSet(RepayRoles) /\ "treasury_tokens" \notin ToSet(RepayRoles)
      /\ RepayRoles \in Seq(Names) /\ Len(RepayRoles) = 6
  BY <1>1 DEF RepayRoles, ToSet, Starts
<1>3. /\ rest \in Seq(Names) /\ Len(rest) = Len(tx.keys) - 6
      /\ \A i \in 1..Len(rest) : rest[i] = tx.keys[6 + i]
      /\ \A r : r \notin ToSet(RepayRoles) /\ Listed(r)
                  => \E i \in DOMAIN rest : rest[i] = r
  <2>1. /\ rest \in Seq(Names) /\ Len(rest) = Len(tx.keys) - Len(RepayRoles)
        /\ \A i \in 1..Len(rest) : rest[i] = tx.keys[Len(RepayRoles) + i]
        /\ \A r : r \notin ToSet(RepayRoles) /\ Listed(r)
                    => \E i \in DOMAIN rest : rest[i] = r
    BY <1>1, RestHolds, Zenon
  <2> HIDE DEF rest
  <2> QED BY <1>2, <2>1
<1>4. Understood(found) /\ DOMAIN found = programs \cup {"pool", "profile"}
  BY <1>1, <1>2, FoundUnderstood
<1>5. Understood(first) /\ DOMAIN first = ToSet(RepayRoles)
  BY <1>1, FirstUnderstood DEF First
<1>6. "treasury_tokens" \notin known /\ programs \subseteq known
  BY DEF Existing, Exists, Optional
<1>7. Len(tx.keys) \in Nat /\ Len(tx.keys) > 6 /\ Len(rest) \in Nat
  BY <1>3 DEF RepayFits, Starts
<1> HIDE DEF rest, known
<1>8. LastOf(rest, wanted) = IF Listed("treasury_tokens") THEN "treasury_tokens" ELSE None
  <2>1. CASE tx.keys[Len(tx.keys)] = "treasury_tokens"
    <3>1. Len(rest) \in 1..Len(rest) /\ rest[Len(rest)] = "treasury_tokens"
      BY <2>1, <1>3, <1>7
    <3>2. Len(rest) \in Places(rest, wanted)
      BY <3>1, <1>3, <1>6 DEF Places, ToSet
    <3>3. Max(Places(rest, wanted)) = Len(rest)
      <4>1. Max(Places(rest, wanted)) \in 1..Len(rest)
        <5>1. Max(Places(rest, wanted)) \in Places(rest, wanted)
          BY <3>2, <1>3, PlacesEnd
        <5>2. \A i \in Places(rest, wanted) : i \in 1..Len(rest)
          BY <1>3 DEF Places
        <5> QED BY <5>1, <5>2
      <4>2. Max(Places(rest, wanted)) >= Len(rest)
        BY <3>2, <1>3, PlacesEnd
      <4> QED BY <4>1, <4>2, <1>7
    <3>4. Listed("treasury_tokens")
      BY <2>1, <1>7, <1>1 DEF Listed, Starts
    <3> QED BY <3>1, <3>2, <3>3, <3>4 DEF LastOf
  <2>2. CASE \A i \in 7..Len(tx.keys) : tx.keys[i] \in programs
    <3>1. \A i \in DOMAIN rest : rest[i] \in programs
      <4> SUFFICES ASSUME NEW i \in DOMAIN rest PROVE rest[i] \in programs
        OBVIOUS
      <4>1. i \in 1..Len(rest) /\ 6 + i \in 7..Len(tx.keys)
        BY <1>3, <1>7
      <4> QED BY <4>1, <2>2, <1>3
    <3>2. Places(rest, wanted) = {}
      BY <3>1, <1>6 DEF Places
    <3>3. ~Listed("treasury_tokens")
      BY <3>1, <1>2, <1>3
    <3> QED BY <3>2, <3>3 DEF LastOf
  <2> QED BY <2>1, <2>2 DEF RepayFits
<1>9. Understood(treasury) /\ DOMAIN treasury = {"treasury_tokens"}
  BY <1>8 DEF Understood
<1>10. TakesRepay = With(first, With(found, treasury))
  BY DEF TakesRepay, RepayRoles, rest, known
<1> HIDE DEF first, found, treasury
<1>11. Paired(With(first, With(found, treasury)))
  BY <1>2, <1>4, <1>5, <1>9 DEF Paired, With
<1>12. Understood(With(first, With(found, treasury)))
  BY <1>4, <1>5, <1>9, JoinUnderstood
<1> QED BY <1>10, <1>11, <1>12

\* Without the treasury there is no account of no known kind.
LEMMA ClaimUnderstood ==
    ASSUME ClaimFits(tx.keys)
    PROVE  Understood(TakesClaim) /\ Paired(TakesClaim)
<1> DEFINE rest == Rest(ClaimRoles)
           programs == {"token_program", "system_program"}
           contents == {"pool", "profile", "stake_escrow", "slash_tokens"}
           known == Existing({"token_program", "system_program", "clock", "pool", "profile",
                              "stake_escrow", "slash_tokens"})
           first == First(ClaimRoles)
           found == Found(rest, programs, contents)
           wanted == ToSet(rest) \ known
           pick == IF "treasury" \in ToSet(rest) THEN "treasury" ELSE FirstOf(rest, wanted)
           treasury == [r \in {"treasury"} |-> pick]
<1>1. Starts(tx.keys, ClaimRoles)
  BY DEF ClaimFits
<1>2. ToSet(ClaimRoles) \cap (programs \cup contents) = {}
      /\ "yield_vault" \notin ToSet(ClaimRoles) /\ "treasury" \notin ToSet(ClaimRoles)
      /\ ClaimRoles \in Seq(Names) /\ Len(ClaimRoles) = 4
  BY <1>1 DEF ClaimRoles, ToSet, Starts
<1>3. /\ rest \in Seq(Names) /\ Len(rest) = Len(tx.keys) - 4
      /\ \A i \in 1..Len(rest) : rest[i] = tx.keys[4 + i]
      /\ \A r : r \notin ToSet(ClaimRoles) /\ Listed(r)
                  => \E i \in DOMAIN rest : rest[i] = r
      /\ \A i \in DOMAIN rest : Listed(rest[i])
  <2>1. /\ rest \in Seq(Names) /\ Len(rest) = Len(tx.keys) - Len(ClaimRoles)
        /\ \A i \in 1..Len(rest) : rest[i] = tx.keys[Len(ClaimRoles) + i]
        /\ \A r : r \notin ToSet(ClaimRoles) /\ Listed(r)
                    => \E i \in DOMAIN rest : rest[i] = r
        /\ \A i \in DOMAIN rest : Listed(rest[i])
    BY <1>1, RestHolds, Zenon
  <2> HIDE DEF rest
  <2> QED BY <1>2, <2>1
<1>4. Understood(found) /\ DOMAIN found = programs \cup contents
  <2>1. Starts(tx.keys, ClaimRoles) /\ ToSet(ClaimRoles) \cap (programs \cup contents) = {}
    BY <1>1, <1>2
  <2> HIDE DEF programs, contents
  <2> QED BY <2>1, FoundUnderstood
<1>5. Understood(first) /\ DOMAIN first = ToSet(ClaimRoles)
  BY <1>1, FirstUnderstood DEF First
<1>6. programs \cup {"clock"} \subseteq known
  BY DEF Existing, Exists, Optional
<1>7. Len(tx.keys) \in Nat /\ Len(rest) \in Nat
  BY <1>3 DEF ClaimFits, Starts
<1> HIDE DEF rest, known
<1>8. pick = IF Listed("treasury") THEN "treasury" ELSE None
  <2>1. "treasury" \in ToSet(rest) <=> Listed("treasury")
    BY <1>2, <1>3 DEF ToSet
  <2>2. ASSUME ~Listed("treasury") PROVE FirstOf(rest, wanted) = None
    <3>1. \A i \in 5..Len(tx.keys) : tx.keys[i] \in programs \cup {"clock"}
      BY <2>2 DEF ClaimFits, In, Listed
    <3>2. \A i \in DOMAIN rest : rest[i] \in programs \cup {"clock"}
      <4> SUFFICES ASSUME NEW i \in DOMAIN rest PROVE rest[i] \in programs \cup {"clock"}
        OBVIOUS
      <4>1. i \in 1..Len(rest) /\ 4 + i \in 5..Len(tx.keys)
        BY <1>3, <1>7
      <4> QED BY <4>1, <3>1, <1>3
    <3>3. Places(rest, wanted) = {}
      BY <3>2, <1>6 DEF Places
    <3> QED BY <3>3 DEF FirstOf
  <2> QED BY <2>1, <2>2
<1> HIDE DEF pick
<1>9. Understood(treasury) /\ DOMAIN treasury = {"treasury"}
  BY <1>8 DEF Understood
<1>10. TakesClaim = With(first, With(found, treasury))
  BY DEF TakesClaim, ClaimRoles, rest, known, pick
<1> HIDE DEF first, found, treasury
<1>11. Paired(With(first, With(found, treasury)))
  BY <1>2, <1>4, <1>5, <1>9 DEF Paired, With
<1>12. Understood(With(first, With(found, treasury)))
  BY <1>4, <1>5, <1>9, JoinUnderstood
<1> QED BY <1>10, <1>11, <1>12

\* A position is one in a vault that is there.
PositionsHaveVaults ==
    \A n \in Clusters : "position" \in world[n] => "yield_vault" \in world[n]

\* Among all accounts, by what they hold and then by address.
LEMMA YieldUnderstood ==
    ASSUME tx.keys \in Seq(Names), YieldFits(tx.keys), PositionsHaveVaults,
           cluster \in Clusters
    PROVE  /\ Understood(TakesYield) /\ Paired(TakesYield)
           /\ DOMAIN TakesYield = {"yield_vault", "position"}
<1> DEFINE vault == LastOf(tx.keys, Existing({"yield_vault"}))
           position == IF vault = None THEN None ELSE LastOf(tx.keys, {"position"})
<1>1. TakesYield =
        [r \in {"yield_vault", "position"} |-> IF r = "position" THEN position ELSE vault]
  BY DEF TakesYield
<1>2. Listed("yield_vault") <=> Listed("position")
  BY DEF YieldFits, In, Listed
<1>3. vault = IF Listed("yield_vault") /\ Exists("yield_vault") THEN "yield_vault" ELSE None
  <2>1. Existing({"yield_vault"}) = IF Exists("yield_vault") THEN {"yield_vault"} ELSE {}
    BY DEF Existing
  <2>2. CASE Exists("yield_vault")
    BY <2>1, <2>2, LookupByAddress
  <2>3. CASE ~Exists("yield_vault")
    <3>1. Places(tx.keys, {}) = {}
      BY DEF Places
    <3> QED BY <2>1, <2>3, <3>1 DEF LastOf
  <2> QED BY <2>2, <2>3
<1>4. LastOf(tx.keys, {"position"}) = IF Listed("position") THEN "position" ELSE None
  BY LookupByAddress
<1>5. Exists("position") => Exists("yield_vault")
  BY DEF Exists, Optional, PositionsHaveVaults
<1> HIDE DEF vault
<1>6. position = IF vault = None THEN None ELSE "position"
  BY <1>2, <1>3, <1>4
<1> HIDE DEF position
<1>7. vault \in {"yield_vault", None} /\ "yield_vault" # None /\ "position" # None
  BY <1>3 DEF None
<1>8. Understood(TakesYield)
  <2>1. TakesYield["yield_vault"] = vault /\ TakesYield["position"] = position
        /\ DOMAIN TakesYield = {"yield_vault", "position"}
    BY <1>1
  <2>2. Listed("yield_vault") /\ Exists("yield_vault") => vault = "yield_vault"
    BY <1>3
  <2>3. Listed("position") /\ Exists("position") => position = "position"
    BY <1>2, <1>3, <1>5, <1>6, <1>7
  <2>4. position \in {"position", None}
    BY <1>6
  <2> QED BY <1>7, <2>1, <2>2, <2>3, <2>4 DEF Understood
<1>9. Paired(TakesYield)
  BY <1>1, <1>6, <1>7 DEF Paired
<1>10. DOMAIN TakesYield = {"yield_vault", "position"}
  BY <1>1
<1> QED BY <1>8, <1>9, <1>10

LEMMA StakeUnderstood ==
    ASSUME Starts(tx.keys, StakeRoles), YieldFits(tx.keys), PositionsHaveVaults,
           cluster \in Clusters
    PROVE  Understood(TakesStake) /\ Paired(TakesStake)
<1> DEFINE first == First(StakeRoles)
<1>1. Understood(first) /\ DOMAIN first = ToSet(StakeRoles)
  BY FirstUnderstood DEF First
<1>2. /\ Understood(TakesYield) /\ Paired(TakesYield)
      /\ DOMAIN TakesYield = {"yield_vault", "position"}
  BY YieldUnderstood DEF Starts
<1>3. TakesStake = With(first, TakesYield)
  BY DEF TakesStake, StakeRoles
<1>4. ToSet(StakeRoles) \cap {"yield_vault", "yield_tokens", "position"} = {}
  BY DEF StakeRoles, ToSet
<1> HIDE DEF first
<1>5. Paired(With(first, TakesYield))
  BY <1>1, <1>2, <1>4 DEF Paired, With
<1> QED BY <1>1, <1>2, <1>3, <1>5, JoinUnderstood

LEMMA UnstakeUnderstood ==
    ASSUME Starts(tx.keys, UnstakeRoles), YieldFits(tx.keys), ~In(tx.keys, "pool"),
           PositionsHaveVaults, cluster \in Clusters
    PROVE  Understood(TakesUnstake) /\ Paired(TakesUnstake)
<1> DEFINE first == First(UnstakeRoles)
           sixth == IF Len(tx.keys) > 5 /\ tx.keys[6] = "pool" THEN "pool" ELSE None
           pool == [r \in {"pool"} |-> sixth]
<1>1. Understood(first) /\ DOMAIN first = ToSet(UnstakeRoles)
  BY FirstUnderstood DEF First
<1>2. /\ Understood(TakesYield) /\ Paired(TakesYield)
      /\ DOMAIN TakesYield = {"yield_vault", "position"}
  BY YieldUnderstood DEF Starts
<1>3. Understood(pool) /\ DOMAIN pool = {"pool"}
  BY DEF Understood, In, Listed
<1>4. TakesUnstake = With(first, With(TakesYield, pool))
  BY DEF TakesUnstake, UnstakeRoles
<1>5. ToSet(UnstakeRoles) \cap {"yield_vault", "yield_tokens", "position"} = {}
  BY DEF UnstakeRoles, ToSet
<1> HIDE DEF first, pool
<1>6. Paired(With(first, With(TakesYield, pool)))
  BY <1>1, <1>2, <1>3, <1>5 DEF Paired, With
<1>7. Understood(With(first, With(TakesYield, pool)))
  BY <1>1, <1>2, <1>3, JoinUnderstood
<1> QED BY <1>4, <1>6, <1>7

\* Where SOL is withdrawn the handler finds no system program.
LEMMA TreasuryUnderstood ==
    ASSUME TreasuryFits(tx.keys), tx.op = "WithdrawTreasury"
    PROVE  Understood(TakesWithdrawTreasury) /\ Paired(TakesWithdrawTreasury)
<1> DEFINE first == First(TreasuryRoles)
           short == [r \in {"system_program"} |-> None]
           system == [r \in {"system_program"} |-> tx.keys[7]]
           tokens == [r \in {"treasury_tokens"} |-> LastOf(<<tx.keys[5]>>, Existing({r}))]
<1>1. Starts(tx.keys, TreasuryRoles)
  BY DEF TreasuryFits
<1>2. Understood(first) /\ DOMAIN first = ToSet(TreasuryRoles)
  BY <1>1, FirstUnderstood DEF First
<1>3. "yield_vault" \notin ToSet(TreasuryRoles)
  BY DEF TreasuryRoles, ToSet
<1>4. TakesWithdrawTreasury =
        With(first, IF Len(tx.keys) < 7 THEN short ELSE With(system, tokens))
  BY DEF TakesWithdrawTreasury, TreasuryRoles
<1>5. CASE Len(tx.keys) = 5
  <2>1. Understood(short) /\ DOMAIN short = {"system_program"}
    BY <1>5 DEF Understood, SolFromTreasury
  <2>2. TakesWithdrawTreasury = With(first, short)
    BY <1>4, <1>5
  <2> HIDE DEF first, short
  <2>3. Paired(With(first, short))
    BY <1>2, <1>3, <2>1 DEF Paired, With
  <2> QED BY <1>2, <2>1, <2>2, <2>3, JoinUnderstood
<1>6. CASE Len(tx.keys) = 7 /\ tx.keys[5] = "treasury_tokens" /\ tx.keys[7] = "system_program"
  <2>1. Understood(system) /\ DOMAIN system = {"system_program"}
    BY <1>6 DEF Understood
  <2>2. LastOf(<<"treasury_tokens">>, Existing({"treasury_tokens"})) =
          IF Exists("treasury_tokens") THEN "treasury_tokens" ELSE None
    <3> DEFINE list == <<"treasury_tokens">>
               wanted == Existing({"treasury_tokens"})
    <3>1. list \in Seq({"treasury_tokens"}) /\ DOMAIN list = 1..1 /\ list[1] = "treasury_tokens"
      OBVIOUS
    <3>2. wanted = IF Exists("treasury_tokens") THEN {"treasury_tokens"} ELSE {}
      BY DEF Existing
    <3> HIDE DEF list, wanted
    <3>3. IF Places(list, wanted) = {} THEN LastOf(list, wanted) = None
          ELSE LastOf(list, wanted) \in wanted
      BY <3>1, LastIsWanted
    <3>4. 1 \in DOMAIN list
      BY <3>1
    <3>5. Places(list, wanted) = {} <=> ~Exists("treasury_tokens")
      BY <3>1, <3>2, <3>4 DEF Places
    <3>6. LastOf(list, wanted) = IF Exists("treasury_tokens") THEN "treasury_tokens" ELSE None
      BY <3>2, <3>3, <3>5
    <3> QED BY <3>6 DEF list, wanted
  <2>3. Understood(tokens) /\ DOMAIN tokens = {"treasury_tokens"}
    BY <1>6, <2>2 DEF Understood
  <2>4. TakesWithdrawTreasury = With(first, With(system, tokens))
    BY <1>4, <1>6
  <2> HIDE DEF first, system, tokens
  <2>5. Paired(With(first, With(system, tokens)))
    BY <1>2, <1>3, <2>1, <2>3 DEF Paired, With
  <2>6. Understood(With(first, With(system, tokens)))
    BY <1>2, <2>1, <2>3, JoinUnderstood
  <2> QED BY <2>4, <2>5, <2>6
<1> QED BY <1>5, <1>6 DEF TreasuryFits

\* What is taken by position only is all there.
LEMMA FirstPaired ==
    ASSUME NEW STATE roles, Starts(tx.keys, roles)
    PROVE  Paired(First(roles))
<1>1. DOMAIN First(roles) = ToSet(roles)
  BY DEF First
<1>2. \A r \in ToSet(roles) : First(roles)[r] = r
  BY FirstUnderstood
<1> QED BY <1>1, <1>2 DEF Paired, None

\* Whatever the handler, a list that fits it is understood.
LEMMA TakesUnderstood ==
    ASSUME Fits(tx.op, tx.keys), PositionsHaveVaults, cluster \in Clusters
    PROVE  Understood(Takes) /\ Paired(Takes)
<1>1. CASE tx.op = "BorrowFromPool"
  <2>1. Takes = TakesBorrow /\ BorrowFits(tx.keys)
    BY <1>1 DEF Takes, Fits, ByPosition
  <2> QED BY <2>1, BorrowUnderstood
<1>2. CASE tx.op = "RepayLoan"
  <2>1. Takes = TakesRepay /\ RepayFits(tx.keys)
    BY <1>2 DEF Takes, Fits, ByPosition
  <2> QED BY <2>1, RepayUnderstood
<1>3. CASE tx.op = "CreateP2POffer"
  <2>1. Takes = TakesCreateP2POffer /\ Starts(tx.keys, CreateRoles)
    BY <1>3 DEF Takes, Fits, ByPosition
  <2> QED BY <2>1, CreateUnderstood
<1>4. CASE tx.op = "CancelP2POffer"
  <2>1. Takes = TakesCancel /\ Starts(tx.keys, CancelRoles)
    BY <1>4 DEF Takes, Fits, ByPosition
  <2> QED BY <2>1, CancelUnderstood
<1>5. CASE tx.op = "TriggerGracePeriod"
  <2>1. Takes = TakesGrace /\ GraceFits(tx.keys)
    BY <1>5 DEF Takes, Fits, ByPosition
  <2> QED BY <2>1, GraceUnderstood
<1>6. CASE tx.op = "ClaimDefault"
  <2>1. Takes = TakesClaim /\ ClaimFits(tx.keys)
    BY <1>6 DEF Takes, Fits, ByPosition
  <2> QED BY <2>1, ClaimUnderstood
<1>7. CASE tx.op = "StakeSKR"
  <2>1. Takes = TakesStake /\ Starts(tx.keys, StakeRoles) /\ YieldFits(tx.keys)
    BY <1>7 DEF Takes, Fits, ByPosition
  <2> QED BY <2>1, StakeUnderstood
<1>8. CASE tx.op = "UnstakeSKR"
  <2>1. Takes = TakesUnstake /\ Starts(tx.keys, UnstakeRoles) /\ YieldFits(tx.keys)
        /\ ~In(tx.keys, "pool")
    BY <1>8 DEF Takes, Fits, ByPosition
  <2> QED BY <2>1, UnstakeUnderstood
<1>9. CASE tx.op = "WithdrawTreasury"
  <2>1. Takes = TakesWithdrawTreasury /\ TreasuryFits(tx.keys)
    BY <1>9 DEF Takes, Fits, ByPosition
  <2> QED BY <2>1, <1>9, TreasuryUnderstood
<1>10. CASE tx.op \in ByPosition
  <2>1. Takes = First(Roles(tx.op)) /\ Starts(tx.keys, Roles(tx.op))
    BY <1>10 DEF Takes, Fits, ByPosition
  <2> QED BY <2>1, FirstUnderstood, FirstPaired
<1> QED BY <1>1, <1>2, <1>3, <1>4, <1>5, <1>6, <1>7, <1>8, <1>9, <1>10 DEF Fits

-----------------------------------------------------------------------------
(* What the builders list fits.                                            *)

\* A list and more behind it.
LEMMA Appended ==
    ASSUME NEW s \in Seq(Names), NEW t \in Seq(Names)
    PROVE  /\ s \o t \in Seq(Names)
           /\ Len(s \o t) = Len(s) + Len(t)
           /\ \A i \in 1..Len(s) : (s \o t)[i] = s[i]
           /\ \A i \in 1..Len(t) : (s \o t)[Len(s) + i] = t[i]
           /\ \A r : In(s \o t, r) <=> In(s, r) \/ In(t, r)
<1> DEFINE u == s \o t
<1>1. u \in Seq(Names) /\ Len(u) = Len(s) + Len(t)
  OBVIOUS
<1>2. \A i \in 1..Len(s) : u[i] = s[i]
  OBVIOUS
<1>3. \A i \in 1..Len(t) : u[Len(s) + i] = t[i]
  OBVIOUS
<1>4. /\ Len(s) \in Nat /\ Len(t) \in Nat
      /\ DOMAIN s = 1..Len(s) /\ DOMAIN t = 1..Len(t) /\ DOMAIN u = 1..(Len(s) + Len(t))
  BY <1>1
<1> HIDE DEF u
<1>5. ASSUME NEW r, In(s, r) PROVE In(u, r)
  BY <1>5, <1>2, <1>4 DEF In
<1>6. ASSUME NEW r, In(t, r) PROVE In(u, r)
  <2>1. PICK i \in 1..Len(t) : t[i] = r
    BY <1>4, <1>6 DEF In
  <2>2. Len(s) + i \in DOMAIN u /\ u[Len(s) + i] = r
    BY <1>3, <1>4, <2>1
  <2> QED BY <2>2 DEF In
<1>7. ASSUME NEW r, In(u, r) PROVE In(s, r) \/ In(t, r)
  <2>1. PICK i \in 1..(Len(s) + Len(t)) : u[i] = r
    BY <1>4, <1>7 DEF In
  <2>2. CASE i <= Len(s)
    BY <1>2, <1>4, <2>1, <2>2 DEF In
  <2>3. CASE i > Len(s)
    <3>1. i - Len(s) \in 1..Len(t) /\ Len(s) + (i - Len(s)) = i
      BY <1>4, <2>1, <2>3
    <3>2. t[i - Len(s)] = r
      BY <1>3, <2>1, <3>1
    <3> QED BY <1>4, <3>1, <3>2 DEF In
  <2> QED BY <1>4, <2>1, <2>2, <2>3
<1>8. \A r : In(u, r) <=> In(s, r) \/ In(t, r)
  BY <1>5, <1>6, <1>7
<1> QED BY <1>1, <1>2, <1>3, <1>8 DEF u

LEMMA StartsStill ==
    ASSUME NEW s, NEW roles, Starts(s, roles), NEW t \in Seq(Names)
    PROVE  Starts(s \o t, roles)
<1>1. s \in Seq(Names) /\ Len(s) \in Nat /\ Len(t) \in Nat /\ Len(roles) \in Nat
      /\ Len(roles) <= Len(s)
  BY DEF Starts
<1>2. /\ s \o t \in Seq(Names) /\ Len(s \o t) = Len(s) + Len(t)
      /\ \A i \in 1..Len(s) : (s \o t)[i] = s[i]
  BY <1>1, Appended
<1>3. ASSUME NEW i \in 1..Len(roles) PROVE (s \o t)[i] = roles[i]
  BY <1>1, <1>2 DEF Starts
<1> QED BY <1>1, <1>2, <1>3 DEF Starts

\* No accounts.
LEMMA NoAccounts == <<>> \in Seq(Names) /\ Len(<<>>) = 0 /\ \A r : ~In(<<>>, r)
BY DEF In

LEMMA BorrowFitted ==
    ASSUME NEW yield \in WithYield(<<"yield_vault", "yield_tokens">>)
    PROVE  BorrowFits(<<"borrower", "pool", "loan", "vault", "tokens", "collateral", "escrow",
                        "collateral_mint", "token_program", "system_program", "profile",
                        "treasury_tokens", "feed">> \o yield)
<1> DEFINE list == <<"borrower", "pool", "loan", "vault", "tokens", "collateral", "escrow",
                     "collateral_mint", "token_program", "system_program", "profile",
                     "treasury_tokens", "feed">>
           both == <<"yield_vault", "yield_tokens">>
<1>1. Starts(list, BorrowRoles)
  BY DEF Starts, BorrowRoles, Names
<1>2. ~In(list, "yield_vault") /\ ~In(list, "yield_tokens")
  BY DEF In
<1>3. both \in Seq(Names) /\ In(both, "yield_vault") /\ In(both, "yield_tokens")
  BY DEF In, Names
<1>4. yield \in {<<>>, both}
  BY DEF WithYield
<1> HIDE DEF list, both
<1>5. yield \in Seq(Names) /\ (In(yield, "yield_vault") <=> In(yield, "yield_tokens"))
  BY <1>3, <1>4, NoAccounts
<1>6. Starts(list \o yield, BorrowRoles)
  BY <1>1, <1>5, StartsStill
<1>7. \A r : In(list \o yield, r) <=> In(list, r) \/ In(yield, r)
  BY <1>1, <1>5, Appended DEF Starts
<1>8. BorrowFits(list \o yield)
  BY <1>2, <1>5, <1>6, <1>7 DEF BorrowFits
<1> QED BY <1>8 DEF list

LEMMA RepayFitted ==
    /\ RepayFits(RepayKeys)
    /\ RepayFits(<<"borrower", "loan", "tokens", "destination", "escrow", "collateral",
                   "token_program", "system_program">>)
<1>1. RepayFits(RepayKeys)
  <2>1. RepayKeys \in Seq(Names)
    BY DEF RepayKeys, Names
  <2>2. RepayRoles \in Seq(Names) /\ Len(RepayRoles) = 6 /\ Len(RepayKeys) = 11
    BY DEF RepayRoles, RepayKeys, Names
  <2>3. RepayKeys[11] = "treasury_tokens" /\ \A i \in 1..6 : RepayKeys[i] = RepayRoles[i]
    BY DEF RepayRoles, RepayKeys
  <2> QED BY <2>1, <2>2, <2>3 DEF RepayFits, Starts
<1> DEFINE list == <<"borrower", "loan", "tokens", "destination", "escrow", "collateral",
                     "token_program", "system_program">>
<1>2. RepayFits(list)
  <2>1. list \in Seq(Names) /\ Len(list) = 8
    BY DEF Names
  <2>2. RepayRoles \in Seq(Names) /\ Len(RepayRoles) = 6
    BY DEF RepayRoles, Names
  <2>3. \A i \in 1..6 : list[i] = RepayRoles[i]
    BY DEF RepayRoles
  <2>4. \A i \in 7..8 : list[i] \in {"token_program", "system_program"}
    OBVIOUS
  <2> HIDE DEF list
  <2> QED BY <2>1, <2>2, <2>3, <2>4 DEF RepayFits, Starts
<1> QED BY <1>1, <1>2

LEMMA CreateFitted ==
    Starts(<<"creator", "offer", "collateral", "escrow", "collateral_mint", "token_program",
             "system_program", "feed", "usdc_mint">>, CreateRoles)
BY DEF Starts, CreateRoles, Names

LEMMA CancelFitted ==
    ASSUME NEW spl \in {<<>>, <<"token_program">>}
    PROVE  Starts(<<"creator", "offer", "escrow", "collateral">> \o spl \o <<"system_program">>,
                  CancelRoles)
<1> DEFINE list == <<"creator", "offer", "escrow", "collateral">>
           system == <<"system_program">>
<1>1. Starts(list, CancelRoles)
  BY DEF Starts, CancelRoles, Names
<1>2. <<"token_program">> \in Seq(Names) /\ system \in Seq(Names)
  BY DEF Names
<1> HIDE DEF list, system
<1>3. spl \in Seq(Names) /\ Starts(list \o spl, CancelRoles)
  BY <1>1, <1>2, NoAccounts, StartsStill
<1>4. Starts((list \o spl) \o system, CancelRoles)
  BY <1>2, <1>3, StartsStill
<1> QED BY <1>4 DEF list, system

LEMMA GraceFitted ==
    ASSUME NEW pool \in {<<>>, <<"pool">>}
    PROVE  GraceFits(<<"caller", "loan">> \o pool \o <<"clock">>)
<1> DEFINE list == <<"caller", "loan">>
           one == <<"pool">>
           clock == <<"clock">>
           front == list \o pool
<1>1. Starts(list, GraceRoles) /\ list \in Seq(Names) /\ Len(list) = 2 /\ ~In(list, "pool")
  BY DEF Starts, GraceRoles, In, Names
<1>2. one \in Seq(Names) /\ Len(one) = 1 /\ one[1] = "pool"
  BY DEF Names
<1>3. clock \in Seq(Names) /\ Len(clock) = 1 /\ ~In(clock, "pool")
  BY DEF In, Names
<1>4. pool \in {<<>>, one}
  OBVIOUS
<1> HIDE DEF list, one, clock
<1>5. pool \in Seq(Names)
  BY <1>2, <1>4, NoAccounts
<1>6. /\ front \in Seq(Names) /\ Len(front) = 2 + Len(pool)
      /\ \A i \in 1..Len(pool) : front[2 + i] = pool[i]
  <2>1. /\ front \in Seq(Names) /\ Len(front) = Len(list) + Len(pool)
        /\ \A i \in 1..Len(pool) : front[Len(list) + i] = pool[i]
    BY <1>1, <1>5, Appended
  <2> HIDE DEF front
  <2> QED BY <1>1, <2>1
<1>7. Starts(front, GraceRoles) /\ (In(front, "pool") <=> In(pool, "pool"))
  BY <1>1, <1>5, StartsStill, Appended
<1> HIDE DEF front
<1>8. /\ Len(front \o clock) = Len(front) + 1
      /\ \A i \in 1..Len(front) : (front \o clock)[i] = front[i]
      /\ In(front \o clock, "pool") <=> In(front, "pool")
  BY <1>3, <1>6, Appended
<1>9. Starts(front \o clock, GraceRoles)
  BY <1>3, <1>7, StartsStill
<1>10. CASE pool = <<>>
  BY <1>6, <1>7, <1>8, <1>9, <1>10, NoAccounts DEF GraceFits, front, list, clock
<1>11. CASE pool = one
  <2>1. Len(front) = 3 /\ front[3] = "pool"
    <3>1. 1 \in 1..Len(pool) /\ 2 + 1 = 3 /\ pool[1] = "pool" /\ Len(pool) = 1
      BY <1>2, <1>11
    <3>2. front[2 + 1] = pool[1]
      BY <1>6, <3>1
    <3> QED BY <1>6, <3>1, <3>2
  <2>2. Len(front \o clock) > 2 /\ (front \o clock)[3] = "pool"
    BY <1>8, <2>1
  <2> QED BY <1>9, <2>2 DEF GraceFits, front, list, clock
<1> QED BY <1>4, <1>10, <1>11

LEMMA ClaimFitted ==
    ASSUME NEW borrower \in {<<>>, <<"profile", "stake_escrow">>},
           NEW slash \in {<<>>, <<"slash_tokens">>},
           NEW pool \in {<<>>, <<"pool">> \o borrower \o <<"treasury">> \o slash}
    PROVE  ClaimFits(<<"caller", "loan", "escrow", "destination">> \o pool
                        \o <<"token_program", "system_program", "clock">>)
<1> DEFINE list == <<"caller", "loan", "escrow", "destination">>
           rest == <<"token_program", "system_program", "clock">>
<1>1. Starts(list, ClaimRoles) /\ Len(list) = 4
  BY DEF Starts, ClaimRoles, Names
<1>2. rest \in Seq(Names) /\ Len(rest) = 3
      /\ \A i \in 1..3 : rest[i] \in {"token_program", "system_program", "clock"}
  BY DEF Names
<1> HIDE DEF list, rest
<1> DEFINE front == list \o pool
<1>3. CASE pool = <<>>
  <2>1. Starts(front, ClaimRoles) /\ front \in Seq(Names)
    BY <1>1, <1>3, NoAccounts, StartsStill DEF Starts
  <2>2. Len(front) = 4
    <3>1. list \in Seq(Names)
      BY <1>1 DEF Starts
    <3>2. pool \in Seq(Names) /\ Len(pool) = 0
      BY <1>3, NoAccounts
    <3>3. Len(front) = Len(list) + Len(pool)
      BY <3>1, <3>2, Appended
    <3> QED BY <1>1, <3>2, <3>3
  <2> HIDE DEF front
  <2>3. Starts(front \o rest, ClaimRoles)
    BY <1>2, <2>1, StartsStill
  <2>4. /\ Len(front \o rest) = 4 + Len(rest)
        /\ \A i \in 1..Len(rest) : (front \o rest)[4 + i] = rest[i]
    <3>1. /\ Len(front \o rest) = Len(front) + Len(rest)
          /\ \A i \in 1..Len(rest) : (front \o rest)[Len(front) + i] = rest[i]
      BY <1>2, <2>1, Appended
    <3> QED BY <2>2, <3>1
  <2>5. ASSUME NEW i \in 5..Len(front \o rest)
        PROVE  (front \o rest)[i] \in {"token_program", "system_program", "clock"}
    <3>1. i - 4 \in 1..3 /\ 4 + (i - 4) = i
      BY <1>2, <2>4
    <3>2. (front \o rest)[4 + (i - 4)] = rest[i - 4]
      BY <1>2, <2>4, <3>1
    <3> QED BY <3>1, <3>2, <1>2
  <2> QED BY <2>3, <2>5 DEF ClaimFits, front, list, rest
<1>4. CASE pool = <<"pool">> \o borrower \o <<"treasury">> \o slash
  <2> DEFINE treasury == <<"treasury">>
             one == <<"pool">>
             margin == <<"profile", "stake_escrow">>
             slashed == <<"slash_tokens">>
             head == one \o borrower
             body == head \o treasury
  <2>1. one \in Seq(Names) /\ margin \in Seq(Names) /\ slashed \in Seq(Names)
        /\ treasury \in Seq(Names) /\ In(treasury, "treasury")
    BY DEF Names, In
  <2>2. borrower \in {<<>>, margin} /\ slash \in {<<>>, slashed}
    OBVIOUS
  <2>3. pool = body \o slash
    BY <1>4
  <2> HIDE DEF treasury, one, margin, slashed
  <2>4. borrower \in Seq(Names) /\ slash \in Seq(Names)
    BY <2>1, <2>2, NoAccounts
  <2>5. head \in Seq(Names)
    BY <2>1, <2>4, Appended
  <2> HIDE DEF head
  <2>6. body \in Seq(Names) /\ In(body, "treasury")
    BY <2>1, <2>5, Appended
  <2> HIDE DEF body
  <2>7. pool \in Seq(Names) /\ In(pool, "treasury")
    BY <2>3, <2>4, <2>6, Appended
  <2>8. list \in Seq(Names)
    BY <1>1 DEF Starts
  <2>9. front \in Seq(Names) /\ Starts(front, ClaimRoles) /\ In(front, "treasury")
    BY <1>1, <2>7, <2>8, StartsStill, Appended
  <2> HIDE DEF front
  <2>10. Starts(front \o rest, ClaimRoles) /\ In(front \o rest, "treasury")
    BY <1>2, <2>9, StartsStill, Appended
  <2> QED BY <2>10 DEF ClaimFits, front, list, rest
<1> QED BY <1>3, <1>4

LEMMA StakeFitted ==
    ASSUME NEW yield \in WithYield(<<"yield_vault", "position">>)
    PROVE  LET keys == <<"user", "profile", "tokens", "stake_escrow", "system_program",
                         "token_program", "skr_mint">> \o yield
           IN  Starts(keys, StakeRoles) /\ YieldFits(keys)
<1> DEFINE list == <<"user", "profile", "tokens", "stake_escrow", "system_program",
                     "token_program", "skr_mint">>
           both == <<"yield_vault", "position">>
<1>1. Starts(list, StakeRoles) /\ ~In(list, "yield_vault") /\ ~In(list, "position")
  BY DEF Starts, StakeRoles, Names, In
<1>2. both \in Seq(Names) /\ In(both, "yield_vault") /\ In(both, "position")
  BY DEF In, Names
<1>3. yield \in {<<>>, both}
  BY DEF WithYield
<1> HIDE DEF list, both
<1>4. yield \in Seq(Names) /\ (In(yield, "yield_vault") <=> In(yield, "position"))
  BY <1>2, <1>3, NoAccounts
<1>5. Starts(list \o yield, StakeRoles)
  BY <1>1, <1>4, StartsStill
<1>6. \A r : In(list \o yield, r) <=> In(list, r) \/ In(yield, r)
  BY <1>1, <1>4, Appended DEF Starts
<1>7. YieldFits(list \o yield)
  BY <1>1, <1>4, <1>6 DEF YieldFits
<1> QED BY <1>5, <1>7 DEF list

LEMMA UnstakeFitted ==
    ASSUME NEW yield \in WithYield(<<"yield_vault", "position">>)
    PROVE  LET keys == <<"user", "profile", "tokens", "stake_escrow", "token_program">> \o yield
           IN  Starts(keys, UnstakeRoles) /\ YieldFits(keys) /\ ~In(keys, "pool")
<1> DEFINE list == <<"user", "profile", "tokens", "stake_escrow", "token_program">>
           both == <<"yield_vault", "position">>
<1>1. /\ Starts(list, UnstakeRoles)
      /\ ~In(list, "yield_vault") /\ ~In(list, "position") /\ ~In(list, "pool")
  BY DEF Starts, UnstakeRoles, Names, In
<1>2. /\ both \in Seq(Names) /\ In(both, "yield_vault") /\ In(both, "position")
      /\ ~In(both, "pool")
  BY DEF In, Names
<1>3. yield \in {<<>>, both}
  BY DEF WithYield
<1> HIDE DEF list, both
<1>4. /\ yield \in Seq(Names) /\ (In(yield, "yield_vault") <=> In(yield, "position"))
      /\ ~In(yield, "pool")
  BY <1>2, <1>3, NoAccounts
<1>5. Starts(list \o yield, UnstakeRoles)
  BY <1>1, <1>4, StartsStill
<1>6. \A r : In(list \o yield, r) <=> In(list, r) \/ In(yield, r)
  BY <1>1, <1>4, Appended DEF Starts
<1>7. YieldFits(list \o yield) /\ ~In(list \o yield, "pool")
  BY <1>1, <1>4, <1>6 DEF YieldFits
<1> QED BY <1>5, <1>7 DEF list

LEMMA TreasuryFitted ==
    ASSUME NEW tokens \in {<<>>, <<"treasury_tokens", "token_program">>}
    PROVE  TreasuryFits(<<"admin", "admin_config", "treasury", "destination">> \o tokens
                          \o <<"system_program">>)
<1> DEFINE list == <<"admin", "admin_config", "treasury", "destination">>
           system == <<"system_program">>
           both == <<"treasury_tokens", "token_program">>
<1>1. Starts(list, TreasuryRoles) /\ list \in Seq(Names) /\ Len(list) = 4
  BY DEF Starts, TreasuryRoles, Names
<1>2. system \in Seq(Names) /\ Len(system) = 1 /\ system[1] = "system_program"
  BY DEF Names
<1>3. both \in Seq(Names) /\ Len(both) = 2 /\ both[1] = "treasury_tokens"
  BY DEF Names
<1>4. tokens \in {<<>>, both}
  OBVIOUS
<1> HIDE DEF list, system, both
<1>5. tokens \in Seq(Names)
  BY <1>3, <1>4, NoAccounts
<1>6. list \o tokens \in Seq(Names) /\ Len(list \o tokens) = 4 + Len(tokens)
      /\ \A i \in 1..Len(tokens) : (list \o tokens)[4 + i] = tokens[i]
  <2>1. /\ list \o tokens \in Seq(Names) /\ Len(list \o tokens) = Len(list) + Len(tokens)
        /\ \A i \in 1..Len(tokens) : (list \o tokens)[Len(list) + i] = tokens[i]
    BY <1>1, <1>5, Appended
  <2> QED BY <1>1, <2>1
<1> DEFINE front == list \o tokens
<1> HIDE DEF front
<1>7. /\ Len(front \o system) = Len(front) + 1
      /\ \A i \in 1..Len(front) : (front \o system)[i] = front[i]
      /\ (front \o system)[Len(front) + 1] = "system_program"
  <2>1. front \in Seq(Names)
    BY <1>6 DEF front
  <2>2. /\ Len(front \o system) = Len(front) + Len(system)
        /\ \A i \in 1..Len(front) : (front \o system)[i] = front[i]
        /\ \A i \in 1..Len(system) : (front \o system)[Len(front) + i] = system[i]
    BY <1>2, <2>1, Appended
  <2>3. 1 \in 1..Len(system)
    BY <1>2
  <2> QED BY <1>2, <2>2, <2>3
<1>8. Starts(front \o system, TreasuryRoles)
  BY <1>1, <1>2, <1>5, StartsStill DEF front
<1>9. CASE tokens = <<>>
  <2>1. Len(front \o system) = 5
    BY <1>6, <1>7, <1>9, NoAccounts DEF front
  <2> QED BY <1>8, <2>1 DEF TreasuryFits, front, list, system
<1>10. CASE tokens = both
  <2>1. Len(front) = 6 /\ front[5] = "treasury_tokens"
    <3>1. 1 \in 1..Len(tokens) /\ 4 + 1 = 5 /\ tokens[1] = "treasury_tokens" /\ Len(tokens) = 2
      BY <1>3, <1>10
    <3>2. (list \o tokens)[4 + 1] = tokens[1]
      BY <1>6, <3>1
    <3> QED BY <1>6, <3>1, <3>2 DEF front
  <2>2. /\ Len(front \o system) = 7 /\ (front \o system)[5] = "treasury_tokens"
        /\ (front \o system)[7] = "system_program"
    BY <1>7, <2>1
  <2> QED BY <1>8, <2>2 DEF TreasuryFits, front, list, system
<1> QED BY <1>4, <1>9, <1>10

-----------------------------------------------------------------------------
(* The invariant.                                                          *)

Made == tx = [op |-> tx.op, keys |-> tx.keys, amount |-> tx.amount,
              unread |-> tx.unread, taken |-> tx.taken]

WireIInv ==
    /\ cluster \in Clusters /\ DOMAIN world = Clusters /\ PositionsHaveVaults
    /\ Made
    /\ tx.op # None => Fits(tx.op, tx.keys)
    /\ tx.amount = "rounded" => tx.unread
    /\ tx.taken # <<>> => Understood(tx.taken) /\ Paired(tx.taken)

\* A transaction that was built just now.
Built ==
    /\ Made' /\ tx'.taken = <<>> /\ Fits(tx'.op, tx'.keys)
    /\ tx'.amount = "rounded" => tx'.unread
    /\ UNCHANGED <<cluster, world>>

LEMMA ListsBuilds ==
    ASSUME NEW STATE op, NEW STATE keys, Fits(op, keys), Lists(op, keys)
    PROVE  Built
BY DEF Lists, Unbuilt, Built, Made, None

LEMMA RepaysBuilds ==
    ASSUME NEW STATE keys, NEW STATE shown, NEW STATE read,
           RepayFits(keys), read \in BOOLEAN, Repays(keys, shown, read)
    PROVE  Built
<1>1. Fits("RepayLoan", keys)
  BY DEF Fits
<1> QED BY <1>1 DEF Repays, Unbuilt, Built, Made, None

\* A list for a handler that takes all by position.
LEMMA PositionBuilds ==
    ASSUME NEW op \in ByPosition, NEW keys, Lists(op, keys), Starts(keys, Roles(op))
    PROVE  Built
<1>1. Fits(op, keys)
  BY DEF Fits
<1> QED BY <1>1, ListsBuilds

LEMMA BuildFits ==
    ASSUME Build
    PROVE  Built
<1>1. CASE BuildCreatePool
  <2> DEFINE keys == <<"authority", "pool", "mint", "vault", "system_program", "rent",
                       "token_program">>
  <2>1. Starts(keys, Roles("InitializePool"))
    BY DEF Starts, Roles, Names
  <2>2. "InitializePool" \in ByPosition /\ Lists("InitializePool", keys)
    BY <1>1 DEF ByPosition, BuildCreatePool
  <2> QED BY <2>1, <2>2, PositionBuilds
<1>2. CASE BuildDepositLiquidity
  <2> DEFINE keys == <<"authority", "pool", "tokens", "vault", "token_program">>
  <2>1. Starts(keys, Roles("DepositLiquidity"))
    BY DEF Starts, Roles, Names
  <2>2. "DepositLiquidity" \in ByPosition /\ Lists("DepositLiquidity", keys)
    BY <1>2 DEF ByPosition, BuildDepositLiquidity
  <2> QED BY <2>1, <2>2, PositionBuilds
<1>3. CASE BuildWithdrawLiquidity
  <2> DEFINE keys == <<"authority", "pool", "vault", "tokens", "token_program">>
  <2>1. Starts(keys, Roles("WithdrawLiquidity"))
    BY DEF Starts, Roles, Names
  <2>2. "WithdrawLiquidity" \in ByPosition /\ Lists("WithdrawLiquidity", keys)
    BY <1>3 DEF ByPosition, BuildWithdrawLiquidity
  <2> QED BY <2>1, <2>2, PositionBuilds
<1>4. CASE BuildBorrow
  <2>1. PICK yield \in WithYield(<<"yield_vault", "yield_tokens">>) :
          Lists("BorrowFromPool",
            <<"borrower", "pool", "loan", "vault", "tokens", "collateral", "escrow",
              "collateral_mint", "token_program", "system_program", "profile",
              "treasury_tokens", "feed">> \o yield)
    BY <1>4 DEF BuildBorrow
  <2> DEFINE keys == <<"borrower", "pool", "loan", "vault", "tokens", "collateral", "escrow",
                       "collateral_mint", "token_program", "system_program", "profile",
                       "treasury_tokens", "feed">> \o yield
  <2>2. BorrowFits(keys)
    BY BorrowFitted
  <2>3. Lists("BorrowFromPool", keys)
    BY <2>1
  <2> HIDE DEF keys
  <2>4. Fits("BorrowFromPool", keys)
    BY <2>2 DEF Fits
  <2> QED BY <2>3, <2>4, ListsBuilds
<1>5. CASE BuildRepay
  BY <1>5, RepayFitted, RepaysBuilds DEF BuildRepay
<1>6. CASE BuildTriggerGracePeriod
  <2>1. PICK pool \in {<<>>, <<"pool">>} :
          Lists("TriggerGracePeriod", <<"caller", "loan">> \o pool \o <<"clock">>)
    BY <1>6 DEF BuildTriggerGracePeriod
  <2> DEFINE keys == <<"caller", "loan">> \o pool \o <<"clock">>
  <2>2. GraceFits(keys) /\ Lists("TriggerGracePeriod", keys)
    BY <2>1, GraceFitted
  <2> HIDE DEF keys
  <2>3. Fits("TriggerGracePeriod", keys)
    BY <2>2 DEF Fits
  <2> QED BY <2>2, <2>3, ListsBuilds
<1>7. CASE BuildClaimDefault
  <2>1. PICK borrower \in {<<>>, <<"profile", "stake_escrow">>},
             slash \in {<<>>, <<"slash_tokens">>} :
          \E pool \in {<<>>, <<"pool">> \o borrower \o <<"treasury">> \o slash} :
            Lists("ClaimDefault",
                <<"caller", "loan", "escrow", "destination">> \o pool
                    \o <<"token_program", "system_program", "clock">>)
    BY <1>7 DEF BuildClaimDefault
  <2>2. PICK pool \in {<<>>, <<"pool">> \o borrower \o <<"treasury">> \o slash} :
            Lists("ClaimDefault",
                <<"caller", "loan", "escrow", "destination">> \o pool
                    \o <<"token_program", "system_program", "clock">>)
    BY <2>1
  <2> DEFINE keys == <<"caller", "loan", "escrow", "destination">> \o pool
                       \o <<"token_program", "system_program", "clock">>
  <2>3. ClaimFits(keys)
    BY ClaimFitted, Zenon
  <2>4. Lists("ClaimDefault", keys)
    BY <2>2
  <2> HIDE DEF keys
  <2>5. Fits("ClaimDefault", keys)
    BY <2>3 DEF Fits
  <2> QED BY <2>4, <2>5, ListsBuilds
<1>8. CASE BuildCreateP2POffer
  <2> DEFINE keys == <<"creator", "offer", "collateral", "escrow", "collateral_mint",
                       "token_program", "system_program", "feed", "usdc_mint">>
  <2>1. Starts(keys, CreateRoles) /\ Lists("CreateP2POffer", keys)
    BY <1>8, CreateFitted DEF BuildCreateP2POffer
  <2> HIDE DEF keys
  <2>2. Fits("CreateP2POffer", keys)
    BY <2>1 DEF Fits
  <2> QED BY <2>1, <2>2, ListsBuilds
<1>9. CASE BuildFundP2POffer
  <2> DEFINE keys == <<"funder", "offer", "tokens", "creator_tokens", "token_program">>
  <2>1. Starts(keys, Roles("FundP2POffer"))
    BY DEF Starts, Roles, Names
  <2>2. "FundP2POffer" \in ByPosition /\ Lists("FundP2POffer", keys)
    BY <1>9 DEF ByPosition, BuildFundP2POffer
  <2> QED BY <2>1, <2>2, PositionBuilds
<1>10. CASE BuildCancelPawnOffer
  <2>1. PICK spl \in {<<>>, <<"token_program">>} :
          Lists("CancelP2POffer",
            <<"creator", "offer", "escrow", "collateral">> \o spl \o <<"system_program">>)
    BY <1>10 DEF BuildCancelPawnOffer
  <2> DEFINE keys == <<"creator", "offer", "escrow", "collateral">> \o spl
                       \o <<"system_program">>
  <2>2. Starts(keys, CancelRoles) /\ Lists("CancelP2POffer", keys)
    BY <2>1, CancelFitted
  <2> HIDE DEF keys
  <2>3. Fits("CancelP2POffer", keys)
    BY <2>2 DEF Fits
  <2> QED BY <2>2, <2>3, ListsBuilds
<1>11. CASE BuildRepayPawnOffer
  BY <1>11, RepayFitted, RepaysBuilds DEF BuildRepayPawnOffer
<1>12. CASE BuildStakeSkr
  <2>1. PICK yield \in WithYield(<<"yield_vault", "position">>) :
          Lists("StakeSKR",
            <<"user", "profile", "tokens", "stake_escrow", "system_program", "token_program",
              "skr_mint">> \o yield)
    BY <1>12 DEF BuildStakeSkr
  <2> DEFINE keys == <<"user", "profile", "tokens", "stake_escrow", "system_program",
                       "token_program", "skr_mint">> \o yield
  <2>2. Starts(keys, StakeRoles) /\ YieldFits(keys)
    BY StakeFitted
  <2>3. Lists("StakeSKR", keys)
    BY <2>1
  <2> HIDE DEF keys
  <2>4. Fits("StakeSKR", keys)
    BY <2>2 DEF Fits
  <2> QED BY <2>3, <2>4, ListsBuilds
<1>13. CASE BuildUnstakeSkr
  <2>1. PICK yield \in WithYield(<<"yield_vault", "position">>) :
          Lists("UnstakeSKR",
            <<"user", "profile", "tokens", "stake_escrow", "token_program">> \o yield)
    BY <1>13 DEF BuildUnstakeSkr
  <2> DEFINE keys == <<"user", "profile", "tokens", "stake_escrow", "token_program">> \o yield
  <2>2. Starts(keys, UnstakeRoles) /\ YieldFits(keys) /\ ~In(keys, "pool")
    BY UnstakeFitted
  <2>3. Lists("UnstakeSKR", keys)
    BY <2>1
  <2> HIDE DEF keys
  <2>4. Fits("UnstakeSKR", keys)
    BY <2>2 DEF Fits
  <2> QED BY <2>3, <2>4, ListsBuilds
<1>14. CASE BuildInitializeSkrYieldVault
  <2> DEFINE keys == <<"authority", "yield_vault", "mint", "yield_tokens", "system_program",
                       "rent", "token_program", "admin_config">>
  <2>1. Starts(keys, Roles("InitializeSkrYieldVault"))
    BY DEF Starts, Roles, Names
  <2>2. "InitializeSkrYieldVault" \in ByPosition /\ Lists("InitializeSkrYieldVault", keys)
    BY <1>14 DEF ByPosition, BuildInitializeSkrYieldVault
  <2> QED BY <2>1, <2>2, PositionBuilds
<1>15. CASE BuildDepositSkrYield
  <2> DEFINE keys == <<"depositor", "yield_vault", "tokens", "yield_tokens", "token_program">>
  <2>1. Starts(keys, Roles("DepositSkrYield"))
    BY DEF Starts, Roles, Names
  <2>2. "DepositSkrYield" \in ByPosition /\ Lists("DepositSkrYield", keys)
    BY <1>15 DEF ByPosition, BuildDepositSkrYield
  <2> QED BY <2>1, <2>2, PositionBuilds
<1>16. CASE BuildClaimSkrYield
  <2> DEFINE keys == <<"user", "yield_vault", "position", "yield_tokens", "tokens",
                       "token_program", "system_program", "stake_escrow">>
  <2>1. Starts(keys, Roles("ClaimSkrYield"))
    BY DEF Starts, Roles, Names
  <2>2. "ClaimSkrYield" \in ByPosition /\ Lists("ClaimSkrYield", keys)
    BY <1>16 DEF ByPosition, BuildClaimSkrYield
  <2> QED BY <2>1, <2>2, PositionBuilds
<1>17. CASE BuildWithdrawUnusedYield
  <2> DEFINE keys == <<"authority", "yield_vault", "yield_tokens", "tokens", "token_program">>
  <2>1. Starts(keys, Roles("WithdrawUnusedYield"))
    BY DEF Starts, Roles, Names
  <2>2. "WithdrawUnusedYield" \in ByPosition /\ Lists("WithdrawUnusedYield", keys)
    BY <1>17 DEF ByPosition, BuildWithdrawUnusedYield
  <2> QED BY <2>1, <2>2, PositionBuilds
<1>18. CASE BuildWithdrawTreasury
  <2>1. PICK tokens \in {<<>>, <<"treasury_tokens", "token_program">>} :
          Lists("WithdrawTreasury",
            <<"admin", "admin_config", "treasury", "destination">> \o tokens
                \o <<"system_program">>)
    BY <1>18 DEF BuildWithdrawTreasury
  <2> DEFINE keys == <<"admin", "admin_config", "treasury", "destination">> \o tokens
                       \o <<"system_program">>
  <2>2. TreasuryFits(keys) /\ Lists("WithdrawTreasury", keys)
    BY <2>1, TreasuryFitted
  <2> HIDE DEF keys
  <2>3. Fits("WithdrawTreasury", keys)
    BY <2>2 DEF Fits
  <2> QED BY <2>2, <2>3, ListsBuilds
<1> QED
  BY <1>1, <1>2, <1>3, <1>4, <1>5, <1>6, <1>7, <1>8, <1>9, <1>10, <1>11, <1>12, <1>13,
     <1>14, <1>15, <1>16, <1>17, <1>18 DEF Build

\* The program finds the accounts the builders meant, for any clusters and
\* whichever accounts come to be between building and executing.
THEOREM WireIsUnderstood == WireSpec => []TransactionsAreUnderstood
<1>1. WireInit => WireIInv
  <2> SUFFICES ASSUME WireInit PROVE WireIInv
    OBVIOUS
  <2>1. Made /\ tx.op = None /\ tx.amount # "rounded" /\ tx.taken = <<>>
    BY DEF WireInit, Unbuilt, Made, None
  <2>2. cluster \in Clusters /\ DOMAIN world = Clusters /\ PositionsHaveVaults
    BY DEF WireInit, PositionsHaveVaults
  <2> QED BY <2>1, <2>2 DEF WireIInv
<1>2. WireIInv /\ [WireNext]_wireVars => WireIInv'
  <2> SUFFICES ASSUME WireIInv, [WireNext]_wireVars PROVE WireIInv'
    OBVIOUS
  <2>1. CASE Execute
    <3>1. /\ tx.op # None /\ tx' = [tx EXCEPT !.taken = Takes]
          /\ cluster' = cluster /\ world' = world
      BY <2>1 DEF Execute
    <3>2. /\ tx'.op = tx.op /\ tx'.keys = tx.keys /\ tx'.amount = tx.amount
          /\ tx'.unread = tx.unread /\ tx'.taken = Takes /\ Made'
      BY <3>1 DEF WireIInv, Made
    <3>3. Understood(Takes) /\ Paired(Takes)
      BY <3>1, TakesUnderstood DEF WireIInv
    <3>4. (\A r : (Listed(r)' <=> Listed(r)) /\ (Exists(r)' <=> Exists(r)))
          /\ (SolFromTreasury' <=> SolFromTreasury)
          /\ (PositionsHaveVaults' <=> PositionsHaveVaults)
      BY <3>1, <3>2 DEF Listed, Exists, SolFromTreasury, PositionsHaveVaults
    <3>5. Understood(tx.taken)' /\ Paired(tx.taken)'
      BY <3>2, <3>3, <3>4 DEF Understood, Paired
    <3> QED BY <3>1, <3>2, <3>4, <3>5 DEF WireIInv
  <2>2. CASE Build
    <3>1. Built
      BY <2>2, BuildFits
    <3>2. PositionsHaveVaults'
      BY <3>1 DEF Built, PositionsHaveVaults, WireIInv
    <3> QED BY <3>1, <3>2 DEF Built, WireIInv
  <2>3. ASSUME NEW n \in Clusters, NEW account \in Optional, Create(n, account)
        PROVE  WireIInv'
    <3>1. cluster' \in Clusters /\ DOMAIN world' = Clusters
      BY <2>3 DEF Create, WireIInv
    <3>2. PositionsHaveVaults'
      BY <2>3 DEF Create, WireIInv, PositionsHaveVaults
    <3>3. CASE tx.taken = <<>>
      BY <2>3, <3>1, <3>2, <3>3 DEF Create, WireIInv, Made
    <3>4. CASE tx.taken # <<>>
      BY <2>3, <3>1, <3>2, <3>4 DEF Create, WireIInv, Made, Unbuilt, None
    <3> QED BY <3>3, <3>4
  <2>4. CASE UNCHANGED wireVars
    <3>1. cluster' = cluster /\ world' = world /\ tx' = tx
      BY <2>4 DEF wireVars
    <3> QED BY <3>1 DEF WireIInv, Made, PositionsHaveVaults, Understood, Paired, Listed,
                        Exists, SolFromTreasury
  <2> QED BY <2>1, <2>2, <2>3, <2>4 DEF WireNext
<1>3. WireIInv => TransactionsAreUnderstood
  <2> SUFFICES ASSUME WireIInv PROVE TransactionsAreUnderstood
    OBVIOUS
  <2>1. tx.taken = <<>> => DOMAIN tx.taken = {}
    OBVIOUS
  <2>2. Understood(tx.taken) /\ Paired(tx.taken)
    BY <2>1 DEF WireIInv, Understood, Paired
  <2> QED BY <2>2 DEF TransactionsAreUnderstood, WireIInv, Understood, Paired
<1> QED BY <1>1, <1>2, <1>3, PTL DEF WireSpec
=============================================================================
