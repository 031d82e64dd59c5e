-------------------------- MODULE SettlementProofs --------------------------
(***************************************************************************)
(* Theorems about the harness, for every deployment that can be started:   *)
(* the engine, the chain and the indexer agree on every trade, and the     *)
(* mirror is custody's to the unit while nothing is taken back.            *)
(*                                                                         *)
(* What is proved of the components holds of the composition: EngineProofs *)
(* and ChainProofs are instantiated with the harness's variables, and      *)
(* every step of the harness is a step of theirs or leaves them alone.     *)
(* E and EP, and C, I and CP, are instances of the same modules: a         *)
(* definition of the one is a definition of the other, which the Same...   *)
(* lemmas say once for each command.                                       *)
(***************************************************************************)
EXTENDS Settlement, Induction

(* What the log of the harness may say.                                     *)
Notices == [kind : {"BalanceChanged"}, account : Accounts, available : Nat]
           \cup [kind : {"SettlementResolved"}, nonce : RequestSlots,
                 status : {"Settled", "Reverted"}]

EP == INSTANCE EngineProofs WITH
        Balances <- Nat, MaxTime <- MaxTime + MaxRequestTtl + MaxQuoteTtl

CP == INSTANCE ChainProofs WITH
        now <- chain_now, Nonces <- RequestSlots, Amounts <- Deposits \cup Withdrawals,
        Bundles <- C!Bundle, Payloads <- Notices, MaxEntries <- 0

-----------------------------------------------------------------------------
(* The engine of the harness is the engine *)

EngineAssumptions ==
  /\ /\ MaxReservations \in Nat /\ MaxLegs \in Nat \ {0} /\ MaxQuotesPerLeg \in Nat
     /\ EventCapacity \in Nat /\ UNIT \in Nat \ {0}
     /\ {MaxQuoteTtl, MaxRequestTtl, MinHorizon, MaxSettlingTime} \subseteq Nat
     /\ Prices \subseteq Nat /\ Sizes \subseteq Nat /\ Nat \subseteq Nat
     /\ EventDates \subseteq Nat /\ MaxTime + MaxRequestTtl + MaxQuoteTtl \in Nat
     /\ MaxArrivals \in Nat
     /\ Requesters \subseteq Accounts /\ Makers \subseteq Accounts
     /\ RequestSlots \cap QuoteSlots = {}
     /\ EP!IsFiniteSet(RequestSlots) /\ EP!IsFiniteSet(QuoteSlots)
  /\ /\ Vacant \notin EP!Claim /\ Vacant \notin EP!Quote /\ Vacant \notin EP!Request
     /\ Vacant \notin RequestSlots /\ Vacant \notin Nat

LEMMA EngineFits == EngineAssumptions
<1>1. E!Claim = EP!Claim /\ E!Quote = EP!Quote /\ E!Request = EP!Request
  BY DEF E!Claim, EP!Claim, E!Quote, EP!Quote, E!Request, EP!Request, E!LegIds, EP!LegIds,
         E!Basket, EP!Basket, E!LegSpec, EP!LegSpec, E!RequestState, EP!RequestState
<1>2. EP!IsFiniteSet(RequestSlots) /\ EP!IsFiniteSet(QuoteSlots)
  BY SettlementConstants DEF IsFiniteSet, EP!IsFiniteSet
<1> QED BY <1>1, <1>2, SettlementConstants, VacantIsNoValue DEF EngineAssumptions

LEMMA SameCreditAccount ==
  ASSUME NEW a, NEW amount
  PROVE  E!CreditAccount(a, amount) <=> EP!CreditAccount(a, amount)
BY DEF E!CreditAccount, EP!CreditAccount, E!Owners, EP!Owners, E!ClaimExpired,
   EP!ClaimExpired, E!Normalised, EP!Normalised, E!Accepted, EP!Accepted

LEMMA SameRegisterContract ==
  ASSUME NEW c, NEW date
  PROVE  E!RegisterContract(c, date) <=> EP!RegisterContract(c, date)
BY DEF E!RegisterContract, EP!RegisterContract, E!Accepted, EP!Accepted, E!Refused,
   EP!Refused, E!Refuse, EP!Refuse

LEMMA SameRejectRequest ==
  ASSUME NEW r
  PROVE  E!RejectRequest(r) <=> EP!RejectRequest(r)
BY DEF E!RejectRequest, EP!RejectRequest, E!Owners, EP!Owners, E!LegIds, EP!LegIds,
   E!InState, EP!InState, E!Requester, EP!Requester, E!Live, EP!Live, E!LinkedOn,
   EP!LinkedOn, E!Without, EP!Without, E!Notices, EP!Notices, E!ClaimExpired,
   EP!ClaimExpired, E!Normalised, EP!Normalised, E!RejectAdmissible, EP!RejectAdmissible,
   E!Accepted, EP!Accepted, E!Refused, EP!Refused, E!Refuse, EP!Refuse

LEMMA SamePollSettlement ==
  ASSUME NEW r, NEW status
  PROVE  E!PollSettlement(r, status) <=> EP!PollSettlement(r, status)
BY DEF E!PollSettlement, EP!PollSettlement, E!Owners, EP!Owners, E!LegIds, EP!LegIds,
   E!InState, EP!InState, E!Requester, EP!Requester, E!Live, EP!Live, E!Without, EP!Without,
   E!ClaimExpired, EP!ClaimExpired, E!Normalised, EP!Normalised, E!Accepted, EP!Accepted,
   E!Refused, EP!Refused, E!Refuse, EP!Refuse, E!OnList, EP!OnList, E!ConsumedBy,
   EP!ConsumedBy, E!Discharge, EP!Discharge, E!StillUnknown, EP!StillUnknown,
   E!PollHeadroom, EP!PollHeadroom

(* The larger commands, from the operators they are made of.               *)
LEMMA SameNormalised ==
  ASSUME NEW accounts
  PROVE  E!Normalised(accounts) = EP!Normalised(accounts)
BY DEF E!Normalised, EP!Normalised, E!Owners, EP!Owners, E!ClaimExpired, EP!ClaimExpired

LEMMA SameReservable ==
  ASSUME NEW book, NEW a, NEW amount
  PROVE  E!Reservable(book, a, amount) <=> EP!Reservable(book, a, amount)
BY DEF E!Reservable, EP!Reservable, E!Owners, EP!Owners, E!ClaimsOf, EP!ClaimsOf, E!Claimed,
   EP!Claimed, E!SumFunction, EP!SumFunction, E!SumFunctionOnSet, EP!SumFunctionOnSet,
   E!FoldFunctionOnSet, EP!FoldFunctionOnSet, E!MapThenFoldSet, EP!MapThenFoldSet

LEMMA SameReservation ==
  ASSUME NEW legs
  PROVE  E!Reservation(legs) = EP!Reservation(legs)
BY DEF E!Reservation, EP!Reservation, E!SumFunction, EP!SumFunction, E!SumFunctionOnSet,
   EP!SumFunctionOnSet, E!FoldFunctionOnSet, EP!FoldFunctionOnSet, E!MapThenFoldSet,
   EP!MapThenFoldSet

LEMMA SameOpenRequest ==
  ASSUME NEW r, NEW a, NEW deadline, NEW legs, NEW book
  PROVE  E!OpenRequest(r, a, deadline, legs, book) <=> EP!OpenRequest(r, a, deadline, legs, book)
BY SameReservable, SameReservation DEF E!OpenRequest, EP!OpenRequest, E!Owners, EP!Owners,
   E!RoomForClaim, EP!RoomForClaim, E!Cardinality, EP!Cardinality, E!Reserved, EP!Reserved,
   E!Accepted, EP!Accepted

LEMMA SameRequestAdmissible ==
  ASSUME NEW deadline, NEW legs
  PROVE  E!RequestAdmissible(deadline, legs) <=> EP!RequestAdmissible(deadline, legs)
BY DEF E!RequestAdmissible, EP!RequestAdmissible, E!LegAdmissible, EP!LegAdmissible,
   E!LegIds, EP!LegIds

LEMMA SameRequestFits ==
  ASSUME NEW a, NEW legs, NEW book
  PROVE  E!RequestFits(a, legs, book) <=> EP!RequestFits(a, legs, book)
BY SameReservable, SameReservation DEF E!RequestFits, EP!RequestFits, E!Owners, EP!Owners,
   E!RoomForClaim, EP!RoomForClaim, E!Cardinality, EP!Cardinality

LEMMA SameSubmitRequest ==
  ASSUME NEW a, NEW deadline, NEW legs
  PROVE  E!SubmitRequest(a, deadline, legs) <=> EP!SubmitRequest(a, deadline, legs)
BY SameNormalised, SameOpenRequest, SameRequestAdmissible, SameRequestFits DEF
   E!SubmitRequest, EP!SubmitRequest, E!Refuse, EP!Refuse, E!Refused, EP!Refused

LEMMA SameBest ==
  ASSUME NEW slab, NEW linked, NEW leg
  PROVE  E!Best(slab, linked, leg) = EP!Best(slab, linked, leg)
BY DEF E!Best, EP!Best, E!Live, EP!Live, E!Eligible, EP!Eligible, E!Beats, EP!Beats

LEMMA SameStandingQuote ==
  ASSUME NEW r, NEW l, NEW m
  PROVE  E!StandingQuote(r, l, m) = EP!StandingQuote(r, l, m)
BY DEF E!StandingQuote, EP!StandingQuote

LEMMA SameQuoteAdmissible ==
  ASSUME NEW m, NEW r, NEW l, NEW price, NEW size, NEW expires_at
  PROVE  E!QuoteAdmissible(m, r, l, price, size, expires_at) <=> EP!QuoteAdmissible(m, r, l, price, size, expires_at)
BY SameStandingQuote DEF E!QuoteAdmissible, EP!QuoteAdmissible, E!InState, EP!InState,
   E!LegsOf, EP!LegsOf, E!Cardinality, EP!Cardinality

LEMMA SameOpenQuote ==
  ASSUME NEW q, NEW quote, NEW amount, NEW slab, NEW book, NEW linked
  PROVE  E!OpenQuote(q, quote, amount, slab, book, linked) <=> EP!OpenQuote(q, quote, amount, slab, book, linked)
BY SameBest DEF E!OpenQuote, EP!OpenQuote, E!PublishedPrice, EP!PublishedPrice, E!Link,
   EP!Link, E!Reserved, EP!Reserved

LEMMA SameQuoteFits ==
  ASSUME NEW m, NEW amount, NEW slab, NEW book
  PROVE  E!QuoteFits(m, amount, slab, book) <=> EP!QuoteFits(m, amount, slab, book)
BY SameReservable DEF E!QuoteFits, EP!QuoteFits, E!Owners, EP!Owners, E!RoomForClaim,
   EP!RoomForClaim, E!Cardinality, EP!Cardinality

LEMMA SameReplaceAndOpen ==
  ASSUME NEW m, NEW r, NEW l, NEW price, NEW size, NEW expires_at, NEW old
  PROVE  E!ReplaceAndOpen(m, r, l, price, size, expires_at, old) <=> EP!ReplaceAndOpen(m, r, l, price, size, expires_at, old)
BY SameNormalised, SameOpenQuote, SameQuoteFits DEF E!ReplaceAndOpen, EP!ReplaceAndOpen,
   E!Without, EP!Without, E!Requester, EP!Requester, E!MakerContribution,
   EP!MakerContribution, E!Accepted, EP!Accepted, E!Refused, EP!Refused

LEMMA SameSubmitQuote ==
  ASSUME NEW m, NEW r, NEW l, NEW price, NEW size, NEW expires_at
  PROVE  E!SubmitQuote(m, r, l, price, size, expires_at) <=> EP!SubmitQuote(m, r, l, price, size, expires_at)
BY SameNormalised, SameStandingQuote, SameQuoteAdmissible, SameReplaceAndOpen DEF
   E!SubmitQuote, EP!SubmitQuote, E!Requester, EP!Requester, E!Refuse, EP!Refuse, E!Refused,
   EP!Refused

LEMMA SamePlan ==
  ASSUME NEW r, NEW expected
  PROVE  E!Plan(r, expected) = EP!Plan(r, expected)
BY SameBest DEF E!Plan, EP!Plan, E!LegsOf, EP!LegsOf

LEMMA SameCommitClaims ==
  ASSUME NEW book, NEW r, NEW winners, NEW losers, NEW total
  PROVE  E!CommitClaims(book, r, winners, losers, total) = EP!CommitClaims(book, r, winners, losers, total)
BY DEF E!CommitClaims, EP!CommitClaims, E!Owners, EP!Owners, E!Committed, EP!Committed

LEMMA SameFillCost ==
  ASSUME NEW r, NEW win
  PROVE  E!FillCost(r, win) = EP!FillCost(r, win)
BY DEF E!FillCost, EP!FillCost, E!LegsOf, EP!LegsOf, E!SumFunction, EP!SumFunction,
   E!SumFunctionOnSet, EP!SumFunctionOnSet, E!FoldFunctionOnSet, EP!FoldFunctionOnSet,
   E!MapThenFoldSet, EP!MapThenFoldSet

LEMMA SameNotices ==
  ASSUME NEW released, NEW reason
  PROVE  E!Notices(released, reason) = EP!Notices(released, reason)
BY DEF E!Notices, EP!Notices, E!Live, EP!Live

LEMMA SameCommitAccept ==
  ASSUME NEW r, NEW win, NEW book
  PROVE  E!CommitAccept(r, win, book) <=> EP!CommitAccept(r, win, book)
BY SameCommitClaims, SameFillCost, SameNotices DEF E!CommitAccept, EP!CommitAccept,
   E!LegsOf, EP!LegsOf, E!LegIds, EP!LegIds, E!LinkedOn, EP!LinkedOn, E!Accepted,
   EP!Accepted

LEMMA SameAcceptFits ==
  ASSUME NEW r, NEW win, NEW book
  PROVE  E!AcceptFits(r, win, book) <=> EP!AcceptFits(r, win, book)
BY SameFillCost DEF E!AcceptFits, EP!AcceptFits

LEMMA SameAcceptRequest ==
  ASSUME NEW r, NEW expected
  PROVE  E!AcceptRequest(r, expected) <=> EP!AcceptRequest(r, expected)
BY SameNormalised, SamePlan, SameCommitAccept, SameAcceptFits DEF E!AcceptRequest,
   EP!AcceptRequest, E!AcceptAdmissible, EP!AcceptAdmissible, E!InState, EP!InState,
   E!LegsOf, EP!LegsOf, E!Requester, EP!Requester, E!Refuse, EP!Refuse, E!Refused,
   EP!Refused

-----------------------------------------------------------------------------
(* What reaches the engine *)

(* A command leaves the clock alone.                                        *)
Commanded == EP!Next /\ now' = now

EngineMoves == [EP!Next]_(EP!vars) /\ now' \in 0 .. MaxTime

LEMMA EngineStarts == Init => EP!FundsInv /\ now \in 0 .. MaxTime
<1> SUFFICES ASSUME Init PROVE EP!FundsInv /\ now \in 0 .. MaxTime
  OBVIOUS
<1>1. EP!Init /\ now \in 0 .. MaxTime
  BY SettlementConstants DEF Init, E!Init, EP!Init, E!LegIds, EP!LegIds, E!Owners, EP!Owners
<1>2. EP!IInv
  BY <1>1, EngineFits, EP!InitInv DEF EngineAssumptions
<1> QED BY <1>1, <1>2 DEF EP!Init, EP!FundsInv, EP!MInv, EP!PricesWithinUnit, EP!ConsumedHold,
     EP!RequesterHolds, EP!SettlingFullyFunded, EP!InState

LEMMA EngineKeeps ==
  ASSUME EP!FundsInv, [EP!Next]_(EP!vars) PROVE EP!FundsInv'
BY EngineFits, EP!NextFunds DEF EngineAssumptions

LEMMA EngineStays ==
  ASSUME now \in 0 .. MaxTime, UNCHANGED engineVars PROVE EngineMoves
BY DEF EngineMoves, engineVars, EP!vars

LEMMA EngineSteps ==
  ASSUME now \in 0 .. MaxTime, Commanded PROVE EngineMoves
BY DEF EngineMoves, Commanded

LEMMA CreditCommands ==
  ASSUME NEW a \in Accounts, NEW amount \in Nat, E!CreditAccount(a, amount) PROVE Commanded
<1>1. EP!CreditAccount(a, amount)
  BY SameCreditAccount
<1>2. now' = now
  BY <1>1 DEF EP!CreditAccount
<1> QED BY <1>1, <1>2 DEF Commanded, EP!Next

LEMMA PollCommands ==
  ASSUME NEW r \in RequestSlots, NEW status \in {"Unknown", "Pending", "Settled", "Reverted"},
         E!PollSettlement(r, status)
  PROVE  Commanded
<1>1. EP!PollSettlement(r, status)
  BY SamePollSettlement
<1>2. now' = now
  BY <1>1 DEF EP!PollSettlement, EP!Refuse, EP!Discharge, EP!StillUnknown
<1> QED BY <1>1, <1>2 DEF Commanded, EP!Next, EP!TxStatus

LEMMA RegisterCommands ==
  ASSUME NEW c \in Contracts, NEW date \in EventDates, E!RegisterContract(c, date) PROVE Commanded
<1>1. EP!RegisterContract(c, date)
  BY SameRegisterContract
<1>2. now' = now
  BY <1>1 DEF EP!RegisterContract, EP!Refuse
<1> QED BY <1>1, <1>2 DEF Commanded, EP!Next

(* What may be asked of the one engine may be asked of the other.          *)
LEMMA SameInputs ==
  E!LegLists = EP!LegLists /\ E!LegIds = EP!LegIds /\ E!Views = EP!Views
BY DEF E!LegLists, EP!LegLists, E!LegSpecs, EP!LegSpecs, E!LegIds, EP!LegIds, E!Views, EP!Views

LEMMA RequestCommands ==
  ASSUME now \in 0 .. MaxTime, NEW a \in Requesters, NEW deadline \in now .. (now + MaxRequestTtl),
         NEW legs \in E!LegLists, E!SubmitRequest(a, deadline, legs)
  PROVE  Commanded
<1>1. EP!SubmitRequest(a, deadline, legs)
  BY SameSubmitRequest
<1>2. deadline \in EP!Times
  BY SettlementConstants DEF EP!Times
<1>3. legs \in EP!LegLists
  BY SameInputs
<1>4. now' = now
  BY <1>1 DEF EP!SubmitRequest, EP!Refuse, EP!OpenRequest
<1> QED BY <1>1, <1>2, <1>3, <1>4 DEF Commanded, EP!Next

LEMMA OfferCommands ==
  ASSUME now \in 0 .. MaxTime, NEW m \in Makers, NEW r \in RequestSlots, NEW l \in E!LegIds,
         NEW price \in Prices, NEW size \in Sizes, NEW expires_at \in now .. (now + MaxQuoteTtl),
         next_arrival < MaxArrivals, E!SubmitQuote(m, r, l, price, size, expires_at)
  PROVE  Commanded
<1>1. EP!SubmitQuote(m, r, l, price, size, expires_at)
  BY SameSubmitQuote
<1>2. expires_at \in EP!Times
  BY SettlementConstants DEF EP!Times
<1>3. l \in EP!LegIds
  BY SameInputs
<1>4. now' = now
  BY <1>1 DEF EP!SubmitQuote, EP!Refuse, EP!ReplaceAndOpen
<1> QED BY <1>1, <1>2, <1>3, <1>4 DEF Commanded, EP!Next

LEMMA AcceptCommands ==
  ASSUME NEW r \in RequestSlots, NEW expected \in E!Views, E!AcceptRequest(r, expected)
  PROVE  Commanded
<1>1. EP!AcceptRequest(r, expected)
  BY SameAcceptRequest
<1>2. expected \in EP!Views
  BY SameInputs
<1>3. now' = now
  BY <1>1 DEF EP!AcceptRequest, EP!Refuse, EP!CommitAccept
<1> QED BY <1>1, <1>2, <1>3 DEF Commanded, EP!Next

LEMMA RejectCommands ==
  ASSUME NEW r \in RequestSlots, E!RejectRequest(r)
  PROVE  Commanded
<1>1. EP!RejectRequest(r)
  BY SameRejectRequest
<1>2. now' = now
  BY <1>1 DEF EP!RejectRequest, EP!Refuse
<1> QED BY <1>1, <1>2 DEF Commanded, EP!Next

LEMMA ToldCommands ==
  ASSUME NEW payload \in Notices, Told(payload)
  PROVE  Commanded
<1>1. CASE payload.kind = "BalanceChanged" /\ E!CreditAccount(payload.account, payload.available)
  <2>1. payload.account \in Accounts /\ payload.available \in Nat
    BY <1>1 DEF Notices
  <2> QED BY <1>1, <2>1, CreditCommands
<1>2. CASE payload.kind = "SettlementResolved" /\ E!PollSettlement(payload.nonce, payload.status)
  <2>1. payload.nonce \in RequestSlots /\ payload.status \in {"Settled", "Reverted"}
    BY <1>2 DEF Notices
  <2> QED BY <1>2, <2>1, PollCommands
<1> QED BY <1>1, <1>2 DEF Told

LEMMA TickMoves ==
  ASSUME now \in 0 .. MaxTime, E!Tick
  PROVE  EngineMoves
<1>1. now < MaxTime /\ now' = now + 1
  BY DEF E!Tick
<1>2. EP!Tick
  <2>1. now < MaxTime + MaxRequestTtl + MaxQuoteTtl
    BY <1>1, SettlementConstants
  <2> QED BY <2>1 DEF E!Tick, EP!Tick, E!Accepted, EP!Accepted
<1> QED BY <1>1, <1>2, SettlementConstants DEF EngineMoves, EP!Next

(* Which operations of the harness are commands of the engine, and which   *)
(* do not reach it.                                                         *)
Asks == Register \/ Request \/ Offer \/ Accept \/ Reject \/ \E r \in RequestSlots : Poll(r)
Transacts ==
  \/ Deposit \/ RequestWithdrawal \/ ExecuteWithdrawal \/ SubmitPending
  \/ LoseNextSubmission \/ Include
  \/ \E r \in RequestSlots : Resubmit(r)

LEMMA AsksCommand ==
  ASSUME now \in 0 .. MaxTime, Asks
  PROVE  /\ Commanded /\ IntentsTaken
         /\ UNCHANGED <<custodyVars, logVars, readerVars, chainVars, in_flight, lost, pumpVars>>
<1>1. CASE Register
  BY <1>1, RegisterCommands DEF Register, Apply
<1>2. CASE Request
  BY <1>2, RequestCommands DEF Request, Apply
<1>3. CASE Offer
  BY <1>3, OfferCommands DEF Offer, Apply
<1>4. CASE Accept
  BY <1>4, AcceptCommands DEF Accept, Apply
<1>5. CASE Reject
  BY <1>5, RejectCommands DEF Reject, Apply
<1>6. CASE \E r \in RequestSlots : Poll(r)
  BY <1>6, PollCommands DEF Poll, Apply, ReportableStatus
<1> QED BY <1>1, <1>2, <1>3, <1>4, <1>5, <1>6 DEF Asks

LEMMA AsksAround ==
  ASSUME Asks
  PROVE  UNCHANGED <<custodyVars, logVars, readerVars, chainVars, in_flight, lost, pumpVars>>
BY DEF Asks, Register, Request, Offer, Accept, Reject, Poll, Apply

LEMMA NextKinds ==
  ASSUME Next
  PROVE  \/ Asks \/ Transacts \/ MineBlock \/ ReorgOrRestart \/ Pump
         \/ StallIndexer \/ ResumeIndexer \/ Tick
BY DEF Next, Asks, Transacts

LEMMA TransactsAround ==
  ASSUME Transacts
  PROVE  UNCHANGED <<engineVars, readerVars, chainVars, pumpVars>>
BY DEF Transacts, Deposit, RequestWithdrawal, ExecuteWithdrawal, SubmitPending,
       LoseNextSubmission, Include, Resubmit, Transact

LEMMA NextMovesEngine ==
  ASSUME now \in 0 .. MaxTime, [Next]_vars, cursor \in 0 .. Len(entries), Len(entries) \in Nat,
         \A i \in 1 .. Len(entries) : entries[i].payload \in Notices
  PROVE  EngineMoves
<1>1. CASE UNCHANGED vars \/ Transacts \/ MineBlock \/ ReorgOrRestart \/ StallIndexer \/ ResumeIndexer
  <2>1. UNCHANGED engineVars
    BY <1>1, TransactsAround DEF vars, MineBlock, ReorgOrRestart, StallIndexer, ResumeIndexer
  <2> QED BY <2>1, EngineStays
<1>2. CASE Asks
  BY <1>2, AsksCommand, EngineSteps
<1>3. CASE Pump
  <2>1. CASE handed' = handed
    BY <1>3, <2>1, EngineStays DEF Pump
  <2>2. CASE handed' # handed
    <3>1. Told(entries[cursor + 1].payload) /\ cursor < Len(entries)
      BY <1>3, <2>2 DEF Pump, I!ReadNext
    <3>2. entries[cursor + 1].payload \in Notices
      <4>1. cursor + 1 \in 1 .. Len(entries)
        BY <3>1
      <4> QED BY <4>1
    <3> QED BY <3>1, <3>2, ToldCommands, EngineSteps
  <2> QED BY <2>1, <2>2
<1>4. CASE Tick
  BY <1>4, TickMoves, EngineStays DEF Tick, Clocks
<1> QED BY <1>1, <1>2, <1>3, <1>4, NextKinds

-----------------------------------------------------------------------------
(* The chain of the harness is the chain *)

ChainAssumptions ==
  /\ \A b \in C!Bundle : b \in CP!Bundle
  /\ CP!IsFiniteSet(Accounts)
  /\ MaxLegs \in Nat /\ MaxEscrows \in Nat /\ WithdrawalDelay \in Nat
  /\ Deposits \cup Withdrawals \subseteq Nat
  /\ Confirmations \in Nat /\ MaxHead \in Nat /\ 0 \in Nat
  /\ MaxReorgs \in Nat /\ MaxRestarts \in Nat

(* A configuration that can be started has a shortest delay.               *)
LEMMA DelayIsValid == WithdrawalDelay \in Nat /\ Validate(WithdrawalDelay)
<1> DEFINE top == ClaimWindow + Lags + 1
           S == {d \in 0 .. top : Validate(d)}
<1>1. ClaimWindow \in Nat /\ Lags \in Nat
  <2>1. BlockTime * Confirmations \in Nat
    BY SettlementConstants
  <2> QED BY <2>1, SettlementConstants DEF ClaimWindow, Lags
<1>2. top \in S
  BY <1>1, SomeDelayIsValid DEF Validate, TimelockLongEnough
<1>3. S \in SUBSET Nat /\ S # {}
  BY <1>1, <1>2
<1>4. WithdrawalDelay = Min(S)
  BY DEF WithdrawalDelay
<1> HIDE DEF S
<1>5. \E x \in S : \A y \in S : x <= y
  BY <1>3, LeastNatural
<1>6. WithdrawalDelay \in S
  BY <1>4, <1>5 DEF Min
<1>7. Validate(WithdrawalDelay)
  BY <1>6 DEF S
<1> QED BY <1>3, <1>6, <1>7

LEMMA DelayIsNatural == WithdrawalDelay \in Nat
BY DelayIsValid

LEMMA SameBundle == C!Bundle = CP!Bundle
BY DEF C!Bundle, CP!Bundle, C!Leg, CP!Leg, C!Side, CP!Side

LEMMA ChainFits == ChainAssumptions
<1>1. CP!IsFiniteSet(Accounts)
  BY SettlementConstants DEF IsFiniteSet, CP!IsFiniteSet
<1> QED BY <1>1, SettlementConstants, DelayIsNatural, SameBundle DEF ChainAssumptions

LEMMA SameChainCustodyInit == C!CustodyInit <=> CP!CustodyInit
BY DEF C!CustodyInit, CP!CustodyInit, C!LogInit, CP!LogInit

LEMMA SameChainTick == C!Tick <=> CP!Tick
BY DEF C!Tick, CP!Tick, C!ledgerVars, CP!ledgerVars, C!logVars, CP!logVars

LEMMA SameChainDeposit ==
  ASSUME NEW a, NEW amount
  PROVE  C!Deposit(a, amount) <=> CP!Deposit(a, amount)
BY DEF C!Deposit, CP!Deposit, C!Announce, CP!Announce, C!BalanceChanged, CP!BalanceChanged,
   C!Available, CP!Available, C!Append1, CP!Append1

LEMMA SameChainRequestWithdrawal ==
  ASSUME NEW a, NEW amount
  PROVE  C!RequestWithdrawal(a, amount) <=> CP!RequestWithdrawal(a, amount)
BY DEF C!RequestWithdrawal, CP!RequestWithdrawal, C!Announce, CP!Announce, C!BalanceChanged,
   CP!BalanceChanged, C!Available, CP!Available, C!Append1, CP!Append1

LEMMA SameChainExecuteWithdrawal ==
  ASSUME NEW a
  PROVE  C!ExecuteWithdrawal(a) <=> CP!ExecuteWithdrawal(a)
BY DEF C!ExecuteWithdrawal, CP!ExecuteWithdrawal, C!PaidOut, CP!PaidOut, C!Min, CP!Min,
   C!Announce, CP!Announce, C!BalanceChanged, CP!BalanceChanged, C!Available, CP!Available,
   C!Append1, CP!Append1

LEMMA SameChainSubmit ==
  ASSUME NEW b
  PROVE  C!Submit(b) <=> CP!Submit(b)
BY DEF C!Submit, CP!Submit, C!ledgerVars, CP!ledgerVars, C!logVars, CP!logVars

LEMMA SameChainDropNextSubmission == C!DropNextSubmission <=> CP!DropNextSubmission
BY DEF C!DropNextSubmission, CP!DropNextSubmission, C!ledgerVars, CP!ledgerVars, C!logVars,
   CP!logVars

LEMMA SameChainDebit ==
  ASSUME NEW b, NEW a
  PROVE  C!Debit(b, a) = CP!Debit(b, a)
BY DEF C!Debit, CP!Debit, C!SumFunction, CP!SumFunction, C!SumFunctionOnSet,
   CP!SumFunctionOnSet, C!FoldFunctionOnSet, CP!FoldFunctionOnSet, C!MapThenFoldSet,
   CP!MapThenFoldSet

LEMMA SameChainParties ==
  ASSUME NEW b
  PROVE  C!Parties(b) = CP!Parties(b)
BY DEF C!Parties, CP!Parties, C!FoldLeft, CP!FoldLeft, C!MapThenFoldSet, CP!MapThenFoldSet,
   C!Contains, CP!Contains, C!Max, CP!Max

LEMMA SameChainValid ==
  ASSUME NEW b
  PROVE  C!Valid(b) <=> CP!Valid(b)
BY SameChainDebit DEF C!Valid, CP!Valid, C!Covered, CP!Covered

LEMMA SameChainSettleAll ==
  ASSUME NEW b
  PROVE  C!SettleAll(b) <=> CP!SettleAll(b)
BY SameChainDebit, SameChainParties DEF C!SettleAll, CP!SettleAll, C!EscrowsOf,
   CP!EscrowsOf, C!Resolve, CP!Resolve, C!SettlementResolved, CP!SettlementResolved,
   C!Announce, CP!Announce, C!BalanceChanged, CP!BalanceChanged, C!Available, CP!Available,
   C!Append1, CP!Append1

LEMMA SameChainRevertAll ==
  ASSUME NEW b
  PROVE  C!RevertAll(b) <=> CP!RevertAll(b)
BY DEF C!RevertAll, CP!RevertAll, C!Resolve, CP!Resolve, C!SettlementResolved,
   CP!SettlementResolved, C!Append1, CP!Append1

LEMMA SameChainIncludeNext == C!IncludeNext <=> CP!IncludeNext
BY SameChainValid, SameChainSettleAll, SameChainRevertAll DEF C!IncludeNext, CP!IncludeNext,
   C!Answered, CP!Answered, C!logVars, CP!logVars

CustodyMoves == [CP!CustodyNext]_(CP!custodyVars)

LEMMA CustodyStays ==
  ASSUME UNCHANGED <<custodyVars, logVars>> PROVE CustodyMoves
BY DEF CustodyMoves, custodyVars, logVars, CP!custodyVars, CP!ledgerVars, CP!logVars

LEMMA SubmitsMove ==
  ASSUME NEW b \in C!Bundle, C!Submit(b) PROVE CustodyMoves
BY SameChainSubmit DEF CustodyMoves, CP!CustodyNext

LEMMA TransactsMove ==
  ASSUME Transacts, outbox \in Seq(C!Bundle), in_flight \in Seq(C!Bundle)
  PROVE  CustodyMoves
<1>1. CASE Deposit
  <2>1. PICK a \in Accounts, amount \in Deposits : C!Deposit(a, amount)
    BY <1>1 DEF Deposit, Transact
  <2> QED BY <2>1, SameChainDeposit DEF CustodyMoves, CP!CustodyNext
<1>2. CASE RequestWithdrawal
  <2>1. PICK a \in Accounts, amount \in Withdrawals : C!RequestWithdrawal(a, amount)
    BY <1>2 DEF RequestWithdrawal, Transact
  <2> QED BY <2>1, SameChainRequestWithdrawal DEF CustodyMoves, CP!CustodyNext
<1>3. CASE ExecuteWithdrawal
  <2>1. PICK a \in Accounts : C!ExecuteWithdrawal(a)
    BY <1>3 DEF ExecuteWithdrawal, Transact
  <2> QED BY <2>1, SameChainExecuteWithdrawal DEF CustodyMoves, CP!CustodyNext
<1>4. CASE SubmitPending
  <2>1. C!Submit(Head(outbox)) /\ outbox # <<>>
    BY <1>4 DEF SubmitPending, Transact
  <2>2. Head(outbox) \in C!Bundle
    BY <2>1
  <2> QED BY <2>1, <2>2, SubmitsMove
<1>5. CASE LoseNextSubmission
  <2>1. C!DropNextSubmission
    BY <1>5 DEF LoseNextSubmission, Transact
  <2> QED BY <2>1, SameChainDropNextSubmission DEF CustodyMoves, CP!CustodyNext
<1>6. CASE Include
  <2>1. C!IncludeNext
    BY <1>6 DEF Include, Transact
  <2> QED BY <2>1, SameChainIncludeNext DEF CustodyMoves, CP!CustodyNext
<1>7. ASSUME NEW r \in RequestSlots, Resubmit(r) PROVE CustodyMoves
  <2>1. C!Submit(in_flight[Min(Kept(r))]) /\ Kept(r) # {}
    BY <1>7 DEF Resubmit, Transact
  <2>2. Kept(r) \in SUBSET Nat /\ \A i \in Kept(r) : in_flight[i] \in C!Bundle
    BY DEF Kept
  <2>3. Min(Kept(r)) \in Kept(r)
    <3>1. \E x \in Kept(r) : \A y \in Kept(r) : x <= y
      BY <2>1, <2>2, LeastNatural
    <3> QED BY <3>1 DEF Min
  <2> QED BY <2>1, <2>2, <2>3, SubmitsMove
<1> QED BY <1>1, <1>2, <1>3, <1>4, <1>5, <1>6, <1>7 DEF Transacts

(* The chain moves by a block or a reorg, and custody by a transaction.    *)
LEMMA NextMovesCustody ==
  ASSUME [Next]_vars, outbox \in Seq(C!Bundle), in_flight \in Seq(C!Bundle)
  PROVE  CustodyMoves \/ (UNCHANGED custodyVars /\ (MineBlock \/ ReorgOrRestart))
<1>1. CASE UNCHANGED vars \/ StallIndexer \/ ResumeIndexer
  <2>1. UNCHANGED <<custodyVars, logVars>>
    BY <1>1 DEF vars, StallIndexer, ResumeIndexer
  <2> QED BY <2>1, CustodyStays
<1>2. CASE Asks
  BY <1>2, AsksAround, CustodyStays
<1>3. CASE Pump
  <2>1. UNCHANGED <<custodyVars, logVars>>
    BY <1>3 DEF Pump, I!ReadNext, I!logVars, logVars
  <2> QED BY <2>1, CustodyStays
<1>4. CASE Tick
  <2>1. CASE C!Tick
    BY <2>1, SameChainTick DEF CustodyMoves, CP!CustodyNext
  <2>2. CASE UNCHANGED <<custodyVars, logVars>>
    BY <2>2, CustodyStays
  <2> QED BY <1>4, <2>1, <2>2 DEF Tick, Clocks
<1>5. CASE Transacts
  BY <1>5, TransactsMove
<1>6. CASE MineBlock \/ ReorgOrRestart
  BY <1>6 DEF MineBlock, ReorgOrRestart
<1> QED BY <1>1, <1>2, <1>3, <1>4, <1>5, <1>6, NextKinds

LEMMA CustodyStarts == Init => CP!MInv /\ CP!AnnouncedInv
<1> SUFFICES ASSUME Init PROVE CP!MInv /\ CP!AnnouncedInv
  OBVIOUS
<1>1. CP!CustodyInit
  BY SameChainCustodyInit DEF Init
<1> QED BY <1>1, ChainFits, CP!InitMoney, CP!AnnouncedStarts DEF ChainAssumptions

LEMMA CustodyKeeps ==
  ASSUME CP!MInv, CustodyMoves PROVE CP!MInv'
<1>1. CP!Money
  BY ChainFits, CP!MoneyStep DEF ChainAssumptions, CustodyMoves
<1> QED BY <1>1 DEF CP!Money

-----------------------------------------------------------------------------
(* What a command does to the requests, and the intents it leaves          *)

Intents == {r \in RequestSlots : [kind |-> "SubmitIntent", request |-> r] \in reply'.events}

Others(r) == \A p \in RequestSlots \ {r} : requests'[p] = requests[p]

(* A slot is taken by a request.                                            *)
Opens(r) ==
  /\ requests[r] = Vacant
  /\ requests'[r] # Vacant /\ requests'[r].state = "Open"
  /\ Others(r)

Shifts(r, from, to) ==
  /\ E!InState(r, from)
  /\ requests'[r] # Vacant /\ requests'[r].state = to /\ requests'[r].legs = requests[r].legs
  /\ Others(r)

Typed == requests \in [RequestSlots -> EP!Request \cup {Vacant}]

LEMMA EngineTyped == ASSUME EP!FundsInv PROVE Typed
BY DEF EP!FundsInv, EP!MInv, EP!IInv, EP!TypeRest, Typed

LEMMA VacantIsNoRequest == Vacant \notin EP!Request
BY EngineFits DEF EngineAssumptions

LEMMA StateShifts ==
  ASSUME Typed, NEW r \in RequestSlots, NEW from, NEW to \in EP!RequestState, E!InState(r, from),
         requests' = [requests EXCEPT ![r].state = to]
  PROVE  Shifts(r, from, to)
<1>1. requests[r] \in EP!Request
  BY DEF Typed, E!InState
<1>2. requests'[r] = [requests[r] EXCEPT !.state = to]
  BY DEF Typed
<1>3. requests'[r] \in EP!Request /\ requests'[r].state = to /\ requests'[r].legs = requests[r].legs
  BY <1>1, <1>2 DEF EP!Request
<1>4. Others(r)
  BY DEF Others, Typed
<1> QED BY <1>3, <1>4, VacantIsNoRequest DEF Shifts

LEMMA NoneToSeq == SetToSeq({}) = <<>>
<1>1. Cardinality({}) = 0
  BY FS_EmptySet
<1>2. 1 .. 0 = {}
  OBVIOUS
<1>3. \A f \in [1 .. 0 -> {}] : f = <<>>
  BY <1>2
<1>4. <<>> \in [1 .. 0 -> {}] /\ IsInjective(<<>>)
  BY <1>2 DEF IsInjective
<1> QED BY <1>1, <1>3, <1>4 DEF SetToSeq

LEMMA OneToSeq == ASSUME NEW x PROVE SetToSeq({x}) = <<x>>
<1>1. Cardinality({x}) = 1
  BY FS_Singleton
<1>2. 1 .. 1 = {1}
  OBVIOUS
<1>3. \A f \in [1 .. 1 -> {x}] : f = <<x>>
  BY <1>2
<1>4. <<x>> \in [1 .. 1 -> {x}] /\ IsInjective(<<x>>)
  BY <1>2 DEF IsInjective
<1> QED BY <1>1, <1>3, <1>4 DEF SetToSeq

LEMMA NoIntentNoBundle ==
  ASSUME IntentsTaken, Intents = {}, NEW S, outbox \in Seq(S) PROVE outbox' = outbox
<1>1. outbox' = outbox \o SetToSeq({BundleOf(r)' : r \in Intents})
  BY DEF IntentsTaken, Intents
<1>2. {BundleOf(r)' : r \in Intents} = {}
  OBVIOUS
<1>3. outbox \o <<>> = outbox
  BY ConcatEmptySeq
<1> QED BY <1>1, <1>2, <1>3, NoneToSeq

LEMMA OneIntentOneBundle ==
  ASSUME IntentsTaken, NEW r \in RequestSlots, Intents = {r}, NEW S, outbox \in Seq(S),
         BundleOf(r)' \in S
  PROVE  outbox' = Append(outbox, BundleOf(r)')
<1>1. outbox' = outbox \o SetToSeq({BundleOf(p)' : p \in Intents})
  BY DEF IntentsTaken, Intents
<1>2. {BundleOf(p)' : p \in Intents} = {BundleOf(r)'}
  OBVIOUS
<1>3. SetToSeq({BundleOf(r)'}) = <<BundleOf(r)'>>
  BY OneToSeq
<1>4. Append(outbox, BundleOf(r)') = outbox \o <<BundleOf(r)'>>
  BY AppendIsConcat
<1> QED BY <1>1, <1>2, <1>3, <1>4

Stands == requests' = requests /\ Intents = {}

Fate ==
  \/ Stands
  \/ \E r \in RequestSlots : (Opens(r) \/ Shifts(r, "Open", "Rejected")) /\ Intents = {}
  \/ \E r \in RequestSlots : Shifts(r, "Open", "Settling") /\ Intents = {r}

Belief(status) == IF status = "Settled" THEN "Escrowed" ELSE "SettlementFailed"

Answers(r, status) ==
  /\ status \in {"Settled", "Reverted"}
  /\ Shifts(r, "Settling", Belief(status)) /\ Intents = {}

LEMMA RefusalStands == ASSUME NEW book, E!Refuse(book) PROVE Stands
BY DEF E!Refuse, E!Refused, Stands, Intents

LEMMA CreditFate == ASSUME NEW a, NEW amount, E!CreditAccount(a, amount) PROVE Stands
BY DEF E!CreditAccount, E!Accepted, Stands, Intents

LEMMA RegisterFate == ASSUME NEW c, NEW date, E!RegisterContract(c, date) PROVE Stands
BY RefusalStands DEF E!RegisterContract, E!Accepted, Stands, Intents

LEMMA OfferFate ==
  ASSUME NEW m, NEW r, NEW l, NEW price, NEW size, NEW expires_at,
         E!SubmitQuote(m, r, l, price, size, expires_at)
  PROVE  Stands
<1>1. CASE E!ReplaceAndOpen(m, r, l, price, size, expires_at, E!StandingQuote(r, l, m))
  <2> DEFINE old == E!StandingQuote(r, l, m)
             notices == {[kind |-> "Replaced", quote |-> q, maker |-> m] : q \in old}
             change == [kind |-> "BestSelectionChanged", request |-> r, leg |-> l,
                        price |-> published'[r][l]]
  <2>1. requests' = requests /\ reply'.events \subseteq notices \cup {change}
    BY <1>1 DEF E!ReplaceAndOpen, E!Accepted, E!Refused
  <2>2. \A p : [kind |-> "SubmitIntent", request |-> p].kind = "SubmitIntent"
    OBVIOUS
  <2>3. change.kind = "BestSelectionChanged" /\ \A e \in notices : e.kind = "Replaced"
    OBVIOUS
  <2> HIDE DEF notices, change
  <2> QED BY <2>1, <2>2, <2>3 DEF Stands, Intents
<1> QED BY <1>1, RefusalStands DEF E!SubmitQuote

LEMMA ListIsBasket ==
  ASSUME NEW legs \in EP!LegLists, Len(legs) \in EP!LegIds PROVE legs \in EP!Basket
<1>1. PICK n \in 0 .. MaxLegs : legs \in [1 .. n -> EP!LegSpecs]
  BY DEF EP!LegLists
<1>2. EP!LegSpecs \subseteq EP!LegSpec
  BY SettlementConstants DEF EP!LegSpecs, EP!LegSpec
<1>3. n \in Nat /\ legs \in [1 .. n -> EP!LegSpec]
  BY <1>1, <1>2, SettlementConstants
<1>4. legs \in Seq(EP!LegSpec)
  BY <1>3, FunctionIsSeq
<1> QED BY <1>4 DEF EP!Basket

LEMMA RequestFate ==
  ASSUME Typed, NEW a \in Accounts, NEW deadline \in Nat, NEW legs \in EP!LegLists,
         E!SubmitRequest(a, deadline, legs)
  PROVE  Fate
<1>1. ASSUME NEW r \in RequestSlots, E!OpenRequest(r, a, deadline, legs, E!Normalised({a})),
             Len(legs) \in E!LegIds
      PROVE  Fate
  <2> DEFINE x == [requester |-> a, deadline |-> deadline, legs |-> legs,
                   state |-> "Open", settle_by |-> 0]
  <2>1. /\ requests[r] = Vacant /\ requests' = [requests EXCEPT ![r] = x]
        /\ reply'.events = {[kind |-> "RequestOpened", request |-> r]}
    BY <1>1 DEF E!OpenRequest, E!Accepted
  <2>2. Intents = {}
    BY <2>1 DEF Intents
  <2>3. requests'[r] = x /\ Others(r)
    BY <2>1 DEF Others, Typed
  <2>4. x.state = "Open"
    OBVIOUS
  <2>5. x # Vacant
    <3>1. legs \in EP!Basket
      BY <1>1, SameInputs, ListIsBasket
    <3>2. x \in EP!Request
      BY <3>1 DEF EP!Request, EP!RequestState
    <3> QED BY <3>2, VacantIsNoRequest
  <2> QED BY <2>1, <2>2, <2>3, <2>4, <2>5 DEF Opens, Fate
<1> QED BY <1>1, RefusalStands DEF E!SubmitRequest, E!RequestAdmissible, Fate

LEMMA RejectFate == ASSUME Typed, NEW r \in RequestSlots, E!RejectRequest(r) PROVE Fate
<1>1. CASE /\ E!RejectAdmissible(r) /\ requests' = [requests EXCEPT ![r].state = "Rejected"]
           /\ E!Accepted(E!Notices(E!LinkedOn(r), "RequestRejected"))
  <2>1. E!InState(r, "Open") /\ "Rejected" \in EP!RequestState
    BY <1>1 DEF E!RejectAdmissible, EP!RequestState
  <2>2. Shifts(r, "Open", "Rejected")
    BY <1>1, <2>1, StateShifts
  <2>3. \A e \in reply'.events : e.kind \in {"RequestRejected", "QuoteExpired"}
    BY <1>1 DEF E!Accepted, E!Notices
  <2>4. Intents = {}
    <3>1. \A p : [kind |-> "SubmitIntent", request |-> p].kind = "SubmitIntent"
      OBVIOUS
    <3> QED BY <2>3, <3>1 DEF Intents
  <2> QED BY <2>2, <2>4 DEF Fate
<1> QED BY <1>1, RefusalStands DEF E!RejectRequest, Fate

LEMMA AcceptFate ==
  ASSUME Typed, now \in Nat, NEW r \in RequestSlots, NEW expected, E!AcceptRequest(r, expected)
  PROVE  Fate
<1>1. ASSUME NEW win, E!InState(r, "Open"), E!CommitAccept(r, win, E!Normalised(E!Requester(r)))
      PROVE  Fate
  <2> DEFINE winners == {win[l] : l \in E!LegsOf(r)}
             losers == E!LinkedOn(r) \ winners
             t == now + MaxSettlingTime
  <2>1. /\ requests' = [requests EXCEPT ![r].state = "Settling", ![r].settle_by = t]
        /\ reply'.events = E!Notices(losers, "Outbid") \cup {[kind |-> "SubmitIntent", request |-> r]}
    BY <1>1 DEF E!CommitAccept, E!Accepted
  <2>2. t \in Nat
    BY SettlementConstants
  <2>3. \A e \in E!Notices(losers, "Outbid") : e.kind \in {"Outbid", "QuoteExpired"}
    BY DEF E!Notices
  <2>4. \A p : /\ [kind |-> "SubmitIntent", request |-> p].kind = "SubmitIntent"
               /\ [kind |-> "SubmitIntent", request |-> p].request = p
    OBVIOUS
  <2> HIDE DEF losers, t
  <2>5. Intents = {r}
    BY <2>1, <2>3, <2>4 DEF Intents
  <2>6. requests[r] \in EP!Request
    BY <1>1 DEF Typed, E!InState
  <2>7. requests'[r] = [requests[r] EXCEPT !.state = "Settling", !.settle_by = t]
    BY <2>1 DEF Typed
  <2>8. /\ requests'[r] \in EP!Request /\ requests'[r].state = "Settling"
        /\ requests'[r].legs = requests[r].legs
    BY <2>2, <2>6, <2>7 DEF EP!Request, EP!RequestState
  <2>9. Others(r)
    BY <2>1 DEF Others, Typed
  <2>10. Shifts(r, "Open", "Settling")
    BY <1>1, <2>8, <2>9, VacantIsNoRequest DEF Shifts
  <2> QED BY <2>5, <2>10 DEF Fate
<1>2. CASE \E win : E!InState(r, "Open") /\ E!CommitAccept(r, win, E!Normalised(E!Requester(r)))
  BY <1>1, <1>2
<1> QED BY <1>2, RefusalStands DEF E!AcceptRequest, E!AcceptAdmissible, Fate

LEMMA PollFate ==
  ASSUME Typed, NEW r \in RequestSlots, NEW status, E!PollSettlement(r, status)
  PROVE  Stands \/ Answers(r, status)
<1> DEFINE book == E!Normalised(E!Requester(r))
           makers == E!OnList(book, r) \cap QuoteSlots
<1>1. CASE E!StillUnknown(r, book)
  BY <1>1 DEF E!StillUnknown, E!Accepted, Stands, Intents
<1>2. ASSUME NEW state, NEW events, E!Discharge(r, book, state, events)
      PROVE  requests' = [requests EXCEPT ![r].state = state] /\ reply'.events = events
  BY <1>2 DEF E!Discharge, E!Accepted
<1>3. ASSUME \A e \in reply'.events : e.kind # "SubmitIntent"
      PROVE  Intents = {}
  <2>1. \A p : [kind |-> "SubmitIntent", request |-> p].kind = "SubmitIntent"
    OBVIOUS
  <2> QED BY <1>3, <2>1 DEF Intents
<1> HIDE DEF book
<1>4. CASE /\ status = "Settled" /\ E!InState(r, "Settling")
           /\ E!Discharge(r, book, "Escrowed", {[kind |-> "RequestEscrowed", request |-> r]})
  <2>1. /\ requests' = [requests EXCEPT ![r].state = "Escrowed"]
        /\ reply'.events = {[kind |-> "RequestEscrowed", request |-> r]}
    BY <1>2, <1>4
  <2>2. Intents = {}
    BY <1>3, <2>1
  <2>3. "Escrowed" \in EP!RequestState
    BY DEF EP!RequestState
  <2>4. Shifts(r, "Settling", "Escrowed")
    BY <1>4, <2>1, <2>3, StateShifts
  <2> QED BY <1>4, <2>2, <2>4 DEF Answers, Belief
<1>5. CASE /\ status = "Reverted" /\ E!InState(r, "Settling")
           /\ E!Discharge(r, book, "SettlementFailed",
                {[kind |-> "SettlementFailed", quote |-> q, maker |-> quotes[q].maker]
                   : q \in makers} \cup {[kind |-> "RequestSettlementFailed", request |-> r]})
  <2> DEFINE failed == {[kind |-> "SettlementFailed", quote |-> q, maker |-> quotes[q].maker]
                          : q \in makers}
  <2>1. /\ requests' = [requests EXCEPT ![r].state = "SettlementFailed"]
        /\ reply'.events = failed \cup {[kind |-> "RequestSettlementFailed", request |-> r]}
    BY <1>2, <1>5
  <2>2. \A e \in failed : e.kind = "SettlementFailed"
    OBVIOUS
  <2> HIDE DEF failed
  <2>3. Intents = {}
    BY <1>3, <2>1, <2>2
  <2>4. "SettlementFailed" \in EP!RequestState
    BY DEF EP!RequestState
  <2>5. Shifts(r, "Settling", "SettlementFailed")
    BY <1>5, <2>1, <2>4, StateShifts
  <2> QED BY <1>5, <2>3, <2>5 DEF Answers, Belief
<1>6. \/ E!StillUnknown(r, book)
      \/ /\ status = "Settled" /\ E!InState(r, "Settling")
         /\ E!Discharge(r, book, "Escrowed", {[kind |-> "RequestEscrowed", request |-> r]})
      \/ /\ status = "Reverted" /\ E!InState(r, "Settling")
         /\ E!Discharge(r, book, "SettlementFailed",
              {[kind |-> "SettlementFailed", quote |-> q, maker |-> quotes[q].maker]
                 : q \in makers} \cup {[kind |-> "RequestSettlementFailed", request |-> r]})
      \/ E!Refuse(book)
  BY DEF E!PollSettlement, book
<1> QED BY <1>1, <1>4, <1>5, <1>6, RefusalStands

-----------------------------------------------------------------------------
(* The bundle of an accepted request is one custody understands            *)

Good == {b \in C!Bundle : Len(b.legs) \in 1 .. MaxLegs}

\* A bundle for request r, leg for leg.
Ready(r) == {b \in Good : b.nonce = r /\ Len(b.legs) = Len(requests[r].legs)}

Bundled == \A r \in RequestSlots : E!InState(r, "Settling") => BundleOf(r) \in Ready(r)

LEMMA SameCardinality == ASSUME NEW S PROVE EP!Cardinality(S) = Cardinality(S)
BY DEF EP!Cardinality, Cardinality

LEMMA WinnerOnLeg ==
  ASSUME EP!FundsInv, NEW r \in RequestSlots, E!InState(r, "Settling"), NEW l \in DOMAIN requests[r].legs,
         l \in EP!LegIds
  PROVE  \E q \in chain[r][l] : /\ q = (CHOOSE p \in chain[r][l] : TRUE)
                               /\ quotes[q] \in EP!Quote /\ quotes[q].price <= UNIT
<1> DEFINE q == CHOOSE p \in chain[r][l] : TRUE
<1>1. EP!InState(r, "Settling")
  BY DEF E!InState, EP!InState
<1>2. Cardinality(chain[r][l]) = 1
  BY <1>1, SameCardinality DEF EP!FundsInv, EP!SettlingFullyFunded, EP!LegsOf
<1>3. q \in chain[r][l]
  <2>1. chain[r][l] # {}
    BY <1>2, FS_EmptySet
  <2> QED BY <2>1
<1>4. chain[r][l] = {p \in QuoteSlots : /\ quotes[p] # Vacant
                                        /\ quotes[p].request = r /\ quotes[p].leg = l}
  BY <1>1 DEF EP!FundsInv, EP!MInv, EP!IInv, EP!LegChainsSound
<1>5. q \in QuoteSlots /\ quotes[q] # Vacant
  BY <1>3, <1>4
<1>6. quotes[q] \in EP!Quote /\ quotes[q].price <= UNIT
  BY <1>5 DEF EP!FundsInv, EP!MInv, EP!IInv, EP!TypeRest, EP!PricesWithinUnit
<1> QED BY <1>3, <1>6

LEMMA BundlesReady == EP!FundsInv => Bundled
<1> SUFFICES ASSUME EP!FundsInv, NEW r \in RequestSlots, E!InState(r, "Settling")
             PROVE  BundleOf(r) \in Ready(r)
  BY DEF Bundled
<1>1. requests[r] \in EP!Request
  BY EngineTyped DEF Typed, E!InState
<1>2. requests[r].requester \in Accounts /\ requests[r].legs \in EP!Basket
  BY <1>1 DEF EP!Request
<1> DEFINE n == Len(requests[r].legs)
<1>7. UNIT \in Nat /\ MaxLegs \in Nat /\ Makers \subseteq Accounts
  BY SettlementConstants
<1>3. /\ requests[r].legs \in Seq(EP!LegSpec) /\ n \in 1 .. MaxLegs /\ n \in Nat
      /\ DOMAIN requests[r].legs = 1 .. n /\ 1 .. n \subseteq EP!LegIds
  <2>1. requests[r].legs \in Seq(EP!LegSpec) /\ n \in 1 .. MaxLegs
    BY <1>2 DEF EP!Basket, EP!LegIds
  <2>2. n \in Nat /\ DOMAIN requests[r].legs = 1 .. n
    BY <2>1
  <2> HIDE DEF n
  <2>3. 1 .. n \subseteq 1 .. MaxLegs
    BY <1>7, <2>1, <2>2
  <2> QED BY <2>1, <2>2, <2>3 DEF EP!LegIds
<1>4. ASSUME NEW l \in 1 .. n PROVE BundleLeg(r, l) \in C!Leg
  <2> DEFINE spec == requests[r].legs[l]
  <2>1. spec.contract \in Contracts /\ spec.size \in Nat
    <3>1. spec \in EP!LegSpec
      BY <1>3
    <3> QED BY <3>1 DEF EP!LegSpec
  <2>2. PICK q : /\ q = (CHOOSE p \in chain[r][l] : TRUE)
                 /\ quotes[q] \in EP!Quote /\ quotes[q].price <= UNIT
    BY <1>3, WinnerOnLeg
  <2> DEFINE quote == quotes[q]
  <2>3. /\ quote.maker \in Accounts /\ quote.price \in Nat /\ quote.price <= UNIT
        /\ quote.expires_at \in Nat
    BY <1>7, <2>2 DEF EP!Quote
  <2>4. spec.size * (UNIT - quote.price) \in Nat /\ spec.size * quote.price \in Nat
    <3>1. \A x, y \in Nat : x * y \in Nat
      OBVIOUS
    <3>2. UNIT - quote.price \in Nat
      <4> HIDE DEF quote
      <4> QED BY <1>7, <2>3
    <3> HIDE DEF spec, quote
    <3> QED BY <2>1, <2>3, <3>1, <3>2
  <2>5. BundleLeg(r, l) =
          [contract |-> spec.contract, side |-> "Yes", maker |-> quote.maker,
           maker_contribution |-> spec.size * (UNIT - quote.price),
           requester_contribution |-> spec.size * quote.price,
           quote_expiry |-> quote.expires_at]
    BY <2>2 DEF BundleLeg, E!MakerContribution
  <2> HIDE DEF spec, quote
  <2> QED BY <2>1, <2>3, <2>4, <2>5 DEF C!Leg, C!Side
<1> DEFINE legs == [l \in DOMAIN requests[r].legs |-> BundleLeg(r, l)]
<1>5. legs \in Seq(C!Leg) /\ Len(legs) = n
  <2>1. legs \in [1 .. n -> C!Leg]
    BY <1>3, <1>4
  <2> HIDE DEF legs, n
  <2> QED BY <1>3, <2>1, FunctionIsSeq
<1> HIDE DEF legs
<1>6. BundleOf(r) = [nonce |-> r, requester |-> requests[r].requester, legs |-> legs]
  BY DEF BundleOf, legs
<1> QED BY <1>2, <1>3, <1>5, <1>6 DEF Ready, Good, C!Bundle

LEMMA BundlesReadyNext == EP!FundsInv' => Bundled'
BY BundlesReady, PTL

-----------------------------------------------------------------------------
(* What a step is to the requests and to the adapter                       *)

(* A bundle is for a request that was accepted, leg for leg.                *)
Sent == {b \in Good : b.nonce \in Wanted /\ Len(b.legs) = Len(requests[b.nonce].legs)}

EngineInv == EP!FundsInv /\ now \in 0 .. MaxTime

AdapterInv == outbox \in Seq(Sent) /\ in_flight \in Seq(Sent) /\ queue \in Seq(Sent)

(* An answer in the log is custody's.                                       *)
LogTrue ==
  \A i \in 1 .. Len(entries) : entries[i].payload.kind = "SettlementResolved" =>
    /\ entries[i].payload.nonce \in DOMAIN resolved
    /\ resolved[entries[i].payload.nonce] = entries[i].payload.status

Learns(r) ==
  /\ r \in DOMAIN resolved /\ resolved[r] \in {"Settled", "Reverted"}
  /\ Shifts(r, "Settling", Belief(resolved[r]))

EngineEvent ==
  \/ requests' = requests /\ outbox' = outbox
  \/ \E r \in RequestSlots : /\ Opens(r) \/ Shifts(r, "Open", "Rejected") \/ Learns(r)
                             /\ outbox' = outbox
  \/ \E r \in RequestSlots : /\ Shifts(r, "Open", "Settling")
                             /\ \E b \in Ready(r) : outbox' = Append(outbox, b)

LEMMA FateIsEvent ==
  ASSUME EngineInv, EP!FundsInv', Fate, IntentsTaken, outbox \in Seq(Good)
  PROVE  EngineEvent
<1>1. CASE Intents = {}
  <2>1. outbox' = outbox
    BY <1>1, NoIntentNoBundle
  <2> QED BY <1>1, <2>1 DEF Fate, Stands, EngineEvent
<1>2. ASSUME NEW r \in RequestSlots, Shifts(r, "Open", "Settling"), Intents = {r}
      PROVE  EngineEvent
  <2>1. E!InState(r, "Settling")' /\ requests'[r].legs = requests[r].legs
    BY <1>2 DEF Shifts, E!InState
  <2>2. BundleOf(r)' \in Ready(r)
    BY <2>1, BundlesReadyNext DEF Bundled, Ready, Good
  <2>3. BundleOf(r)' \in Good
    BY <2>2 DEF Ready
  <2>4. outbox' = Append(outbox, BundleOf(r)')
    BY <1>2, <2>3, OneIntentOneBundle
  <2> QED BY <1>2, <2>2, <2>4 DEF EngineEvent
<1> QED BY <1>1, <1>2 DEF Fate, Stands

LEMMA AsksFate ==
  ASSUME EngineInv, Asks
  PROVE  Fate
<1>1. Typed /\ now \in Nat
  BY EngineTyped DEF EngineInv
<1>2. CASE Register
  BY <1>2, RegisterFate DEF Register, Apply, Fate
<1>3. CASE Request
  <2>1. PICK a \in Requesters, deadline \in now .. (now + MaxRequestTtl), legs \in E!LegLists :
          E!SubmitRequest(a, deadline, legs)
    BY <1>3 DEF Request, Apply
  <2>2. a \in Accounts /\ deadline \in Nat /\ legs \in EP!LegLists
    BY <1>1, SettlementConstants, SameInputs
  <2> QED BY <1>1, <2>1, <2>2, RequestFate
<1>4. CASE Offer
  BY <1>4, OfferFate DEF Offer, Apply, Fate
<1>5. CASE Accept
  BY <1>1, <1>5, AcceptFate DEF Accept, Apply
<1>6. CASE Reject
  BY <1>1, <1>6, RejectFate DEF Reject, Apply
<1>7. CASE \E r \in RequestSlots : Poll(r)
  <2>1. PICK r \in RequestSlots : Poll(r)
    BY <1>7
  <2>2. /\ E!PollSettlement(r, C!Status(r))
        /\ C!Status(r) \in {"Unknown", "Pending"}
    BY <2>1 DEF Poll, Apply, ReportableStatus
  <2> QED BY <1>1, <2>2, PollFate DEF Answers, Fate
<1> QED BY <1>2, <1>3, <1>4, <1>5, <1>6, <1>7 DEF Asks

LEMMA PumpIsEvent ==
  ASSUME EngineInv, CP!ReaderInv, LogTrue, outbox \in Seq(Good), Pump
  PROVE  EngineEvent
<1>1. CASE handed' = handed
  BY <1>1 DEF Pump, engineVars, EngineEvent
<1>2. CASE handed' # handed
  <2> DEFINE payload == entries[cursor + 1].payload
  <2>1. Told(payload) /\ IntentsTaken /\ cursor < Len(entries)
    BY <1>2 DEF Pump, I!ReadNext
  <2>2. cursor + 1 \in 1 .. Len(entries) /\ entries[cursor + 1] \in CP!LogEntry
    <3>1. CP!ReaderTyped
      BY DEF CP!ReaderInv
    <3>2. entries \in Seq(CP!LogEntry) /\ cursor \in 0 .. Len(entries) /\ Len(entries) \in Nat
      BY <3>1 DEF CP!ReaderTyped, CP!IndexerTypeOK
    <3>3. cursor + 1 \in 1 .. Len(entries)
      BY <2>1, <3>2
    <3> QED BY <3>2, <3>3, ElementOfSeq
  <2>3. payload \in Notices
    BY <2>2 DEF CP!LogEntry
  <2>4. CASE payload.kind = "BalanceChanged" /\ E!CreditAccount(payload.account, payload.available)
    <3>1. Stands
      BY <2>4, CreditFate
    <3>2. outbox' = outbox
      BY <2>1, <3>1, NoIntentNoBundle DEF Stands
    <3> QED BY <3>1, <3>2 DEF Stands, EngineEvent
  <2>5. CASE payload.kind = "SettlementResolved" /\ E!PollSettlement(payload.nonce, payload.status)
    <3> DEFINE r == payload.nonce
               status == payload.status
    <3>1. r \in RequestSlots /\ status \in {"Settled", "Reverted"}
      BY <2>3, <2>5 DEF Notices
    <3>2. r \in DOMAIN resolved /\ resolved[r] = status
      BY <2>2, <2>5 DEF LogTrue
    <3>3. Typed
      BY EngineTyped DEF EngineInv
    <3>4. E!PollSettlement(r, status)
      BY <2>5
    <3> HIDE DEF r, status
    <3>5. Stands \/ Answers(r, status)
      BY <3>1, <3>3, <3>4, PollFate
    <3>6. outbox' = outbox
      BY <2>1, <3>5, NoIntentNoBundle DEF Stands, Answers
    <3> QED BY <3>1, <3>2, <3>5, <3>6 DEF Stands, Answers, Learns, EngineEvent
  <2> QED BY <2>1, <2>4, <2>5 DEF Told
<1> QED BY <1>1, <1>2

LEMMA EngineEvents ==
  ASSUME EngineInv, EP!FundsInv', CP!ReaderInv, LogTrue, outbox \in Seq(Good), Asks \/ Pump
  PROVE  /\ EngineEvent
         /\ UNCHANGED <<custodyVars, logVars, chainVars, in_flight>>
<1>1. CASE Asks
  <2>1. IntentsTaken /\ UNCHANGED <<custodyVars, logVars, chainVars, in_flight>>
    BY <1>1, AsksCommand DEF EngineInv
  <2> QED BY <1>1, <2>1, AsksFate, FateIsEvent
<1>2. CASE Pump
  <2>1. UNCHANGED <<custodyVars, logVars, chainVars, in_flight>>
    BY <1>2 DEF Pump, I!ReadNext, I!logVars, logVars, chainVars
  <2> QED BY <1>2, <2>1, PumpIsEvent
<1> QED BY <1>1, <1>2

-----------------------------------------------------------------------------
(* The bundles on their way                                                *)

LEMMA GoodBundles == ASSUME NEW q \in Seq(Sent) PROVE q \in Seq(C!Bundle) /\ q \in Seq(Good)
<1>1. Sent \subseteq Good /\ Good \subseteq C!Bundle
  BY DEF Sent, Good
<1> QED BY <1>1

LEMMA WantedSame == ASSUME requests' = requests PROVE Wanted' = Wanted /\ Sent' = Sent
BY DEF Wanted, Sent, Good, E!InState

LEMMA TransactsKeep ==
  ASSUME AdapterInv, Transacts
  PROVE  AdapterInv'
<1>1. PICK S : S = Sent /\ S = Sent'
  BY TransactsAround, WantedSame DEF engineVars
<1>2. outbox \in Seq(S) /\ in_flight \in Seq(S) /\ queue \in Seq(S)
  BY <1>1 DEF AdapterInv
<1> SUFFICES outbox' \in Seq(S) /\ in_flight' \in Seq(S) /\ queue' \in Seq(S)
  BY <1>1 DEF AdapterInv
<1>3. CASE Deposit \/ RequestWithdrawal \/ ExecuteWithdrawal
  <2>1. UNCHANGED <<outbox, in_flight, queue>>
    BY <1>3 DEF Deposit, RequestWithdrawal, ExecuteWithdrawal, Transact, C!Deposit,
                C!RequestWithdrawal, C!ExecuteWithdrawal, adapterVars
  <2> QED BY <1>2, <2>1
<1>4. CASE SubmitPending
  <2>1. /\ outbox # <<>> /\ outbox' = Tail(outbox) /\ in_flight' = Append(in_flight, Head(outbox))
        /\ queue' = Append(queue, Head(outbox))
    BY <1>4 DEF SubmitPending, Transact, C!Submit
  <2>2. Head(outbox) \in S /\ Tail(outbox) \in Seq(S)
    BY <1>2, <2>1
  <2> QED BY <1>2, <2>1, <2>2
<1>5. CASE LoseNextSubmission
  <2>1. queue # <<>> /\ queue' = Tail(queue) /\ UNCHANGED <<outbox, in_flight>>
    BY <1>5 DEF LoseNextSubmission, Transact, C!DropNextSubmission
  <2> QED BY <1>2, <2>1
<1>6. CASE Include
  <2>1. queue # <<>> /\ queue' = Tail(queue) /\ UNCHANGED <<outbox, in_flight>>
    BY <1>6 DEF Include, Transact, C!IncludeNext, adapterVars
  <2> QED BY <1>2, <2>1
<1>7. ASSUME NEW r \in RequestSlots, Resubmit(r)
      PROVE  outbox' \in Seq(S) /\ in_flight' \in Seq(S) /\ queue' \in Seq(S)
  <2> DEFINE i == Min(Kept(r))
  <2>1. /\ Kept(r) # {} /\ queue' = Append(queue, in_flight[i]) /\ UNCHANGED <<outbox, in_flight>>
    BY <1>7 DEF Resubmit, Transact, C!Submit, adapterVars
  <2>2. i \in DOMAIN in_flight
    <3>1. Kept(r) \in SUBSET Nat /\ Kept(r) \subseteq DOMAIN in_flight
      BY <1>2 DEF Kept
    <3>2. \E x \in Kept(r) : \A y \in Kept(r) : x <= y
      BY <2>1, <3>1, LeastNatural
    <3>3. i \in Kept(r)
      BY <3>2 DEF Min
    <3> QED BY <3>1, <3>3
  <2> HIDE DEF i
  <2>3. in_flight[i] \in S
    BY <1>2, <2>2
  <2> QED BY <1>2, <2>1, <2>3
<1> QED BY <1>3, <1>4, <1>5, <1>6, <1>7 DEF Transacts

(* Custody decides the bundle at the head of its queue, every leg of it or  *)
(* none, or decides nothing.                                                *)
Decides(r, status) ==
  /\ r \in Wanted \ DOMAIN resolved
  /\ resolved' = [m \in DOMAIN resolved \cup {r} |-> IF m = r THEN status ELSE resolved[m]]
  /\ Len(escrows') =
       IF status = "Settled" THEN Len(escrows) + Len(requests[r].legs) ELSE Len(escrows)

ChainEvent ==
  \/ resolved' = resolved /\ Len(escrows') = Len(escrows)
  \/ \E r \in RequestSlots, status \in {"Settled", "Reverted"} : Decides(r, status)

LEMMA TransactsDecide ==
  ASSUME AdapterInv, CP!MInv, CP!MInv', Transacts
  PROVE  CP!Writes /\ ChainEvent
<1>1. CustodyMoves
  BY TransactsMove, GoodBundles DEF AdapterInv
<1>2. CP!Transacted
  BY <1>1, ChainFits, CP!CustodyTransacts DEF ChainAssumptions, CustodyMoves, CP!MInv
<1>3. Len(escrows) \in Nat
  BY DEF CP!MInv, CP!TypeOK
<1>4. ASSUME queue # <<>>, NEW status \in {"Settled", "Reverted"}, CP!Decides(Head(queue), status)
      PROVE  ChainEvent
  <2> DEFINE b == Head(queue)
  <2>1. b \in Sent
    BY <1>4 DEF AdapterInv
  <2>2. /\ b.nonce \in Wanted /\ b.nonce \in RequestSlots
        /\ Len(b.legs) = Len(requests[b.nonce].legs) /\ Len(b.legs) \in Nat
    BY <2>1 DEF Sent, Good, Wanted
  <2>3. /\ b.nonce \notin DOMAIN resolved
        /\ resolved' = [m \in DOMAIN resolved \cup {b.nonce} |->
                          IF m = b.nonce THEN status ELSE resolved[m]]
        /\ Len(escrows') = Len(escrows) + (IF status = "Settled" THEN Len(b.legs) ELSE 0)
    BY <1>4 DEF CP!Decides, CP!Resolve
  <2> HIDE DEF b
  <2>4. Decides(b.nonce, status)
    BY <1>3, <2>2, <2>3 DEF Decides
  <2> QED BY <2>2, <2>4 DEF ChainEvent
<1> QED BY <1>2, <1>4 DEF CP!Transacted, ChainEvent

-----------------------------------------------------------------------------
(* The indexer of the harness is the indexer                               *)

LEMMA NoticesSame == CP!Notice = Notices
BY DEF CP!Notice, CP!BalanceNotice, CP!AnswerNotice, Notices

LEMMA ReaderMoves ==
  ASSUME CP!ReaderInv, [CP!IndexerNext]_(CP!indexerVars)
  PROVE  CP!ReaderInv'
BY ChainFits, CP!ReaderStep DEF ChainAssumptions

LEMMA ReaderStays ==
  ASSUME CP!ReaderInv, UNCHANGED <<logVars, readerVars, chainVars>>
  PROVE  CP!ReaderInv'
BY ReaderMoves DEF CP!indexerVars, CP!logVars, CP!readerVars, logVars, readerVars, chainVars

LEMMA ReaderReads == ASSUME CP!ReaderInv, I!ReadNext PROVE CP!ReaderInv'
<1>1. CP!ReadNext
  BY DEF I!ReadNext, CP!ReadNext, I!Confirmed, CP!Confirmed, I!CursorPast, CP!CursorPast,
         I!Key, CP!Key, I!logVars, CP!logVars
<1> QED BY <1>1, ReaderMoves DEF CP!IndexerNext

LEMMA ReaderMines == ASSUME CP!ReaderInv, I!Mine PROVE CP!ReaderInv'
<1>1. CP!Mine
  BY DEF I!Mine, CP!Mine, I!AdvanceBlock, CP!AdvanceBlock, I!readerVars, CP!readerVars
<1> QED BY <1>1, ReaderMoves DEF CP!IndexerNext

LEMMA SameRetained ==
  ASSUME NEW es, NEW block PROVE I!Retained(es, block) = CP!Retained(es, block)
BY DEF I!Retained, CP!Retained, I!FoldLeft, CP!FoldLeft, I!MapThenFoldSet, CP!MapThenFoldSet,
       I!Max, CP!Max

LEMMA SameReorg ==
  ASSUME NEW block, I!ShallowReorg(block) PROVE CP!ShallowReorg(block)
BY SameRetained DEF I!ShallowReorg, CP!ShallowReorg, I!Reorg, CP!Reorg, I!readerVars, CP!readerVars

LEMMA ReaderRewinds ==
  ASSUME CP!ReaderInv, ReorgOrRestart PROVE CP!ReaderInv'
<1>1. CASE I!Rewind
  <2>1. CP!Rewind
    BY <1>1 DEF I!Rewind, CP!Rewind, I!logVars, CP!logVars
  <2> QED BY <2>1, ReaderMoves DEF CP!IndexerNext
<1>2. ASSUME NEW block \in 1 .. MaxHead, I!ShallowReorg(block) PROVE CP!ReaderInv'
  <2>1. CP!ShallowReorg(block) /\ block \in 0 .. MaxHead
    BY <1>2, SameReorg
  <2> QED BY <2>1, ReaderMoves DEF CP!IndexerNext
<1> QED BY <1>1, <1>2 DEF ReorgOrRestart

LEMMA ReaderFollows ==
  ASSUME CP!ReaderInv, CP!Writes, UNCHANGED <<readerVars, chainVars>>
  PROVE  CP!ReaderInv'
<1>1. CASE UNCHANGED CP!logVars
  BY <1>1, ReaderStays DEF CP!logVars, logVars
<1>2. ASSUME NEW payloads \in Seq(CP!Notice), CP!Append1(payloads) PROVE CP!ReaderInv'
  <2> DEFINE k == Len(payloads)
             more == [i \in 1 .. k |-> [block |-> head, tx |-> next_tx + i - 1, index |-> 0,
                                        payload |-> payloads[i]]]
  <2>1. next_tx \in Nat /\ head \in Nat
    BY ChainFits, CP!ReaderFacts DEF ChainAssumptions, CP!ReaderInv
  <2>2. k \in Nat /\ DOMAIN payloads = 1 .. k /\ \A i \in 1 .. k : payloads[i] \in Notices
    BY NoticesSame
  <2>3. more \in [1 .. k -> CP!LogEntry]
    BY <2>1, <2>2 DEF CP!LogEntry
  <2>4. \A i \in 1 .. k : more[i].block = head /\ more[i].tx = next_tx + i - 1
    OBVIOUS
  <2>5. /\ entries' = entries \o more /\ next_tx' = next_tx + k
        /\ UNCHANGED <<head, cursor, delivered, handed, tip>>
    BY <1>2, <2>2 DEF CP!Append1, readerVars, chainVars
  <2> HIDE DEF k, more
  <2>6. \A i \in 1 .. k : more[i].block = head /\ more[i].tx >= next_tx /\ more[i].tx < next_tx + k
    BY <2>1, <2>2, <2>4
  <2>7. \A i, j \in 1 .. k : CP!Key(more[i]) = CP!Key(more[j]) => i = j
    BY <2>1, <2>4 DEF CP!Key
  <2>8. next_tx + k \in Nat /\ next_tx <= next_tx + k
    BY <2>1, <2>2
  <2>9. UNCHANGED <<head, CP!readerVars, tip>>
    BY <2>5 DEF CP!readerVars
  <2> QED BY <2>2, <2>3, <2>5, <2>6, <2>7, <2>8, <2>9, ChainFits, CP!ExtendKeeps
          DEF ChainAssumptions
<1> QED BY <1>1, <1>2 DEF CP!Writes

-----------------------------------------------------------------------------
(* What the engine believes, the log tells and custody decided             *)

DecidedWanted == DOMAIN resolved \subseteq Wanted

BeliefsTrue ==
  \A r \in RequestSlots :
    /\ E!InState(r, "Escrowed") => r \in DOMAIN resolved /\ resolved[r] = "Settled"
    /\ E!InState(r, "SettlementFailed") => r \in DOMAIN resolved /\ resolved[r] = "Reverted"

(* What may be added to the decisions.                                      *)
Decided1 ==
  /\ DOMAIN resolved \subseteq DOMAIN resolved'
  /\ \A r \in DOMAIN resolved : resolved'[r] = resolved[r]

LEMMA ChainDecides == ASSUME ChainEvent PROVE Decided1
BY DEF ChainEvent, Decides, Decided1

LEMMA EventKeepsBeliefs ==
  ASSUME DecidedWanted, BeliefsTrue, EngineEvent, resolved' = resolved
  PROVE  DecidedWanted' /\ BeliefsTrue' /\ Wanted \subseteq Wanted'
<1>1. CASE requests' = requests
  BY <1>1 DEF DecidedWanted, BeliefsTrue, Wanted, E!InState
<1>2. ASSUME NEW r \in RequestSlots, Opens(r) \/ Shifts(r, "Open", "Rejected")
      PROVE  DecidedWanted' /\ BeliefsTrue' /\ Wanted \subseteq Wanted'
  <2>1. \A s \in {"Settling", "Escrowed", "SettlementFailed"} :
          ~E!InState(r, s) /\ ~(E!InState(r, s)')
    BY <1>2 DEF Opens, Shifts, E!InState
  <2>2. \A p \in RequestSlots \ {r} : \A s : E!InState(p, s)' <=> E!InState(p, s)
    BY <1>2 DEF Opens, Shifts, Others, E!InState
  <2>3. \A p \in RequestSlots : \A s \in {"Settling", "Escrowed", "SettlementFailed"} :
          E!InState(p, s)' <=> E!InState(p, s)
    BY <2>1, <2>2
  <2>4. Wanted' = Wanted
    BY <2>3 DEF Wanted
  <2> QED BY <2>3, <2>4 DEF DecidedWanted, BeliefsTrue
<1>3. ASSUME NEW r \in RequestSlots, Shifts(r, "Open", "Settling")
      PROVE  DecidedWanted' /\ BeliefsTrue' /\ Wanted \subseteq Wanted'
  <2>1. ~(E!InState(r, "Escrowed")') /\ ~(E!InState(r, "SettlementFailed")') /\ E!InState(r, "Settling")'
    BY <1>3 DEF Shifts, E!InState
  <2>2. \A p \in RequestSlots \ {r} : \A s : E!InState(p, s)' <=> E!InState(p, s)
    BY <1>3 DEF Shifts, Others, E!InState
  <2>3. Wanted \subseteq Wanted'
    BY <2>1, <2>2 DEF Wanted
  <2> QED BY <2>1, <2>2, <2>3 DEF DecidedWanted, BeliefsTrue
<1>4. ASSUME NEW r \in RequestSlots, Learns(r)
      PROVE  DecidedWanted' /\ BeliefsTrue' /\ Wanted \subseteq Wanted'
  <2>1. /\ r \in DOMAIN resolved /\ resolved[r] \in {"Settled", "Reverted"}
        /\ \A s : E!InState(r, s)' => s = Belief(resolved[r])
        /\ E!InState(r, Belief(resolved[r]))'
    BY <1>4 DEF Learns, Shifts, E!InState
  <2>2. \A p \in RequestSlots \ {r} : \A s : E!InState(p, s)' <=> E!InState(p, s)
    BY <1>4 DEF Learns, Shifts, Others, E!InState
  <2>3. Wanted \subseteq Wanted'
    BY <2>1, <2>2 DEF Wanted, Belief
  <2>4. /\ E!InState(r, "Escrowed")' => resolved[r] = "Settled"
        /\ E!InState(r, "SettlementFailed")' => resolved[r] = "Reverted"
    BY <2>1 DEF Belief
  <2> QED BY <2>1, <2>2, <2>3, <2>4 DEF DecidedWanted, BeliefsTrue
<1> QED BY <1>1, <1>2, <1>3, <1>4 DEF EngineEvent

LEMMA DecisionKeepsBeliefs ==
  ASSUME DecidedWanted, BeliefsTrue, ChainEvent, requests' = requests
  PROVE  DecidedWanted' /\ BeliefsTrue'
<1>1. Wanted' = Wanted
  BY WantedSame
<1>2. DecidedWanted'
  BY <1>1 DEF DecidedWanted, ChainEvent, Decides
<1>3. BeliefsTrue'
  BY ChainDecides DEF BeliefsTrue, Decided1, E!InState
<1> QED BY <1>2, <1>3

LEMMA LogStaysTrue ==
  ASSUME LogTrue, Decided1, NEW n \in Nat, n <= Len(entries), Len(entries) \in Nat,
         Len(entries') = n, \A i \in 1 .. n : entries'[i] = entries[i]
  PROVE  LogTrue'
BY DEF LogTrue, Decided1

LEMMA LogGrowsTrue ==
  ASSUME LogTrue, Decided1, CP!Writes, entries \in Seq(CP!LogEntry), entries' \in Seq(CP!LogEntry)
  PROVE  LogTrue'
<1>1. CASE UNCHANGED CP!logVars
  BY <1>1 DEF CP!logVars, LogTrue, Decided1
<1>2. ASSUME NEW payloads \in Seq(CP!Notice), CP!Append1(payloads),
             CP!AnswersTrue(payloads, resolved')
      PROVE  LogTrue'
  <2> DEFINE k == Len(payloads)
             L == Len(entries)
             more == [i \in 1 .. k |-> [block |-> head, tx |-> next_tx + i - 1, index |-> 0,
                                        payload |-> payloads[i]]]
  <2>1. k \in Nat /\ DOMAIN payloads = 1 .. k /\ L \in Nat
    OBVIOUS
  <2>2. \A i \in 1 .. k : more[i].payload = payloads[i]
    OBVIOUS
  <2>3. entries' = entries \o more
    BY <1>2, <2>1 DEF CP!Append1
  <2>4. DOMAIN more = 1 .. k /\ Len(more) = k
    <3> DEFINE T == {more[i] : i \in 1 .. k}
    <3>1. more \in [1 .. k -> T]
      OBVIOUS
    <3> HIDE DEF k, more
    <3>2. more \in Seq(T) /\ Len(more) = k
      BY <2>1, <3>1, FunctionIsSeq
    <3>3. DOMAIN more = 1 .. k
      BY <3>1
    <3> QED BY <3>2, <3>3
  <2> HIDE DEF k, more, L
  <2>5. /\ Len(entries') = L + k
        /\ \A i \in 1 .. L + k : entries'[i] = IF i <= L THEN entries[i] ELSE more[i - L]
    BY <2>1, <2>3, <2>4 DEF L
  <2> SUFFICES ASSUME NEW i \in 1 .. L + k, entries'[i].payload.kind = "SettlementResolved"
               PROVE  /\ entries'[i].payload.nonce \in DOMAIN resolved'
                      /\ resolved'[entries'[i].payload.nonce] = entries'[i].payload.status
    BY <2>5 DEF LogTrue
  <2>6. CASE i \in 1 .. L
    <3>1. entries'[i] = entries[i]
      BY <2>1, <2>5, <2>6
    <3> QED BY <2>6, <3>1 DEF LogTrue, Decided1, L
  <2>7. CASE i \notin 1 .. L
    <3>1. i - L \in 1 .. k /\ entries'[i] = more[i - L]
      BY <2>1, <2>5, <2>7
    <3>2. entries'[i].payload = payloads[i - L]
      BY <2>2, <3>1
    <3> QED BY <1>2, <3>1, <3>2 DEF CP!AnswersTrue, k
  <2> QED BY <2>6, <2>7
<1> QED BY <1>1, <1>2 DEF CP!Writes

-----------------------------------------------------------------------------
(* The invariant of the harness                                            *)

IInv ==
  /\ EngineInv
  /\ CP!MInv
  /\ CP!ReaderInv
  /\ LogTrue
  /\ AdapterInv
  /\ DecidedWanted
  /\ BeliefsTrue

LEMMA ReaderKnows ==
  ASSUME CP!ReaderInv
  PROVE  /\ entries \in Seq(CP!LogEntry) /\ Len(entries) \in Nat /\ cursor \in 0 .. Len(entries)
         /\ \A i \in 1 .. Len(entries) : entries[i] \in CP!LogEntry
         /\ \A i \in 1 .. Len(entries) : entries[i].payload \in Notices
<1>1. entries \in Seq(CP!LogEntry) /\ cursor \in 0 .. Len(entries)
  BY DEF CP!ReaderInv, CP!ReaderTyped, CP!IndexerTypeOK
<1>2. \A i \in 1 .. Len(entries) : entries[i] \in CP!LogEntry
  BY <1>1
<1> QED BY <1>1, <1>2 DEF CP!LogEntry

LEMMA StartsInv == Init => IInv
<1> SUFFICES ASSUME Init PROVE IInv
  OBVIOUS
<1>1. EP!FundsInv /\ now \in 0 .. MaxTime /\ CP!MInv
  BY EngineStarts, CustodyStarts
<1>2. CP!ReaderInv
  <2>1. CP!IndexerInit
    BY DEF Init, C!CustodyInit, C!LogInit, CP!IndexerInit, CP!LogInit
  <2> QED BY <2>1, ChainFits, CP!ReaderStarts DEF ChainAssumptions
<1>3. /\ \A r \in RequestSlots : requests[r] = Vacant
      /\ resolved = <<>> /\ queue = <<>> /\ outbox = <<>> /\ in_flight = <<>> /\ entries = <<>>
  BY DEF Init, E!Init, C!CustodyInit, C!LogInit
<1>4. AdapterInv /\ LogTrue
  BY <1>3 DEF AdapterInv, LogTrue
<1>5. EngineInv /\ DecidedWanted /\ BeliefsTrue
  BY <1>1, <1>3 DEF EngineInv, DecidedWanted, BeliefsTrue, E!InState
<1> QED BY <1>1, <1>2, <1>4, <1>5 DEF IInv

(* The engine's part of a step.                                             *)
LEMMA EngineMovesOn ==
  ASSUME IInv, [Next]_vars
  PROVE  EP!FundsInv' /\ now' \in 0 .. MaxTime
<1>1. EngineMoves
  BY NextMovesEngine, ReaderKnows DEF IInv, EngineInv
<1> QED BY <1>1, EngineKeeps DEF EngineMoves, IInv, EngineInv

LEMMA EventKeepsSent ==
  ASSUME EngineEvent, Wanted \subseteq Wanted'
  PROVE  Sent \subseteq Sent'
<1> SUFFICES ASSUME NEW b \in Sent PROVE b \in Sent'
  OBVIOUS
<1>1. PICK r : r = b.nonce
  OBVIOUS
<1>2. b \in Good /\ r \in Wanted /\ Len(b.legs) = Len(requests[r].legs)
  BY <1>1 DEF Sent
<1>3. r \in RequestSlots /\ requests[r] # Vacant
  BY <1>2 DEF Wanted, E!InState
<1>4. requests'[r].legs = requests[r].legs
  BY <1>3 DEF EngineEvent, Opens, Shifts, Learns, Others
<1> QED BY <1>1, <1>2, <1>4 DEF Sent, Good

(* Custody's part of a step.                                                *)
LEMMA CustodyMovesOn ==
  ASSUME IInv, [Next]_vars
  PROVE  CP!MInv'
<1>1. CASE CustodyMoves
  BY <1>1, CustodyKeeps DEF IInv
<1>2. CASE UNCHANGED custodyVars /\ (MineBlock \/ ReorgOrRestart)
  <2>1. head' \in Nat
    <3>1. CP!ReaderInv'
      BY <1>2, ReaderMines, ReaderRewinds DEF MineBlock, IInv
    <3>2. (CP!ReaderTyped)'
      BY <3>1 DEF CP!ReaderInv
    <3>3. head' \in 0 .. MaxHead
      BY <3>2 DEF CP!ReaderTyped, CP!IndexerTypeOK
    <3> QED BY <3>3
  <2> QED BY <1>2, <2>1 DEF IInv, CP!MInv, CP!TypeOK, custodyVars, CP!Held, CP!Locked
<1> QED BY <1>1, <1>2, NextMovesCustody, GoodBundles DEF IInv, AdapterInv

LEMMA EngineStepKeeps ==
  ASSUME IInv, EP!FundsInv', now' \in 0 .. MaxTime, CP!MInv', Asks \/ Pump
  PROVE  IInv'
<1>1. EngineEvent /\ UNCHANGED <<custodyVars, logVars, chainVars, in_flight>>
  BY EngineEvents, GoodBundles DEF IInv, AdapterInv
<1>2. UNCHANGED <<resolved, queue, entries, in_flight>>
  BY <1>1 DEF custodyVars, logVars
<1>3. DecidedWanted' /\ BeliefsTrue' /\ Wanted \subseteq Wanted'
  BY <1>1, <1>2, EventKeepsBeliefs DEF IInv
<1>4. EngineInv'
  BY DEF EngineInv
<1>5. CP!ReaderInv'
  <2>1. CASE Asks
    BY <2>1, AsksAround, ReaderStays DEF IInv
  <2>2. CASE Pump
    BY <2>2, ReaderReads DEF IInv, Pump
  <2> QED BY <2>1, <2>2
<1>6. LogTrue'
  BY <1>2 DEF IInv, LogTrue
<1>7. PICK S : S = Sent'
  OBVIOUS
<1>8. Sent \subseteq S
  BY <1>1, <1>3, <1>7, EventKeepsSent
<1>9. outbox \in Seq(S) /\ in_flight' \in Seq(S) /\ queue' \in Seq(S)
  BY <1>2, <1>8 DEF IInv, AdapterInv
<1>10. outbox' \in Seq(S)
  <2>1. ASSUME NEW r \in RequestSlots, Shifts(r, "Open", "Settling"),
               NEW b \in Ready(r), outbox' = Append(outbox, b)
        PROVE  outbox' \in Seq(S)
    <3>1. b \in S
      BY <1>7, <2>1 DEF Ready, Good, Sent, Wanted, Shifts, E!InState
    <3> QED BY <1>9, <2>1, <3>1
  <2> QED BY <1>1, <1>9, <2>1 DEF EngineEvent
<1> QED BY <1>3, <1>4, <1>5, <1>6, <1>7, <1>9, <1>10 DEF IInv, AdapterInv

LEMMA TransactStepKeeps ==
  ASSUME IInv, EP!FundsInv', now' \in 0 .. MaxTime, CP!MInv', Transacts
  PROVE  IInv'
<1>1. UNCHANGED <<engineVars, readerVars, chainVars>> /\ requests' = requests
  BY TransactsAround DEF engineVars
<1>2. CP!Writes /\ ChainEvent /\ AdapterInv'
  BY TransactsDecide, TransactsKeep DEF IInv
<1>3. EngineInv'
  BY DEF EngineInv
<1>4. CP!ReaderInv'
  BY <1>1, <1>2, ReaderFollows DEF IInv
<1>5. LogTrue'
  <2>1. entries \in Seq(CP!LogEntry)
    BY ReaderKnows DEF IInv
  <2>2. (CP!ReaderTyped)'
    BY <1>4 DEF CP!ReaderInv
  <2>3. entries' \in Seq(CP!LogEntry)
    BY <2>2 DEF CP!ReaderTyped
  <2> QED BY <1>2, <2>1, <2>3, ChainDecides, LogGrowsTrue DEF IInv
<1>6. DecidedWanted' /\ BeliefsTrue'
  BY <1>1, <1>2, DecisionKeepsBeliefs DEF IInv
<1> QED BY <1>2, <1>3, <1>4, <1>5, <1>6 DEF IInv

LEMMA ChainStepKeeps ==
  ASSUME IInv, CP!MInv', MineBlock \/ ReorgOrRestart
  PROVE  IInv'
<1>1. UNCHANGED <<engineVars, custodyVars, adapterVars>>
  BY DEF MineBlock, ReorgOrRestart
<1>2. UNCHANGED <<requests, resolved, queue, outbox, in_flight, now>>
  BY <1>1 DEF engineVars, custodyVars, adapterVars
<1>3. CP!ReaderInv'
  BY ReaderMines, ReaderRewinds DEF MineBlock, IInv
<1>4. EP!FundsInv'
  <2>1. UNCHANGED EP!vars
    BY <1>1 DEF engineVars, EP!vars
  <2> QED BY <2>1, EngineKeeps DEF IInv, EngineInv
<1>5. EngineInv'
  BY <1>2, <1>4 DEF IInv, EngineInv
<1>6. Wanted' = Wanted /\ Sent' = Sent
  BY <1>2, WantedSame
<1>7. AdapterInv' /\ DecidedWanted' /\ BeliefsTrue'
  BY <1>2, <1>6 DEF IInv, AdapterInv, DecidedWanted, BeliefsTrue, E!InState
<1>8. LogTrue'
  <2>1. Decided1
    BY <1>2 DEF Decided1
  <2>2. CASE entries' = entries
    BY <1>2, <2>2 DEF IInv, LogTrue
  <2>3. ASSUME NEW block \in 1 .. MaxHead, I!ShallowReorg(block)
        PROVE  LogTrue'
    <3>1. entries \in Seq(CP!LogEntry) /\ CP!SortedLog(entries) /\ Len(entries) \in Nat
      BY ReaderKnows DEF IInv, CP!ReaderInv, CP!BlocksSorted
    <3>2. block \in Nat /\ entries' = CP!Retained(entries, block)
      BY <2>3, SameReorg DEF CP!ShallowReorg, CP!Reorg
    <3>3. PICK k \in 0 .. Len(entries) : /\ Len(entries') = k
                                          /\ \A i \in 1 .. k : entries'[i] = entries[i]
      BY <3>1, <3>2, ChainFits, CP!RetainedIsPrefix DEF ChainAssumptions
    <3> QED BY <2>1, <3>1, <3>3, LogStaysTrue DEF IInv
  <2>4. I!Mine \/ I!Rewind => entries' = entries
    BY DEF I!Mine, I!AdvanceBlock, I!Rewind, I!logVars
  <2> QED BY <2>2, <2>3, <2>4 DEF MineBlock, ReorgOrRestart
<1> QED BY <1>3, <1>5, <1>7, <1>8 DEF IInv

LEMMA RestStepKeeps ==
  ASSUME IInv, EP!FundsInv', now' \in 0 .. MaxTime, CP!MInv',
         UNCHANGED vars \/ StallIndexer \/ ResumeIndexer \/ Tick
  PROVE  IInv'
<1>1. UNCHANGED <<requests, resolved, queue, outbox, in_flight, entries>>
  BY DEF vars, StallIndexer, ResumeIndexer, Tick, Clocks, engineVars, custodyVars, logVars,
         adapterVars, E!Tick, C!Tick, C!ledgerVars
<1>2. UNCHANGED <<logVars, readerVars, chainVars>>
  BY DEF vars, StallIndexer, ResumeIndexer, Tick, Clocks
<1>3. CP!ReaderInv'
  BY <1>2, ReaderStays DEF IInv
<1>4. Wanted' = Wanted /\ Sent' = Sent
  BY <1>1, WantedSame
<1> QED BY <1>1, <1>3, <1>4 DEF IInv, EngineInv, AdapterInv, DecidedWanted, BeliefsTrue,
                               E!InState, LogTrue

LEMMA NextKeeps == IInv /\ [Next]_vars => IInv'
<1> SUFFICES ASSUME IInv, [Next]_vars PROVE IInv'
  OBVIOUS
<1>1. EP!FundsInv' /\ now' \in 0 .. MaxTime /\ CP!MInv'
  BY EngineMovesOn, CustodyMovesOn
<1> QED BY <1>1, EngineStepKeeps, TransactStepKeeps, ChainStepKeeps, RestStepKeeps, NextKinds

-----------------------------------------------------------------------------
(* The mirror                                                              *)

(* Without a reorg the log says what is available, and the mirror is what  *)
(* the part of the log that was handed over said last.                     *)
MirrorInv ==
  /\ reorgs \in Nat
  /\ reorgs = 0 => CP!AnnouncedInv
  /\ \A a \in Accounts : CP!SaidLast(handed, free[a], a)

LEMMA SaidAppend ==
  ASSUME NEW es \in Seq(CP!LogEntry), NEW e, NEW x, NEW y, NEW a, CP!SaidLast(es, x, a),
         IF e.payload.kind = "BalanceChanged" /\ e.payload.account = a
         THEN y = e.payload.available ELSE y = x
  PROVE  CP!SaidLast(Append(es, e), y, a)
<1> DEFINE fs == Append(es, e)
           L == Len(es)
<1>1. /\ L \in Nat /\ Len(fs) = L + 1 /\ fs[L + 1] = e
      /\ \A i \in 1 .. L : fs[i] = es[i]
  <2> DEFINE T == CP!LogEntry \cup {e}
  <2>1. es \in Seq(T) /\ e \in T
    OBVIOUS
  <2> QED BY <2>1, AppendProperties
<1>2. 1 .. L + 1 = (1 .. L) \cup {L + 1} /\ L + 1 \notin 1 .. L
  BY <1>1
<1> HIDE DEF fs, L
<1>3. CASE CP!Says(fs, L + 1, a)
  <2>1. y = e.payload.available
    BY <1>1, <1>3 DEF CP!Says
  <2>2. \A j \in 1 .. Len(fs) : j <= L + 1
    BY <1>1
  <2> QED BY <1>1, <1>2, <1>3, <2>1, <2>2 DEF CP!SaidLast, fs
<1>4. CASE ~CP!Says(fs, L + 1, a)
  <2>1. y = x
    BY <1>1, <1>4 DEF CP!Says
  <2>2. \A i \in 1 .. L : CP!Says(fs, i, a) <=> CP!Says(es, i, a)
    BY <1>1 DEF CP!Says
  <2>3. CASE x = 0 /\ \A i \in 1 .. L : ~CP!Says(es, i, a)
    <3>1. \A i \in 1 .. Len(fs) : ~CP!Says(fs, i, a)
      BY <1>1, <1>2, <1>4, <2>2, <2>3
    <3> QED BY <2>1, <2>3, <3>1 DEF CP!SaidLast, fs
  <2>4. ASSUME NEW i \in 1 .. L, CP!Says(es, i, a), es[i].payload.available = x,
               \A j \in 1 .. L : CP!Says(es, j, a) => j <= i
        PROVE  CP!SaidLast(fs, y, a)
    <3>1. i \in 1 .. Len(fs) /\ CP!Says(fs, i, a) /\ fs[i].payload.available = y
      BY <1>1, <1>2, <2>1, <2>2, <2>4
    <3>2. \A j \in 1 .. Len(fs) : CP!Says(fs, j, a) => j <= i
      BY <1>1, <1>2, <1>4, <2>2, <2>4
    <3> QED BY <3>1, <3>2 DEF CP!SaidLast
  <2>5. \/ x = 0 /\ \A i \in 1 .. L : ~CP!Says(es, i, a)
        \/ \E i \in 1 .. L : /\ CP!Says(es, i, a) /\ es[i].payload.available = x
                             /\ \A j \in 1 .. L : CP!Says(es, j, a) => j <= i
    BY DEF CP!SaidLast, L
  <2> QED BY ONLY <2>3, <2>4, <2>5 DEF fs
<1> QED BY <1>3, <1>4

LEMMA AsksLeaveMirror == ASSUME Asks PROVE free' = free
<1>1. CASE Register
  BY <1>1 DEF Register, Apply, E!RegisterContract, E!Refuse
<1>2. CASE Request
  <2>1. \A a, deadline, legs : E!SubmitRequest(a, deadline, legs) => free' = free
    BY DEF E!SubmitRequest, E!OpenRequest, E!Refuse
  <2> QED BY <1>2, <2>1 DEF Request, Apply
<1>3. CASE Offer
  BY <1>3 DEF Offer, Apply, E!SubmitQuote, E!ReplaceAndOpen, E!Refuse
<1>4. CASE Accept
  BY <1>4 DEF Accept, Apply, E!AcceptRequest, E!CommitAccept, E!Refuse
<1>5. CASE Reject
  BY <1>5 DEF Reject, Apply, E!RejectRequest, E!Refuse
<1>6. CASE \E r \in RequestSlots : Poll(r)
  BY <1>6 DEF Poll, Apply, E!PollSettlement, E!Discharge, E!StillUnknown, E!Refuse
<1> QED BY <1>1, <1>2, <1>3, <1>4, <1>5, <1>6 DEF Asks

LEMMA PumpKeepsMirror ==
  ASSUME EP!FundsInv, CP!ReaderInv, Pump, \A a \in Accounts : CP!SaidLast(handed, free[a], a),
         NEW a \in Accounts
  PROVE  CP!SaidLast(handed', free'[a], a)
<1>1. CASE handed' = handed
  BY <1>1 DEF Pump, engineVars
<1>2. CASE handed' # handed
  <2> DEFINE e == entries[cursor + 1]
             payload == e.payload
  <2>1. Told(payload) /\ handed' = Append(handed, e)
    BY <1>2 DEF Pump, I!ReadNext
  <2>2. handed \in Seq(CP!LogEntry)
    BY DEF CP!ReaderInv, CP!ReaderTyped
  <2>3. free \in [Accounts -> Nat]
    BY DEF EP!FundsInv, EP!MInv, EP!IInv, EP!TypeRest
  <2>4. CASE payload.kind = "BalanceChanged" /\ E!CreditAccount(payload.account, payload.available)
    <3>1. free' = [free EXCEPT ![payload.account] = payload.available]
      BY <2>4 DEF E!CreditAccount
    <3>2. IF e.payload.kind = "BalanceChanged" /\ e.payload.account = a
          THEN free'[a] = e.payload.available ELSE free'[a] = free[a]
      BY <2>3, <2>4, <3>1
    <3>3. CP!SaidLast(handed, free[a], a)
      OBVIOUS
    <3> HIDE DEF e
    <3> QED BY <2>1, <2>2, <3>2, <3>3, SaidAppend
  <2>5. CASE payload.kind = "SettlementResolved" /\ E!PollSettlement(payload.nonce, payload.status)
    <3>1. free' = free
      BY <2>5 DEF E!PollSettlement, E!Discharge, E!StillUnknown, E!Refuse
    <3>2. IF e.payload.kind = "BalanceChanged" /\ e.payload.account = a
          THEN free'[a] = e.payload.available ELSE free'[a] = free[a]
      BY <2>5, <3>1
    <3>3. CP!SaidLast(handed, free[a], a)
      OBVIOUS
    <3> HIDE DEF e
    <3> QED BY <2>1, <2>2, <3>2, <3>3, SaidAppend
  <2> QED BY <2>1, <2>4, <2>5 DEF Told
<1> QED BY <1>1, <1>2

LEMMA NextKeepsMirror ==
  ASSUME IInv, IInv', MirrorInv, [Next]_vars
  PROVE  \A a \in Accounts : CP!SaidLast(handed', free'[a], a)
<1>1. CASE Pump
  BY <1>1, PumpKeepsMirror DEF IInv, EngineInv, MirrorInv
<1>2. CASE ~Pump
  <2>1. UNCHANGED <<handed, free>>
    <3>1. CASE Asks
      BY <3>1, AsksLeaveMirror, AsksAround DEF readerVars
    <3>2. CASE Transacts
      BY <3>2, TransactsAround DEF readerVars, engineVars
    <3>3. CASE MineBlock \/ ReorgOrRestart
      BY <3>3 DEF MineBlock, ReorgOrRestart, engineVars, I!Mine, I!Rewind, I!ShallowReorg,
                  I!readerVars
    <3>4. CASE UNCHANGED vars \/ StallIndexer \/ ResumeIndexer \/ Tick
      BY <3>4 DEF vars, StallIndexer, ResumeIndexer, Tick, Clocks, engineVars, readerVars, E!Tick
    <3> QED BY <1>2, <3>1, <3>2, <3>3, <3>4, NextKinds
  <2> QED BY <2>1 DEF MirrorInv
<1> QED BY <1>1, <1>2

LEMMA NextKeepsAnnounced ==
  ASSUME IInv, IInv', MirrorInv, [Next]_vars
  PROVE  reorgs' \in Nat /\ (reorgs' = 0 => CP!AnnouncedInv')
<1>1. CASE CustodyMoves /\ ~(MineBlock \/ ReorgOrRestart)
  <2>1. reorgs' = reorgs
    <3>1. CASE Asks
      BY <3>1, AsksAround DEF chainVars
    <3>2. CASE Transacts
      BY <3>2, TransactsAround DEF chainVars
    <3>3. CASE Pump
      BY <3>3 DEF Pump, I!ReadNext
    <3>4. CASE UNCHANGED vars \/ StallIndexer \/ ResumeIndexer \/ Tick
      BY <3>4 DEF vars, StallIndexer, ResumeIndexer, Tick, Clocks, chainVars
    <3> QED BY <1>1, <3>1, <3>2, <3>3, <3>4, NextKinds
  <2>2. CP!AnnouncedInv => CP!AnnouncedInv'
    BY <1>1, ChainFits, CP!AnnouncedStep DEF ChainAssumptions, CustodyMoves, IInv, CP!MInv
  <2> QED BY <2>1, <2>2 DEF MirrorInv
<1>2. CASE UNCHANGED custodyVars /\ MineBlock
  <2>1. UNCHANGED <<balance, pending, queue, resolved, entries, next_tx, reorgs>>
    BY <1>2 DEF custodyVars, MineBlock, I!Mine, I!AdvanceBlock
  <2>2. head' \in Nat
    BY DEF IInv, CP!MInv, CP!TypeOK
  <2> QED BY <2>1, <2>2 DEF MirrorInv, CP!AnnouncedInv, CP!LogTyped, CP!Lendable, CP!Available
<1>3. CASE UNCHANGED custodyVars /\ ReorgOrRestart
  <2>1. CASE I!Rewind
    <3>1. UNCHANGED <<balance, pending, queue, resolved, logVars, reorgs>>
      BY <1>3, <2>1 DEF custodyVars, I!Rewind, I!logVars, logVars
    <3> QED BY <3>1 DEF MirrorInv, CP!AnnouncedInv, CP!LogTyped, CP!Lendable, CP!Available, logVars
  <2>2. ASSUME NEW block, I!ShallowReorg(block)
        PROVE  reorgs' \in Nat /\ reorgs' # 0
    BY <2>2 DEF I!ShallowReorg, MirrorInv
  <2> QED BY <1>3, <2>1, <2>2 DEF ReorgOrRestart
<1> QED BY <1>1, <1>2, <1>3, NextMovesCustody, GoodBundles DEF IInv, AdapterInv, MineBlock, ReorgOrRestart

(* Two readers of the same log are told the same.                          *)
LEMMA SaidLastOnce ==
  ASSUME NEW es \in Seq(CP!LogEntry), NEW fs \in Seq(CP!LogEntry), Len(fs) = Len(es),
         \A i \in 1 .. Len(es) : fs[i] = es[i], NEW x, NEW y, NEW a,
         CP!SaidLast(es, x, a), CP!SaidLast(fs, y, a)
  PROVE  x = y
<1>1. Len(es) \in Nat /\ \A i \in 1 .. Len(es) : CP!Says(fs, i, a) <=> CP!Says(es, i, a)
  BY DEF CP!Says
<1>2. CASE \A i \in 1 .. Len(es) : ~CP!Says(es, i, a)
  BY <1>1, <1>2 DEF CP!SaidLast
<1>3. CASE ~\A i \in 1 .. Len(es) : ~CP!Says(es, i, a)
  <2>1. PICK i \in 1 .. Len(es) : /\ CP!Says(es, i, a) /\ es[i].payload.available = x
                                  /\ \A j \in 1 .. Len(es) : CP!Says(es, j, a) => j <= i
    BY <1>3 DEF CP!SaidLast
  <2>2. PICK k \in 1 .. Len(es) : /\ CP!Says(fs, k, a) /\ fs[k].payload.available = y
                                  /\ \A j \in 1 .. Len(es) : CP!Says(fs, j, a) => j <= k
    BY <1>1, <1>3 DEF CP!SaidLast
  <2>3. i = k
    BY <1>1, <2>1, <2>2
  <2> QED BY <2>1, <2>2, <2>3
<1> QED BY <1>2, <1>3

LEMMA MirrorMeans ==
  ASSUME IInv, MirrorInv, reorgs = 0 PROVE MirrorIsExact
<1> SUFFICES ASSUME cursor = Len(entries), NEW a \in Accounts
             PROVE  free[a] = C!Available(balance, pending, a)
  BY DEF MirrorIsExact
<1>1. entries \in Seq(CP!LogEntry) /\ handed \in Seq(CP!LogEntry)
  BY DEF IInv, CP!ReaderInv, CP!ReaderTyped
<1>2. Len(handed) = Len(entries) /\ \A i \in 1 .. Len(entries) : handed[i] = entries[i]
  <2>1. Len(handed) <= Len(entries) /\ cursor <= Len(handed)
    BY DEF IInv, CP!ReaderInv, CP!HandedInOrder
  <2>2. Len(handed) = Len(entries)
    BY <1>1, <2>1
  <2> QED BY <2>2 DEF IInv, CP!ReaderInv, CP!HandedInOrder
<1>3. /\ CP!SaidLast(entries, CP!Lendable(balance, pending)[a], a)
      /\ CP!SaidLast(handed, free[a], a)
  BY DEF MirrorInv, CP!AnnouncedInv
<1>4. CP!Lendable(balance, pending)[a] = C!Available(balance, pending, a)
  BY DEF CP!Lendable, CP!Available, C!Available
<1> QED BY <1>1, <1>2, <1>3, <1>4, SaidLastOnce

LEMMA MirrorStarts == Init => MirrorInv
<1> SUFFICES ASSUME Init PROVE MirrorInv
  OBVIOUS
<1>1. CP!AnnouncedInv
  BY CustodyStarts
<1>2. reorgs = 0 /\ handed = <<>> /\ \A a \in Accounts : free[a] = 0
  BY DEF Init, E!Init
<1> QED BY <1>1, <1>2 DEF MirrorInv, CP!SaidLast

LEMMA InvariantHolds == Spec => []IInv
BY StartsInv, NextKeeps, PTL DEF Spec

(* Until a reorg discards something, an indexer that has read everything   *)
(* leaves the engine's mirror of every account at exactly what custody     *)
(* would let go (check_mirror_agreement, harness.rs), however commands,    *)
(* settlements, withdrawals, lost submissions and restarts interleave.     *)
THEOREM MirrorFollowsCustody == Spec => [](reorgs = 0 => MirrorIsExact)
<1>1. IInv /\ MirrorInv => (reorgs = 0 => MirrorIsExact)
  BY MirrorMeans
<1>2. IInv /\ IInv' /\ MirrorInv /\ [Next]_vars => MirrorInv'
  BY NextKeepsMirror, NextKeepsAnnounced DEF MirrorInv
<1> QED BY <1>1, <1>2, MirrorStarts, InvariantHolds, PTL DEF Spec

-----------------------------------------------------------------------------
(* The harness reaches agreement                                           *)

Decisions == [r \in RequestSlots |-> Decided(r)]
Beliefs == [r \in RequestSlots |-> Believed(r)]
PartsOf(r) == IF r \in Wanted THEN Len(requests[r].legs) ELSE 0
Parts == [r \in RequestSlots |-> PartsOf(r)]

LEMMA WantedShifts ==
  ASSUME NEW r \in RequestSlots, Others(r)
  PROVE  \A p \in RequestSlots \ {r} :
           (p \in Wanted' <=> p \in Wanted) /\ Believed(p)' = Believed(p) /\ PartsOf(p)' = PartsOf(p)
BY DEF Others, Wanted, Believed, PartsOf, E!InState

LEMMA EventAgrees ==
  ASSUME Typed, EngineEvent, UNCHANGED <<resolved, escrows>>
  PROVE  [A!Next]_(A!agreementVars)
<1>1. Decisions' = Decisions /\ Len(escrows') = Len(escrows)
  BY DEF Decisions, Decided
<1>2. CASE requests' = requests
  <2>1. Wanted' = Wanted /\ Beliefs' = Beliefs /\ Parts' = Parts
    BY <1>2 DEF Wanted, Beliefs, Believed, Parts, PartsOf, E!InState
  <2> QED BY <1>1, <2>1 DEF A!agreementVars, Decisions, Beliefs, Parts, PartsOf
<1>3. ASSUME NEW r \in RequestSlots, Opens(r) \/ Shifts(r, "Open", "Rejected")
      PROVE  [A!Next]_(A!agreementVars)
  <2>1. r \notin Wanted /\ r \notin Wanted' /\ Believed(r) = Vacant /\ Believed(r)' = Vacant
    BY <1>3 DEF Opens, Shifts, Wanted, Believed, E!InState
  <2>2. PartsOf(r)' = PartsOf(r)
    BY <2>1 DEF PartsOf
  <2>3. \A p \in RequestSlots :
          (p \in Wanted' <=> p \in Wanted) /\ Believed(p)' = Believed(p) /\ PartsOf(p)' = PartsOf(p)
    BY <1>3, <2>1, <2>2, WantedShifts DEF Opens, Shifts
  <2>4. Wanted' = Wanted /\ Beliefs' = Beliefs /\ Parts' = Parts
    BY <2>3 DEF Beliefs, Wanted, Parts
  <2> QED BY <1>1, <2>4 DEF A!agreementVars, Decisions, Beliefs, Parts, PartsOf
<1>4. ASSUME NEW r \in RequestSlots, Shifts(r, "Open", "Settling")
      PROVE  [A!Next]_(A!agreementVars)
  <2>1. r \notin Wanted /\ r \in Wanted' /\ Believed(r) = Vacant /\ Believed(r)' = Vacant
    BY <1>4 DEF Shifts, Wanted, Believed, E!InState
  <2>2. \A p \in RequestSlots : Believed(p)' = Believed(p)
    BY <1>4, <2>1, WantedShifts DEF Shifts
  <2>3. Wanted' = Wanted \cup {r}
    <3>1. Wanted \subseteq RequestSlots /\ Wanted' \subseteq RequestSlots
      BY DEF Wanted
    <3>2. \A p \in RequestSlots \ {r} : p \in Wanted' <=> p \in Wanted
      BY <1>4, WantedShifts DEF Shifts
    <3> QED BY <2>1, <3>1, <3>2
  <2>4. Beliefs' = Beliefs
    BY <2>2 DEF Beliefs
  <2>5. PartsOf(r)' = Len(requests[r].legs) /\ Len(requests[r].legs) \in 1 .. MaxLegs
    <3>1. requests[r] \in EP!Request /\ requests'[r].legs = requests[r].legs
      BY <1>4 DEF Typed, Shifts, E!InState
    <3>2. Len(requests[r].legs) \in 1 .. MaxLegs
      BY <3>1 DEF EP!Request, EP!Basket, EP!LegIds
    <3> QED BY <2>1, <3>1, <3>2 DEF PartsOf
  <2>6. Parts' = [Parts EXCEPT ![r] = Len(requests[r].legs)]
    BY <1>4, <2>5, WantedShifts DEF Parts, Shifts
  <2>7. A!Want(r)
    BY <1>1, <2>1, <2>3, <2>4, <2>5, <2>6 DEF A!Want, Decisions, Beliefs, Parts, PartsOf
  <2> QED BY <2>7 DEF A!Next
<1>5. ASSUME NEW r \in RequestSlots, Learns(r)
      PROVE  [A!Next]_(A!agreementVars)
  <2>1. /\ r \in Wanted /\ r \in Wanted' /\ Believed(r) = Vacant
        /\ Believed(r)' = resolved[r] /\ Decided(r) = resolved[r] /\ resolved[r] # Vacant
    BY <1>5, VacantIsNoValue DEF Learns, Shifts, Wanted, Believed, Decided, Belief, E!InState
  <2>2. \A p \in RequestSlots \ {r} :
          (p \in Wanted' <=> p \in Wanted) /\ Believed(p)' = Believed(p) /\ PartsOf(p)' = PartsOf(p)
    BY <1>5, WantedShifts DEF Learns, Shifts
  <2>3. Wanted' = Wanted
    <3>1. Wanted \subseteq RequestSlots /\ Wanted' \subseteq RequestSlots
      BY DEF Wanted
    <3> QED BY <2>1, <2>2, <3>1
  <2>4. Parts' = Parts
    <3>1. PartsOf(r)' = PartsOf(r)
      BY <1>5, <2>1 DEF PartsOf, Learns, Shifts
    <3> QED BY <2>2, <3>1 DEF Parts
  <2>5. Beliefs' = [Beliefs EXCEPT ![r] = Decisions[r]]
    BY <2>1, <2>2 DEF Beliefs, Decisions
  <2>6. Decisions[r] # Vacant /\ Beliefs[r] = Vacant
    BY <2>1 DEF Beliefs, Decisions
  <2>7. A!Learn(r)
    BY <1>1, <2>3, <2>4, <2>5, <2>6 DEF A!Learn, Decisions, Beliefs, Parts, PartsOf
  <2> QED BY <2>7 DEF A!Next
<1> QED BY <1>2, <1>3, <1>4, <1>5 DEF EngineEvent

LEMMA DecisionAgrees ==
  ASSUME ChainEvent, requests' = requests
  PROVE  [A!Next]_(A!agreementVars)
<1>1. Wanted' = Wanted /\ Beliefs' = Beliefs /\ Parts' = Parts
  BY DEF Wanted, Beliefs, Believed, Parts, PartsOf, E!InState
<1>2. CASE resolved' = resolved /\ Len(escrows') = Len(escrows)
  <2>1. Decisions' = Decisions
    BY <1>2 DEF Decisions, Decided
  <2> QED BY <1>1, <1>2, <2>1 DEF A!agreementVars, Decisions, Beliefs, Parts, PartsOf
<1>3. ASSUME NEW r \in RequestSlots, NEW status \in {"Settled", "Reverted"}, Decides(r, status)
      PROVE  [A!Next]_(A!agreementVars)
  <2>1. r \in Wanted /\ Decided(r) = Vacant /\ Decided(r)' = status
    BY <1>3 DEF Decides, Decided
  <2>2. \A p \in RequestSlots \ {r} : Decided(p)' = Decided(p)
    BY <1>3 DEF Decides, Decided
  <2>3. Decisions' = [Decisions EXCEPT ![r] = status] /\ Decisions[r] = Vacant
    BY <2>1, <2>2 DEF Decisions
  <2>4. Len(escrows') = IF status = "Settled" THEN Len(escrows) + Parts[r] ELSE Len(escrows)
    BY <1>3, <2>1 DEF Decides, Parts, PartsOf
  <2>5. A!Decide(r, status)
    BY <1>1, <2>1, <2>3, <2>4 DEF A!Decide, Decisions, Beliefs, Parts, PartsOf
  <2> QED BY <2>5 DEF A!Next
<1> QED BY <1>2, <1>3 DEF ChainEvent

LEMMA NextAgrees ==
  IInv /\ IInv' /\ [Next]_vars => [A!Next]_(A!agreementVars)
<1> SUFFICES ASSUME IInv, IInv', [Next]_vars PROVE [A!Next]_(A!agreementVars)
  OBVIOUS
<1>0. Typed
  BY EngineTyped DEF IInv, EngineInv
<1>1. CASE Asks \/ Pump
  <2>1. EngineEvent /\ UNCHANGED <<custodyVars, logVars, chainVars, in_flight>>
    BY <1>1, EngineEvents, GoodBundles DEF IInv, EngineInv, AdapterInv
  <2>2. UNCHANGED <<resolved, escrows>>
    BY <2>1 DEF custodyVars
  <2> QED BY <1>0, <2>1, <2>2, EventAgrees
<1>2. CASE Transacts
  <2>1. ChainEvent /\ requests' = requests
    BY <1>2, TransactsDecide, TransactsAround DEF IInv, engineVars
  <2> QED BY <2>1, DecisionAgrees
<1>3. CASE UNCHANGED vars \/ MineBlock \/ ReorgOrRestart \/ StallIndexer \/ ResumeIndexer \/ Tick
  <2>1. UNCHANGED <<requests, resolved, escrows, outbox>>
    BY <1>3 DEF vars, MineBlock, ReorgOrRestart, StallIndexer, ResumeIndexer, Tick, Clocks,
                engineVars, custodyVars, adapterVars, E!Tick, C!Tick, C!ledgerVars
  <2> QED BY <1>0, <2>1, EventAgrees DEF EngineEvent
<1> QED BY <1>1, <1>2, <1>3, NextKinds

(* The engine believes of a trade what custody decided of it, once, and    *)
(* only of a request that was accepted; a basket decided Settled forms, in *)
(* that step, an escrow for every leg the engine accepted, and no other    *)
(* step forms one: whatever is lost, repeated, taken back by a reorg or    *)
(* read again, poll_settlement, the adapter and include_next together      *)
(* implement that agreement, for baskets of any length up to MaxLegs.      *)
THEOREM SettlementAgrees == Spec => ImplementsAgreement
<1>1. Init => A!Init
  <2> SUFFICES ASSUME Init PROVE A!Init
    OBVIOUS
  <2>1. /\ \A r \in RequestSlots : requests[r] = Vacant
        /\ DOMAIN resolved = {} /\ Len(escrows) = 0
    BY DEF Init, E!Init, C!CustodyInit
  <2>2. Wanted = {} /\ \A r \in RequestSlots : Decided(r) = Vacant /\ Believed(r) = Vacant
    BY <2>1 DEF Wanted, Decided, Believed, E!InState
  <2> QED BY <2>1, <2>2 DEF A!Init
<1>2. IInv /\ IInv' /\ [Next]_vars => [A!Next]_(A!agreementVars)
  BY NextAgrees
<1> QED BY <1>1, <1>2, InvariantHolds, PTL DEF Spec, ImplementsAgreement, A!Spec
=============================================================================
